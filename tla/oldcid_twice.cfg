SPECIFICATION Spec
CONSTANTS
    old = old
    test = test
    Torn = Torn
    None = None
    Cid <- MCCid
    OldCids <- MCOldCids
    Request = {r1, r2}
INVARIANT
    CoveredOnce
