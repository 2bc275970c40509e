SPECIFICATION Spec
SYMMETRY MCSymmetry
CONSTANTS
    old = old
    test = test
    Torn = Torn
    None = None
    Cid <- MCCid
    OldCids <- MCOldCids
    Request = {r1, r2, r3}
INVARIANTS
    OldCidTypeOK
    AcceptedStays
    AnswersAreFresh
