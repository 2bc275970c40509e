CONSTANTS
    k1 = k1
    k2 = k2
    k3 = k3
    a = a
    b = b
    Conn <- MCConn
    Cid <- MCCid
    Own <- MCOwn
    NoConn = NoConn
    NoCid = NoCid
SPECIFICATION Spec
INVARIANTS
    SignallingTypeOK
    NoClosedPeer
    EveryPairMeets
    SentToAddressee
PROPERTIES
    LostIsForgotten
CHECK_DEADLOCK FALSE
