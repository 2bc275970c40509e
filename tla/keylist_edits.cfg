CONSTANTS
    Tx = {t1, t2, t3, t4}
    NoTx = NoTx
    NotAsked = NotAsked
    Device = {m, a, b}
    Master = m
    Request = {r1}
    MaxKeys = 2
    MaxSends = 1
    Limit = 0
    TimerStarted = FALSE
    Reorgs = FALSE
    SlowCreate = FALSE
SPECIFICATION KeyListSpec
SYMMETRY MCSymmetry
CONSTRAINTS
    OneListAllKept
INVARIANTS
    KeysWellFormed
    SignersAuthorized
    NoEditLost
CHECK_DEADLOCK FALSE
