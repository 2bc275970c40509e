CONSTANTS
    Tx = {t1, t2}
    NoTx = NoTx
    NotAsked = NotAsked
    Device = {m, a}
    Master = m
    Request = {r1, r2}
    MaxKeys = 2
    MaxSends = 1
    Limit = 0
    TimerStarted = FALSE
    Reorgs = FALSE
    SlowCreate = FALSE
SPECIFICATION KeyListFairSpec
INVARIANTS
    KeyListTypeOK
    CreateExclusive
PROPERTIES
    LockReleased
    SendsAsTxPending
CHECK_DEADLOCK FALSE
