CONSTANTS
    Tx = {t1, t2}
    MaxSends = 2
    Limit = 2
    TimerStarted = FALSE
    Reorgs = FALSE
SPECIFICATION TxSpec
PROPERTIES
    DroppedGetsRejected
CHECK_DEADLOCK FALSE
