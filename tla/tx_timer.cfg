CONSTANTS
    Tx = {t1, t2}
    MaxSends = 2
    Limit = 2
    TimerStarted = TRUE
    Reorgs = FALSE
SPECIFICATION TxSpec
INVARIANTS
    TxTypeOK
    AnswersWhatWasAsked
PROPERTIES
    RowGetsConfirmed
    EventualVerdict
CHECK_DEADLOCK FALSE
