CONSTANTS
    Request = {q1, q2}
    Helper = {contracts, caches}
    Modes <- MCModes
SPECIFICATION ServiceSpec
INVARIANTS
    ServiceTypeOK
    StoppedBetweenTurns
    WaitCoversParser
    OkMeansMine
    ObservedIsExported
PROPERTIES
    SignalEndsProcess
    RequestEnds
CHECK_DEADLOCK FALSE
