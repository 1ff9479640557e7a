SPECIFICATION Spec
CONSTANTS
    Reading = {word, web}
    None = None
    KeepAlive = 2
    MaxGap = 4
    HTTPTimeout = 4
    FlushInterval = 8
    BackoffSteps <- MCBackoffSteps
    Capacity = 6
    Horizon = 26
INVARIANTS TypeOK NoFalseAbsence NothingDropped
PROPERTIES LateByOneFlush
CHECK_DEADLOCK FALSE
