SPECIFICATION FairSpec
CONSTANTS
    MaxUnacked = 1
    BatchLimit = 2
    MaxHeartbeats = 4
    MaxFaults = 1
    MaxCrashes = 1
    Faults <- RecoverableFaults
PROPERTIES Drains
CHECK_DEADLOCK FALSE
