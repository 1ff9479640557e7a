SPECIFICATION FairSpec
CONSTANTS
    MaxUnacked = 1
    BatchLimit = 2
    MaxHeartbeats = 3
    MaxFaults = 1
    MaxCrashes = 0
    Faults <- RenameFaults
PROPERTIES Drains
CHECK_DEADLOCK FALSE
