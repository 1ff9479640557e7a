SPECIFICATION Spec
CONSTANTS
    MaxUnacked = 2
    BatchLimit = 2
    MaxHeartbeats = 5
    MaxFaults = 2
    MaxCrashes = 1
    Faults <- AllFaults
INVARIANTS TypeOK NothingLost AckedPrefixStored InOrder CapInFirstRun
PROPERTIES DropsOldestFirst ImplementsOutbox
CHECK_DEADLOCK FALSE
