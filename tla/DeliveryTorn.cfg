SPECIFICATION Spec
CONSTANTS
    MaxUnacked = 2
    BatchLimit = 2
    MaxHeartbeats = 3
    MaxFaults = 0
    MaxCrashes = 1
    Faults <- TornWrites
INVARIANTS Shippable
CHECK_DEADLOCK FALSE
