SPECIFICATION FairSpec
CONSTANTS
    alice = alice
    bob = bob
    a1 = a1
    a2 = a2
    b1 = b1
    None = None
    User <- MCUser
    Watcher <- MCWatcher
    Owner <- MCOwner
    MaxSwitches = 2
    MaxFaults = 2
PROPERTIES DuplicatesExit
CHECK_DEADLOCK FALSE
