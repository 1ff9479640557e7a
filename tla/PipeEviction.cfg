SPECIFICATION FairSpec
CONSTANTS
    alice = alice
    bob = bob
    a1 = a1
    a2 = a2
    b1 = b1
    None = None
    User <- MCUser
    Watcher <- TwoWatchers
    Owner <- TwoOwner
    Handle = {h1, h2}
    File = {f1, f2}
    GiveUp = FALSE
    MaxHangUps = 1
INVARIANTS NoStaleWait
PROPERTIES EvictionEnds Attaches
CHECK_DEADLOCK FALSE
