SPECIFICATION Spec
CONSTANTS
    alice = alice
    bob = bob
    a1 = a1
    a2 = a2
    b1 = b1
    None = None
    User <- MCUser
    Watcher <- MCWatcher
    Owner <- MCOwner
    Handle = {h1, h2, h3}
    File = {f1, f2}
    GiveUp = TRUE
    MaxHangUps = 2
INVARIANTS TypeOK ClientIsCurrent OnlyClientPublishes PendingIsAwaited HandlesOwned
PROPERTIES ImplementsSamplePipe
CHECK_DEADLOCK FALSE
