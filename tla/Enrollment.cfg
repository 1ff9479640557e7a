SPECIFICATION Spec
CONSTANTS
    d1 = d1
    d2 = d2
    b1 = b1
    b2 = b2
    r1 = r1
    r2 = r2
    None = None
    Device <- MCDevice
    Heartbeat <- MCHeartbeat
    Request <- MCRequest
SYMMETRY Symmetry
INVARIANTS TypeOK DeletedForGood RevokedIsRefused OKMeansStored
PROPERTIES RowsStay
