SPECIFICATION Spec
CONSTANTS
    h1 = h1
    h2 = h2
    h3 = h3
    pc1 = pc1
    pc2 = pc2
    excel = excel
    chrome = chrome
    office = office
    web = web
    Heartbeat <- MCHeartbeat
    Device <- MCDevice
    App <- MCApp
    Category <- MCCategory
    Pattern <- MCPattern
    AppCategory <- MCAppCategory
    Horizon = 4
    MaxHeartbeatGap = 2
    Hour = 2
    Limit = 2
SYMMETRY Symmetry
INVARIANTS TypeOK DwellIsCoverage TimelineAgrees CutsLoseOneGap
PROPERTIES OnlyDeletionTakesTime
