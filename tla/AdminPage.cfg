SPECIFICATION MCSpec
CONSTANTS
    d1 = d1
    d2 = d2
    n1 = n1
    n2 = n2
    p1 = p1
    p2 = p2
    c1 = c1
    c2 = c2
    a1 = a1
    k1 = k1
    x1 = x1
    t1 = t1
    t2 = t2
    o1 = o1
    today = today
    week = week
    None = None
    Device <- MCDevice
    Name <- MCName
    Pattern <- MCPattern
    Category <- MCCategory
    App <- MCApp
    Matches <- MCMatches
    Key <- MCKey
    Prefix <- MCPrefix
    PrefixOf <- MCPrefixOf
    Token <- MCToken
    Other = o1
    Range <- MCRange
    MaxClicks = 3
    MaxInFlight = 2
    MaxMishaps = 1
SYMMETRY Symmetry
INVARIANTS TypeOK DeleteNeverRefused PageIsCurrent SecretsAreSeen ViewMatchesSession RuleIsApplied
CHECK_DEADLOCK FALSE
