SPECIFICATION FairSpec
CONSTANTS
    Workers = {w1, w2, w3}
    Contexts = {c1, c2}
    NoContext = NoContext
    MaxConnections = 1
    ConnectionTTL = 1
    SicknessTTL = 0
    Sentinel = FALSE
    StatsModulus = 2
    MaxTime = 3
    MaxVersion = 1
INVARIANTS
    StatsBalance
PROPERTIES
    Drained
