SPECIFICATION AuditSpec
CONSTANTS
    Workers = {w1, w2}
    Contexts = {c1, c2}
    NoContext = NoContext
    MaxConnections = 2
    ConnectionTTL = 0
    SicknessTTL = 5
    Sentinel = FALSE
    StatsModulus = 1
    MaxTime = 3
    MaxVersion = 0
PROPERTY
    SickConnectionsDropped
