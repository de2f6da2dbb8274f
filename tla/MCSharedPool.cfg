SPECIFICATION Spec
CONSTANTS
    Workers = {w1, w2, w3, w4}
    Contexts = {c1, c2, c3}
    NoContext = NoContext
    MaxConnections = 2
    ConnectionTTL = 1
    SicknessTTL = 2
    Sentinel = TRUE
    StatsModulus = 1
    MaxTime = 2
    MaxVersion = 1
SYMMETRY Symmetry
INVARIANTS
    TypeOK
    PoolConsistent
    ExclusiveUse
    NoLostWakeup
    NeverStuck
PROPERTIES
    ImplementsContract
