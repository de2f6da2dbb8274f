SPECIFICATION FairSpec
CONSTANTS
    s1 = s1
    s2 = s2
    Servers = {a, b}
    FirstMaster = a
    Locations <- TwoSentinels
    Period = 2
    MaxSeconds = 1
    MaxEvents = 1
    MaxDisturbances = 2
INVARIANTS
    TypeOK
    ThreadOwned
    DatabaseFollows
PROPERTIES
    Converges
    ColdEventEnds
