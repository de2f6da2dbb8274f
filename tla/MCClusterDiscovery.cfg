SPECIFICATION FairSpec
CONSTANTS
    a = a
    b = b
    c = c
    Threads = {t1, t2}
    NoThread = NoThread
    Servers = {a, b, c}
    NoServer = NoServer
    Self = Self
    Weights = 2
    Weight <- MCWeight
    Slots = {0, 1}
    SicknessTTL = 1
    Replies <- SomeReplies
INVARIANTS
    TypeOK
    RegistryConsistent
    TopologyMatchesReply
    KeptUntilFound
    TopologyNeverLost
PROPERTIES
    OrderlyDiscoveryEnds
    EveryServerAsked
