SPECIFICATION FairSpec
CONSTANTS
    a = a
    b = b
    c = c
    Threads = {t1}
    NoThread = NoThread
    Servers = {a, b, c}
    NoServer = NoServer
    Self = Self
    Weights = 2
    Weight <- MCWeight
    Slots = {0, 1}
    SicknessTTL = 0
    Replies <- AllReplies
PROPERTIES
    DiscoveryEnds
