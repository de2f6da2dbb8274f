SPECIFICATION FairSpec
CONSTANTS
    Servers = {a}
    NoServer = NoServer
    Contexts = {c1, c2, c3}
    NoContext = NoContext
    MaxConnections = 2
    MaxRetries = 1
    MaxHops = 1
    WorkspaceOverflows = TRUE
INVARIANTS
    Released
PROPERTIES
    CommandEnds
