SPECIFICATION Spec
CONSTANTS
    Servers = {a}
    NoServer = NoServer
    Contexts = {c1, c2}
    NoContext = NoContext
    MaxConnections = 1
    MaxRetries = 1
    MaxHops = 1
    WorkspaceOverflows = FALSE
INVARIANTS
    PlanNeverExhausted
