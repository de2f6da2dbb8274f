SPECIFICATION Spec
CONSTANTS
    Servers = {a, b}
    NoServer = NoServer
    Contexts = {c1, c2, c3}
    NoContext = NoContext
    MaxConnections = 2
    MaxRetries = 1
    MaxHops = 1
    WorkspaceOverflows = FALSE
    Chars <- MCChars
    MaxKey = 5
    KeyOf <- MCKeyOf
SYMMETRY Symmetry
INVARIANTS
    TypeOK
    NoDanglingContext
    NeverSentWhenBroken
    RedirectionObeyed
    Released
    AttemptsBounded
    ExhaustedByChangesOnly
    Crc16IsXmodem
    SlotOfCommand
