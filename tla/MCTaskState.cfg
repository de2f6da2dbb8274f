SPECIFICATION Spec
CONSTANTS
    a = a
    b = b
    DBs = {a, b}
    NoDB = NoDB
    u = u
    blank = blank
    eval = eval
    evalsha = evalsha
    sha = sha
    shasha = shasha
    Strings <- MCStrings
    Values = {u, eval}
    Blank = blank
    Eval = eval
    Evalsha = evalsha
    Digest <- MCDigest
    Null = Null
    Defaults <- MCDefaults
    Settings = {0}
    Replies <- MCReplies
    Addresses = {r1, r2}
    MaxArgs = 2
    Workspace = 2
    PlanSize = 1
    MaxEasy = 1
    Width = 8
SYMMETRY Symmetry
INVARIANTS
    TypeOK
    OwnReply
    SentAsAsked
    RepliesFreed
    ElementsInBounds
