SPECIFICATION Spec
CONSTANTS
    a = a
    b = b
    c = c
    d = d
    Servers = {a, b, c, d}
    Weights = 2
    Weight <- MCWeight
    Slots = {0}
    MaxSize = 2
SYMMETRY Symmetry
INVARIANTS
    TypeOK
    ListsConsistent
    PlanIsBest
    RoundRobin
