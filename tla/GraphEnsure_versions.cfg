CONSTANTS
    Clients = {p1, p2}
    t1 = t1
    t2 = t2
    k = k
    a = a
    b = b
    i1 = i1
    text = text
    int = int
    None = none
    Tables = {t1, t2}
    Columns = {k, a, b}
    Indexes = {i1}
    Types = {text, int}
    Specs <- Versions
    MaxCalls = 4
SYMMETRY ClientSymmetry
SPECIFICATION Spec
INVARIANTS EnsuredIsProvided EnsuredIsSettled AlteringEnds
PROPERTY ExpandsOnly
CHECK_DEADLOCK FALSE
