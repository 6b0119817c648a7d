CONSTANTS
    Sites = {s1, s2}
    x = x
    y = y
    Cells = {x, y}
    Tables = {x, y}
    TableOf <- OneTable
    Values = {1, 2}
    Loops = {l1, l2}
    ServiceKinds = {"layer"}
    Nowhere = nowhere
    MaxVersion = 2
SYMMETRY SyncSymmetry
SPECIFICATION SyncSpec
INVARIANTS TrackedIsCovered NothingLeftIsConverged
PROPERTY ImplementsMap
CHECK_DEADLOCK FALSE
