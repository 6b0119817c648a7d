SPECIFICATION Spec
CONSTANTS
    Commands = {c1}
    Foreign = {}
    Listeners = {}
    Disconnects = {d1}
    NoCommand = NoCommand
    Finalizer = Finalizer
    MaxId = 1
    MaxEvents = 0
INVARIANTS
    ScopeEndDisconnects
CHECK_DEADLOCK FALSE
