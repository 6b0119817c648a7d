SPECIFICATION Spec
CONSTANTS
    Commands = {c1, c2}
    Foreign = {}
    Listeners = {}
    Disconnects = {d1}
    NoCommand = NoCommand
    Finalizer = Finalizer
    MaxId = 2
    MaxEvents = 0
SYMMETRY CallSymmetry
INVARIANTS
    AnswerMatchesRequest
    UnsettledIsPending
    LiveSessionOrphansNobody
PROPERTIES
    ImplementsContract
CHECK_DEADLOCK FALSE
