SPECIFICATION FairSpec
CONSTANTS
    Commands = {c1}
    Foreign = {}
    Listeners = {l1}
    Disconnects = {d1}
    NoCommand = NoCommand
    Finalizer = Finalizer
    MaxId = 1
    MaxEvents = 2
INVARIANTS
    EventsGapFree
PROPERTIES
    ReleasedIsQuiet
    NobodyWaitsForEver
CHECK_DEADLOCK FALSE
