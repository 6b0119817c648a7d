SPECIFICATION CommandsSpec
CONSTANTS
    Scripts = {user, internal, wasm}
    Internal = {internal}
    Sourceless = {wasm}
    Evicted = {user}
    NoFrame = NoFrame
    NoScript = NoScript
    MaxSteps = 2
    MaxStops = 3
    NoteRuns = {r1, r2}
    Requests <- TitleRequests
    Words <- FileWords
    LastHalfDay = 2
    Clients = {c1, c2}
    MaxConnects = 2
    Programs = {"steps", "note", "ssh-keep"}
    Asked <- SessionNames
INVARIANTS
    RunsFindAPause
    StopIsRemembered
    NotesAreKept
    ExecutableIsWhole
PROPERTIES
    ShownWhereItStands
    StopsEnd
    LandsInTmux
CHECK_DEADLOCK FALSE
