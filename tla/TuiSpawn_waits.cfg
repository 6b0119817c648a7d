CONSTANTS
    text = text
    stable = stable
    poll = poll
    Program <- SomeProgram
    Needle <- SomeNeedle
    TextWaits = {text}
    StableWaits = {stable}
    PollWaits = {poll}
    TextInterval = 2
    StableInterval = 1
    PollInterval = 2
    StableMs = 2
    Timeout = 3
    MaxCalls = 1
    MaxTime = 8
SPECIFICATION FairSpec
INVARIANT ArrivedIsFound
PROPERTIES StableIsQuiet WaitsEnd
CHECK_DEADLOCK FALSE
