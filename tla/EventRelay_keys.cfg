CONSTANTS
    Pages <- SmallPages
    Keys <- SomeKeys
    Height = 2
    MaxDepth = 2
    MaxScripts = 2
    MaxLength = 3
SPECIFICATION Spec
INVARIANTS TabVisitsEverything
PROPERTIES TabLandsInSight EditsLikeALine
CHECK_DEADLOCK FALSE
