SPECIFICATION FunctionsSpec
CONSTANTS
    Tables <- SmallTables
    Inputs <- Asked
    Edges <- Late
    Bots <- SomeBots
    MaxWrites = 2
    Suites <- FourSuites
    Uses <- Nesting
    Plans <- Declared
INVARIANTS
    QueriesTellTheGraph
    ScreensFollowTheStyles
    DataSurvives
    DomAgrees
    ParityWhenQuiet
    RecommendsTheReachable
    LayersOutliveTests
    EverythingIsReleased
CHECK_DEADLOCK FALSE
