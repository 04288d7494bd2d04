SPECIFICATION FairSpec
CONSTANTS
    Modes <- AllModes
    Texts <- Outputs
    MaxWrite = 3
    PipeCap = 1
    MaxCoverageLine = 2
    BuiltWithCover = TRUE
    StdoutMayFail = TRUE
INVARIANTS NothingLost ReportIsLastLine ResultMatchesStatus KillsAreReported OkLineTells
PROPERTIES PrebuiltReturns ReturnsAfterTests
CHECK_DEADLOCK FALSE
