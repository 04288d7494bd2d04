SPECIFICATION DiligentSpec
CONSTANTS
    Modes <- GoTestOnly
    Texts <- Plain
    MaxWrite = 1
    PipeCap = 1
    MaxCoverageLine = 2
    BuiltWithCover = TRUE
    StdoutMayFail = TRUE
PROPERTIES FailingStdoutDoesNotHang
CHECK_DEADLOCK FALSE
