SPECIFICATION Spec
CONSTANTS
    Pkgs = {"p"}
    NameOrder <- Nested
    WithOutput = TRUE
    Verbose = FALSE
    WithLogs = TRUE
    WithRegistry = TRUE
    StacksLimit = 100
    Texts <- NoTexts
    Streaming = TRUE
    MaxRound = 2
    MaxBegun = 3
    MaxStream = 2
    MaxPrint = 0
    MayDie = TRUE
    MayKill = TRUE
    Panic <- SplitPanic
    Requests = FALSE
    Timers = FALSE
INVARIANTS ParentIsCaller EndedOnce NothingLeftOpen VerdictsRecorded PackageVerdicts
CHECK_DEADLOCK FALSE
