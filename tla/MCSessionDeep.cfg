SPECIFICATION Spec
CONSTANTS
    Pkgs = {"p"}
    NameOrder <- Deep
    WithOutput = TRUE
    Verbose = FALSE
    WithLogs = TRUE
    WithRegistry = TRUE
    StacksLimit = 100
    Texts <- NoTexts
    Streaming = TRUE
    MaxRound = 1
    MaxBegun = 4
    MaxStream = 1
    MaxPrint = 0
    MayDie = FALSE
    MayKill = FALSE
    Panic <- SplitPanic
    Requests = FALSE
    Timers = FALSE
INVARIANTS ParentIsCaller
CHECK_DEADLOCK FALSE
