SPECIFICATION Spec
CONSTANTS
    Pkgs = {"p"}
    NameOrder <- Nested
    WithOutput = TRUE
    Verbose = FALSE
    WithLogs = TRUE
    WithRegistry = TRUE
    StacksLimit = 100
    Texts <- NoTexts
    Streaming = FALSE
    MaxRound = 1
    MaxBegun = 3
    MaxStream = 2
    MaxPrint = 0
    MayDie = FALSE
    MayKill = FALSE
    Panic <- SplitPanic
    Requests = FALSE
    Timers = FALSE
INVARIANTS ParentIsCaller
CHECK_DEADLOCK FALSE
