SPECIFICATION Spec
CONSTANTS
    Pkgs = {"p"}
    NameOrder <- Pair
    WithOutput = TRUE
    Verbose = FALSE
    WithLogs = TRUE
    WithRegistry = TRUE
    StacksLimit = 100
    Texts <- NoTexts
    Streaming = TRUE
    MaxRound = 2
    MaxBegun = 2
    MaxStream = 2
    MaxPrint = 0
    MayDie = FALSE
    MayKill = FALSE
    Panic <- SplitPanic
    Requests = TRUE
    Timers = FALSE
INVARIANTS AdoptsOwnRun
CHECK_DEADLOCK FALSE
