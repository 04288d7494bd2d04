SPECIFICATION Spec
CONSTANTS
    Pkgs = {"p"}
    NameOrder <- Pair
    WithOutput = TRUE
    Verbose = FALSE
    WithLogs = TRUE
    WithRegistry = TRUE
    StacksLimit = 100
    Texts <- NoTexts
    Streaming = TRUE
    MaxRound = 1
    MaxBegun = 2
    MaxStream = 2
    MaxPrint = 0
    MayDie = FALSE
    MayKill = TRUE
    Panic <- SplitPanic
    Requests = FALSE
    Timers = FALSE
INVARIANTS StreamsClosed
CHECK_DEADLOCK FALSE
