SPECIFICATION Spec
CONSTANTS
    Pkgs = {"p"}
    NameOrder <- Pair
    WithOutput = TRUE
    Verbose = FALSE
    WithLogs = TRUE
    WithRegistry = TRUE
    StacksLimit = 100
    Texts <- Lines1
    Streaming = TRUE
    MaxRound = 2
    MaxBegun = 3
    MaxStream = 2
    MaxPrint = 4
    MayDie = TRUE
    MayKill = FALSE
    Panic <- SplitPanic
    Requests = FALSE
    Timers = FALSE
INVARIANTS FailuresPrinted PanicPrinted LogsWhole
CHECK_DEADLOCK FALSE
