SPECIFICATION FairSpec
CONSTANTS
    Pkgs = {"p"}
    NameOrder <- Pair
    WithOutput = TRUE
    Verbose = FALSE
    WithLogs = TRUE
    WithRegistry = TRUE
    StacksLimit = 100
    Texts <- NoTexts
    Streaming = TRUE
    MaxRound = 2
    MaxBegun = 2
    MaxStream = 2
    MaxPrint = 0
    MayDie = FALSE
    MayKill = FALSE
    Panic <- SplitPanic
    Requests = TRUE
    Timers = TRUE
INVARIANTS AdoptsOwnTest
PROPERTIES RequestsAnswered
CHECK_DEADLOCK FALSE
