SPECIFICATION MCSpec
CONSTANTS
    Pkgs = {"p"}
    NameOrder <- MCNameOrder
    Texts <- MCTexts
    WithOutput = TRUE
    Verbose = FALSE
    WithLogs = TRUE
    WithRegistry = TRUE
    StacksLimit = 3
    MaxSpans = 3
    MaxText = 1
INVARIANTS RunTypeOK EntriesSound ActiveAreRunning PackagesSound ParentsSound
PROPERTIES NothingAfterEOF
CHECK_DEADLOCK FALSE
