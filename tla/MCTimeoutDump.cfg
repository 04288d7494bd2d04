SPECIFICATION Spec
CONSTANTS
    StacksLimit = 2
    Fragments <- Short
    Tests <- TwoTests
    MaxBefore = 3
    MaxDump = 8
INVARIANTS DumpDetected DumpLoggedWhole CopyFaithful
CHECK_DEADLOCK FALSE
