SPECIFICATION Spec
CONSTANTS
  InBuffer = 5
  OutBuffer = 3
  MaxLines = 3
  Marked = {"runA", "runB", "pauseB", "nameA", "nameNone", "passA", "failB", "pass", "say", "mutter", "long", "trail", "spoof", "verdict", "bench"}
  Nested = {"startA", "atA", "atB", "atC", "atD", "logA", "logB", "logC", "deep", "say"}
INVARIANTS AttributedToSpeaker ResultsHeldBack CharactersWhole
CHECK_DEADLOCK FALSE
