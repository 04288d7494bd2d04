SPECIFICATION Spec
CONSTANTS
  InBuffer = 5
  OutBuffer = 3
  MaxLines = 2
  Marked = {"runB", "trail", "fill"}
  Nested = {}
INVARIANTS MarkerEndsLine
CHECK_DEADLOCK FALSE
