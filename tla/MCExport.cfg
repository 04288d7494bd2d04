SPECIFICATION Spec
CONSTANTS
  Spans = {"a", "b", "c"}
  Completion = "c"
  Where <- WhereOf
  Setups <- SomeSetups
  QueueSize = 2
  BatchSize = 2
  SignBit = 8
  MaxHops = 2
  Batches <- AllBatches
  Foreign <- ForeignBatches
INVARIANTS FinalRecordWins NothingLostAtClose DeclaredTells SignalsArrive
PROPERTIES EngineTellsBoth
CHECK_DEADLOCK FALSE
