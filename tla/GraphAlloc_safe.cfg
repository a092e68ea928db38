SPECIFICATION Spec
CONSTANTS
  MaxSrc = 2
  MaxChunkSize = 4
  MaxChunks = 2
  Endless = 12
  Graphs <- Both
  Series <- Mixed
  SameTopology = TRUE
  BufferMayFail = FALSE
  MaxGraphs = 3
INVARIANTS
  OperandsIntact
  OutputsKept
CHECK_DEADLOCK FALSE
