SPECIFICATION Spec
CONSTANTS
  MaxSrc = 2
  MaxChunkSize = 4
  MaxChunks = 2
  Endless = 12
  Graphs <- Mixed
  Series <- Mixed
  SameTopology = TRUE
  BufferMayFail = TRUE
  MaxGraphs = 2
INVARIANT OperandsIntact
CHECK_DEADLOCK FALSE
