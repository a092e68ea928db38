SPECIFICATION Spec
CONSTANTS
  MaxSrc = 2
  MaxChunkSize = 4
  MaxChunks = 2
  Endless = 12
  Graphs <- Rewired
  Series <- Rewired
  SameTopology = FALSE
  BufferMayFail = FALSE
  MaxGraphs = 2
INVARIANT OperandsIntact
CHECK_DEADLOCK FALSE
