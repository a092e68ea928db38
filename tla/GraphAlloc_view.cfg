SPECIFICATION Spec
CONSTANTS
  MaxSrc = 2
  MaxChunkSize = 4
  MaxChunks = 2
  Endless = 12
  Graphs <- Viewed
  Series = {}
  SameTopology = TRUE
  BufferMayFail = FALSE
  MaxGraphs = 1
INVARIANT OutputsKept
CHECK_DEADLOCK FALSE
