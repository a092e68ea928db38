SPECIFICATION Spec
CONSTANTS
  Thread <- MCThread
  PassedMod = 16
  NThreads = 3
  Graphs <- MCGraphs
  Requests <- MCRequests
  MaxCalls = 2
INVARIANTS
  OperandsComplete
  WorkBufferReady
  NoPieceTwice
  GraphResult
PROPERTIES
  ParamsQuiet
  CallReturns
  FreeReturns
CHECK_DEADLOCK FALSE
