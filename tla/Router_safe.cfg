SPECIFICATION Spec
CONSTANTS
  m1 = m1
  m2 = m2
  c1 = c1
  c2 = c2
  Model <- MCModel
  Caller <- MCCaller
  ModelsMax = 1
  CrashStates = {"ready"}
  SameMillisecond = TRUE
  MaxOps = 3
INVARIANTS
  UnloadedIsGone
  ActiveIsWatched
PROPERTIES
  StopCompletes
  WaitReturns
  ShutdownEnds
CHECK_DEADLOCK FALSE
