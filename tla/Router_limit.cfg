SPECIFICATION Spec
CONSTANTS
  m1 = m1
  m2 = m2
  c1 = c1
  c2 = c2
  Model <- MCModel
  Caller <- MCCaller
  ModelsMax = 1
  CrashStates = {}
  SameMillisecond = FALSE
  MaxOps = 3
INVARIANT LimitHeld
CHECK_DEADLOCK FALSE
