SPECIFICATION Spec
CONSTANTS
  t1 = t1
  t2 = t2
  NCells = 2
  NSeqs = 2
  MaxPos = 1
  NStream = 2
  NSwa = 0
  NBatch = 2
  NUbatch = 1
  SeqSets <- Single
  Toks = {t1}
  Ranges = {}
  Deltas = {}
  Divisors = {}
  MaxCopies = 0
  KeepAcross = TRUE
  SharedShift = FALSE
  ShiftFails = FALSE
  ComputeFails = TRUE
  Saves = FALSE
  EarlySaves = FALSE
PROPERTY KeepRemovesOthers
CHECK_DEADLOCK FALSE
