SPECIFICATION Spec
CONSTANTS
  t1 = t1
  t2 = t2
  NCells = 4
  NSeqs = 2
  MaxPos = 3
  NStream = 1
  NSwa = 3
  NBatch = 3
  NUbatch = 1
  SeqSets <- Single
  Toks = {t1}
  Ranges <- AllOrOne
  Deltas = {}
  Divisors = {}
  MaxCopies = 0
  KeepAcross = TRUE
  SharedShift = FALSE
  ShiftFails = FALSE
  ComputeFails = FALSE
  Saves = FALSE
  EarlySaves = FALSE
PROPERTY NoSlotRestores
CHECK_DEADLOCK FALSE
