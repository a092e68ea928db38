SPECIFICATION Spec
CONSTANTS
  t1 = t1
  t2 = t2
  NCells = 2
  NSeqs = 2
  MaxPos = 2
  NStream = 1
  NSwa = 0
  NBatch = 2
  NUbatch = 1
  SeqSets <- Every
  Toks = {t1}
  Ranges <- AllOrOne
  Deltas = {}
  Divisors = {2}
  MaxCopies = 0
  KeepAcross = TRUE
  SharedShift = FALSE
  ShiftFails = FALSE
  ComputeFails = TRUE
  Saves = TRUE
  EarlySaves = FALSE
PROPERTIES CallsAsPromised
CHECK_DEADLOCK FALSE
