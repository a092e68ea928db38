SPECIFICATION Spec
CONSTANTS
  t1 = t1
  t2 = t2
  NCells = 3
  NSeqs = 2
  MaxPos = 2
  NStream = 1
  NSwa = 0
  NBatch = 2
  NUbatch = 2
  SeqSets <- Every
  Toks = {t1}
  Ranges <- Spans
  Deltas = {}
  Divisors = {}
  MaxCopies = 0
  KeepAcross = TRUE
  SharedShift = FALSE
  ShiftFails = FALSE
  ComputeFails = TRUE
  Saves = FALSE
  EarlySaves = FALSE
PROPERTY AbortRestores
CHECK_DEADLOCK FALSE
