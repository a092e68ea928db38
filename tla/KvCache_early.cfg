SPECIFICATION Spec
CONSTANTS
  t1 = t1
  t2 = t2
  NCells = 2
  NSeqs = 2
  MaxPos = 1
  NStream = 2
  NSwa = 0
  NBatch = 2
  NUbatch = 1
  SeqSets <- Single
  Toks = {t1, t2}
  Ranges <- Spans
  Deltas <- Back
  Divisors = {}
  MaxCopies = 1
  KeepAcross = FALSE
  SharedShift = FALSE
  ShiftFails = FALSE
  ComputeFails = FALSE
  Saves = TRUE
  EarlySaves = TRUE
PROPERTY SavesSequence
CHECK_DEADLOCK FALSE
