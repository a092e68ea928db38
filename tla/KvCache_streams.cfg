SPECIFICATION Spec
CONSTANTS
  t1 = t1
  t2 = t2
  NCells = 2
  NSeqs = 2
  MaxPos = 1
  NStream = 2
  NSwa = 0
  NBatch = 2
  NUbatch = 1
  SeqSets <- Single
  Toks = {t1}
  Ranges <- Spans
  Deltas <- Back
  Divisors = {}
  MaxCopies = 2
  KeepAcross = FALSE
  SharedShift = FALSE
  ShiftFails = TRUE
  ComputeFails = TRUE
  Saves = FALSE
  EarlySaves = FALSE
INVARIANTS RotationExact SlotUsable
PROPERTIES NoSlotRestores CallsAsPromised AbortRestores
CHECK_DEADLOCK FALSE
