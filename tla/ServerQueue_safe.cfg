SPECIFICATION Spec
CONSTANTS
  r1 = r1
  r2 = r2
  r3 = r3
  a = a
  b = b
  c = c
  d = d
  NoTask = NoTask
  Readers <- MixReaders
  Tasks <- MixTasks
  Request <- MixRequest
  Owner <- MixOwner
  Kind <- MixKind
  WantSlot <- MixWant
  Parent <- MixParent
  Stream = {a}
  BadTasks = {c}
  Impatient = {r1}
  NSlots = 2
  MaxPrompt = 1
  NPredict = 2
  DecodeFails = TRUE
INVARIANTS TypeOK SinglePlace NoOrphanResult NoLostTask TerminalResultLast
CHECK_DEADLOCK FALSE
