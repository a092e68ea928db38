SPECIFICATION Spec
CONSTANTS
  r1 = r1
  r2 = r2
  r3 = r3
  a = a
  b = b
  c = c
  d = d
  NoTask = NoTask
  Readers <- MixReaders
  Tasks <- MixTasks
  Request <- MixRequest
  Owner <- MixOwner
  Kind <- PairKind
  WantSlot <- PairWant
  Parent <- MixParent
  Stream = {}
  BadTasks = {}
  Impatient = {}
  NSlots = 2
  MaxPrompt = 2
  NPredict = 2
  DecodeFails = FALSE
INVARIANT ChildWaits
CHECK_DEADLOCK FALSE
