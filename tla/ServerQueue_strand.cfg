SPECIFICATION FairSpec
CONSTANTS
  r1 = r1
  r2 = r2
  r3 = r3
  a = a
  b = b
  c = c
  d = d
  NoTask = NoTask
  Readers <- MixReaders
  Tasks <- MixTasks
  Request <- MixRequest
  Owner <- MixOwner
  Kind <- SaveKind
  WantSlot <- MixWant
  Parent <- MixParent
  Stream = {}
  BadTasks = {}
  Impatient = {}
  NSlots = 1
  MaxPrompt = 1
  NPredict = 2
  DecodeFails = FALSE
PROPERTY DeferredUntilSlot
CHECK_DEADLOCK FALSE
