SPECIFICATION Spec
CONSTANTS
  Capacity = 2
  MaxSent = 4
  MaxFiles = 1
PROPERTIES
  ImplementsFifo
  AllWritten
  PauseReturns
CHECK_DEADLOCK FALSE
