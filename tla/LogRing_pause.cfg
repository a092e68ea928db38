SPECIFICATION Spec
CONSTANTS
  Capacity = 2
  MaxSent = 4
  MaxFiles = 1
PROPERTY EndStopsWorker
CHECK_DEADLOCK FALSE
