SPECIFICATION Spec
CONSTANTS
  Size = 3
  MaxAttempts = 3
  Ranges = FALSE
  ErrorPages = FALSE
  QuietChange = TRUE
  MaxVersion = 3
  MaxRuns = 5
INVARIANT
  FileWhole
CHECK_DEADLOCK FALSE
