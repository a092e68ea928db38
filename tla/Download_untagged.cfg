SPECIFICATION Spec
CONSTANTS
  Size = 3
  MaxAttempts = 3
  Ranges = TRUE
  ErrorPages = FALSE
  QuietChange = TRUE
  MaxVersion = 3
  MaxRuns = 5
PROPERTY
  CurrentKept
CHECK_DEADLOCK FALSE
