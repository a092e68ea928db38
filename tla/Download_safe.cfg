SPECIFICATION Spec
CONSTANTS
  Size = 3
  MaxAttempts = 3
  Ranges = TRUE
  ErrorPages = FALSE
  QuietChange = TRUE
  MaxVersion = 3
  MaxRuns = 5
INVARIANTS
  FileWhole
  FreshTrusted
PROPERTIES
  DeleteOnlyOutdated
CHECK_DEADLOCK FALSE
