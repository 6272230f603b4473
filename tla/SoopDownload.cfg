SPECIFICATION Spec
CONSTANTS
  Parts <- MCTwoParts
  Names <- MCTwoNames
  MaxBytes = 2
  MaxRetries = 2
  MaxSources = 2
  MaxRuns = 2
  Reuses = FALSE
INVARIANTS
  SoopFilesAreSound
PROPERTIES
  SoopRun
CHECK_DEADLOCK FALSE
