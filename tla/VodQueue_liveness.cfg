SPECIFICATION FairSpec
CONSTANTS
  Providers <- MCOneProvider
  Callers <- MCCallers
  MaxJobs = 2
  MaxItems = 1
  MaxAttempts = 2
  MaxDirect = 0
  MaxRestarts = 0
  QueueLimit = 1
  PlatformOf <- MCPlatformOf
  CliAtWork = TRUE
PROPERTIES
  BusyRowsSettle
  QueuedRowsAreTried
  ShutdownEnds
CHECK_DEADLOCK FALSE
