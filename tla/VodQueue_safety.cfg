SPECIFICATION Spec
CONSTANTS
  Providers <- MCOneProvider
  Callers <- MCCallers
  MaxJobs = 2
  MaxItems = 1
  MaxAttempts = 2
  MaxDirect = 1
  MaxRestarts = 1
  QueueLimit = 1
  PlatformOf <- MCPlatformOf
  CliAtWork = TRUE
INVARIANTS
  QueueInv
PROPERTIES
  WorkerReportsItsJob
CHECK_DEADLOCK FALSE
