SPECIFICATION Spec
CONSTANTS
  Providers <- MCOneProvider
  Callers <- MCCallers
  MaxJobs = 1
  MaxItems = 1
  MaxAttempts = 1
  MaxDirect = 0
  MaxRestarts = 0
  QueueLimit = 1
  PlatformOf <- MCPlatformOf
  CliAtWork = TRUE
INVARIANT
  ShutdownLeavesNothingRunning
CHECK_DEADLOCK FALSE
