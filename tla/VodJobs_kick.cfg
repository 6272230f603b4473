SPECIFICATION JobsSpec
CONSTANTS
  window = window
  worker = worker
  Providers <- MCProviders
  Callers <- MCCallers
  MaxJobs = 2
PROPERTY KickCompletedWins
