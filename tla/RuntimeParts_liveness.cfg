SPECIFICATION FairSpec
CONSTANTS
  Parts = {"kick", "chzzk", "events", "tasks", "control", "media"}
  Fragments = 2
  MaxRetries = 2
  MaxRuns = 1
  Procs = {P1}
  NoProc = NoProc
  LastName = 2
  MaxTries = 1
  Providers = {p1}
  Queue = q
  Capacity = 1
  MaxEpoch = 1
  App = app
  Cli = cli
  Keep = 1
  MaxData = 2
  MaxCopies = 2
  Backup = backup
  History = history
  Callers = {c1, c2}
  Serving = {s1}
  Foreground = {f1}
  Clients = {c1, c2}
  Required = {c2}
  Silent = {n1}
  MaxStarts = 2
  Root = root
  Helpers = {h}
  Daemons = {d}
  Limit = 1
  MaxOutput = 2
  MaxJobs = 2
  Restricted = {2}
  Guarded = {1}
  LastBroadcast = 2
  LastUser = 2
  Retries = 2
  MaxChanges = 3
  MaxPending = 2
  MaxEvents = 3
  MaxRefreshes = 1
  Urls = {u1, u2}
  NoUrl = NoUrl
  MaxLooks = 3
  MaxVodJobs = 2
PROPERTIES
  JobsEnd
  ResultsAreTold
  HistoryCatchesUp
  CommandsReturn
CHECK_DEADLOCK FALSE
