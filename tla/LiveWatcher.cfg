SPECIFICATION FairSpec
CONSTANTS
  Channels = {c1}
  NoChannel = NoChannel
  Protected <- MCProtected
  QueueSize = 1
  MaxBroadcasts = 2
  MaxCommands = 2
  MaxEdits = 1
  MaxFaults = 1
  MaxStarts = 1
INVARIANTS
  LiveInv
PROPERTIES
  SuppressionHolds
  WantedIsRecorded
  UnwantedIsStopped
CHECK_DEADLOCK FALSE
