SPECIFICATION Spec
CONSTANTS
  Channels = {c1}
  NoChannel = NoChannel
  Protected <- MCNoneLocked
  QueueSize = 1
  MaxBroadcasts = 1
  MaxCommands = 2
  MaxEdits = 0
  MaxFaults = 0
  MaxStarts = 1
PROPERTIES
  StoppedStaysStopped
CHECK_DEADLOCK FALSE
