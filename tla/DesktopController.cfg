SPECIFICATION Spec
CONSTANTS
  Live = live
  Settings = settings
  Maintenance = maint
  Others = {queue}
  Forgotten = {queue}
  MaxWorld = 1
  MaxPending = 2
  MaxOpenings = 2
INVARIANTS
  FlagsFollowTheChannels
  UserIsNotMisled
CHECK_DEADLOCK FALSE
