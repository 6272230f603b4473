SPECIFICATION FairJobsSpec
CONSTANTS
  window = window
  worker = worker
  Providers <- MCProviders
  Callers <- MCCallers
  MaxJobs = 2
INVARIANTS
  JobsInv
  OneWorking
PROPERTIES
  CancelQuiesces
  ChzzkCompletedWins
  OneSlot
  FacadeIsReleased
  OneSlotConcludes
