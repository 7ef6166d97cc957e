CONSTANTS
  Size = 3
  MaxJobs = 4
SPECIFICATION FairSpec
INVARIANTS
  DeathsAreJobPanics
  ShutdownComplete
  PanicsArePropagated
PROPERTIES
  ImplementsJobQueue
  JobsEnd
  DropReturns
  StartsWhenFree
