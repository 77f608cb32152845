CONSTANTS
  Jobs = {j1, j2}
  Discovers = {j1, j2}
  Requests = {q1}
  MaxThreads = 1
  MaxMuleDeaths = 1
  MaxApiStarts = 1
SPECIFICATION FairSpec
INVARIANTS
  TypeOK
  OnePlace
  ScheduledIsAccounted
  ResultOfRun
  RunningIsExplained
PROPERTIES
  LifeKept
  StoreDrains
  AbortingResolves
  JobsTerminate
CHECK_DEADLOCK FALSE
