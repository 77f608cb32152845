CONSTANTS
  Syncs = {s1, s2}
  Refreshes = {}
  NoJob = NoJob
  Devices = {d1, d2}
  Confirmable = {d1}
  Modes = {0, 1, 2}
  MaxAttempts = 2
  MaxDeletes = 1
  MaxRestarts = 0
SPECIFICATION FairSpec
INVARIANTS
  LockLeaks
  TimersAreGuarded
PROPERTIES
  SyncsEnd
  LockIsReleased
CHECK_DEADLOCK FALSE
