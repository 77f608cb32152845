CONSTANTS
  Syncs = {s1, s2}
  Refreshes = {r1}
  NoJob = NoJob
  Devices = {d1}
  Confirmable = {d1}
  Modes = {0, 1, 2}
  MaxAttempts = 2
  MaxDeletes = 1
  MaxRestarts = 1
SPECIFICATION Spec
INVARIANTS
  TypeOK
  OwnerHolds
  WorkIsShown
  LockLeaks
  TimersAreGuarded
PROPERTIES
  MutualExclusion
CHECK_DEADLOCK FALSE
