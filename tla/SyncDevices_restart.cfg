CONSTANTS
  Syncs = {s1, s2}
  Refreshes = {}
  NoJob = NoJob
  Devices = {d1}
  Confirmable = {}
  Modes = {1}
  MaxAttempts = 5
  MaxDeletes = 0
  MaxRestarts = 1
SPECIFICATION Spec
INVARIANT OneSyncAtATime
CHECK_DEADLOCK FALSE
