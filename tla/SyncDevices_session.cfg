CONSTANTS
  Syncs = {s1}
  Refreshes = {}
  NoJob = NoJob
  Devices = {d1}
  Confirmable = {d1}
  Modes = {2}
  MaxAttempts = 5
  MaxDeletes = 0
  MaxRestarts = 0
SPECIFICATION Spec
INVARIANT SessionKeptOpen
CHECK_DEADLOCK FALSE
