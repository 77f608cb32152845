SPECIFICATION Spec
CONSTANTS
  d1 = d1
  j1 = j1
  j2 = j2
  None = None
  Static = Static
  Alien = Alien
  Devices = {d1}
  Jobs = {j1, j2}
  Requests <- MCRequests
  MaxRev = 1
  MaxEvents = 3
INVARIANTS
  TypeOK
  SyncedIsTrue
  AlarmIsTrue
  NothingLost
  
  UpgradeIsMarked
CHECK_DEADLOCK FALSE
