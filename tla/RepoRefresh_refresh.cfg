CONSTANTS
  d1 = d1
  None = None
  Devices <- MCDevices
  Type <- MCType
  Group <- MCGroup
  SettingsFiles <- MCSettingsFiles
  TemplateFiles <- MCTemplateFiles
  Commits <- MCCommits
  MaxMishaps = 1
SPECIFICATION Spec
INVARIANTS
  TypeOK
  
  WorkingIsGood
  CaughtIsNotUsed
CHECK_DEADLOCK FALSE
