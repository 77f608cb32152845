CONSTANTS
  d1 = d1
  None = None
  Devices <- MCDevices
  Type <- MCType
  Group <- MCGroup
  SettingsFiles <- MCSettingsFiles
  TemplateFiles <- MCTemplateFiles
  Commits <- MCCommits
  MaxMishaps = 0
SPECIFICATION Spec
INVARIANT RefreshMarks
CHECK_DEADLOCK FALSE
