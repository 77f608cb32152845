SPECIFICATION Spec
CONSTANTS
  c1 = c1
  d1 = d1
  d2 = d2
  d3 = d3
  n1 = n1
  n2 = n2
  None = None
  Fixed = {c1, d1, d2, d3}
  New = {n1, n2}
  Types <- MCTypes
  Ports <- MCPorts
  Class <- MCClass
  Layouts <- MCLayouts
  Domains <- MCDomains
  Handled <- MCHandled
  Named <- MCNamed
  Syncing <- MCSyncing
  Nets = {1, 2}
  MaxTries = 1
  MaxEvents = 1
INVARIANTS
  TypeOK
  PortOnce
  
  
  DomainFits
CHECK_DEADLOCK FALSE
