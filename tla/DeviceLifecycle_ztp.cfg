SPECIFICATION Spec
CONSTANTS
  Devices = {a1, a2}
  Pool = {1, 2}
  Slots = {j1, j2}
  MaxRows = 2
  MaxEvents = 3
  None = None
INVARIANTS
  TypeOK
  
  
  
  
 
CONSTRAINT OneDisturbed
SYMMETRY Symmetry
CHECK_DEADLOCK FALSE
