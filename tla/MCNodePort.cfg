SPECIFICATION Spec
CONSTANTS
  j1 = j1
  j2 = j2
  j3 = j3
  Jobs = {j1, j2, j3}
  Ports = {22, 2222, 3333}
  Open = {22, 2222}
  Settings <- FourSettings
SYMMETRY Symmetry
CHECK_DEADLOCK FALSE
INVARIANTS
  Consistent
  NeverLockedOut
PROPERTIES
  RollbackRestores
