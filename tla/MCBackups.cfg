SPECIFICATION BackupSpec
CONSTANTS
  i1 = i1
  i2 = i2
  i3 = i3
  c1 = c1
  c2 = c2
  s1 = s1
  s2 = s2
  NoFile = NoFile
  Unset = unset
  NoTask = NoTask
  Ids = {i1, i2, i3}
  Commands = {c1, c2}
  Loads <- FiveLoads
  Settings = {s1, s2}
  Values = {0, 1}
SYMMETRY Symmetry
CHECK_DEADLOCK FALSE
INVARIANTS
  Consistent
PROPERTIES
  AcknowledgedInstalled
  AllOrNothing
