SPECIFICATION AuditSpec
CONSTANTS
  w1 = w1
  w2 = w2
  c1 = c1
  Writers = {w1, w2, c1}
  Commands = {c1}
  Archives = 2
  Logs <- FourLogs
SYMMETRY Symmetry
CHECK_DEADLOCK FALSE
INVARIANTS
  Consistent
  PagesTrue
PROPERTIES
  DropsWhenFull
