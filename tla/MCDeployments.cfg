SPECIFICATION Spec
CONSTANTS
  web = web
  db = db
  j1 = j1
  j2 = j2
  Projects = {web, db}
  Jobs = {j1, j2}
  Centers <- ThreeCenters
SYMMETRY Symmetry
CHECK_DEADLOCK FALSE
INVARIANTS
  Consistent
  RunningKnown
