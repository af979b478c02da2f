SPECIFICATION SiteSpec
CONSTANTS
  r1 = r1
  r2 = r2
  a = a
  b = b
  none = none
  None = none
  Requests = {r1, r2}
  Names = {a, b}
  Extends <- ABeginsWithB
  Servers <- FourServers
SYMMETRY Symmetry
CHECK_DEADLOCK FALSE
INVARIANTS
  Consistent
PROPERTIES
  FailureRestores
  OverridesKept
