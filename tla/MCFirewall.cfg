SPECIFICATION Spec
CONSTANTS
  h1 = h1
  h2 = h2
  src1 = src1
  src2 = src2
  Handlers = {h1, h2}
  Rules <- AllRules
  SshPort0 = 22
  Addresses = {src1, src2}
  MaxTime = 1
  Hosts <- SevenHosts
SYMMETRY Symmetry
INVARIANTS
  Consistent
  SshAdmitted
PROPERTIES
  BansKept
