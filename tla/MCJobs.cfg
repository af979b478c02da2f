SPECIFICATION FairSpec
CONSTANTS
  Jobs = {j1, j2, j3}
  MaxRetained = 2
  Slots = 1
  MaxCommands = 1
INVARIANTS
  RegistrySound
  SlotsSound
PROPERTIES
  RefusalJustified
  OnlyAdmissionForgets
  ServiceSafety
  ServiceLiveness
