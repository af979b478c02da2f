SPECIFICATION SamplerSpec
CONSTANTS
  z1 = z1
  z2 = z2
  none = none
  rec1 = rec1
  rec2 = rec2
  rec3 = rec3
  NoZone = none
  Zones = {z1, z2}
  Records = {rec1, rec2, rec3}
  Page <- FirstPage
  Keep = 3
  Day = 2
  Hour = 2
  Sustain = 1
  Settings <- FourSettings
INVARIANTS
  SamplerConsistent
PROPERTIES
  HistoryKept
  OnlyWhereEnabled
  EventuallyProxied
