SPECIFICATION FairSpec
CONSTANTS
  h1 = h1
  h2 = h2
  app1 = app1
  app2 = app2
  Handlers = {h1, h2}
  Apps = {app1, app2}
  Ports = {1, 2}
  Panels <- FourPanels
INVARIANTS
  Consistent
  LockHandedOver
PROPERTIES
  LockReleased
