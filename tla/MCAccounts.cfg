SPECIFICATION Spec
CONSTANTS
  kun = kun
  ann = ann
  pw0 = pw0
  pw1 = pw1
  pw2 = pw2
  Users = {kun, ann}
  Owner = kun
  Roles = {"admin", "viewer"}
  Passwords = {pw0, pw1, pw2}
  MaxFresh = 3
  MaxInFlight = 1
  Panels <- TwoPanels
SYMMETRY PasswordSymmetry
INVARIANTS
  OwnerIntact
  
  

  
