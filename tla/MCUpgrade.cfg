SPECIFICATION FairSpec
CONSTANTS
  old = old
  good = good
  crash = crash
  hang = hang
  forged = forged
  key = key
  None = None
  Packages = {old, good, crash, hang, forged}
  Keys = {key}
  Signed <- SignedBy
  Version <- VersionOf
  Installed = old
  Crashing = {crash}
  Hanging = {hang}
  Busy = TRUE
  AtOnce = 2
  MaxApplies = 3
  MaxHostRestarts = 1
CHECK_DEADLOCK FALSE
INVARIANTS
  OnlySigned
  RollsBack
PROPERTIES
  FailureRestores
  Recovers
