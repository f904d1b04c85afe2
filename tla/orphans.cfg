SPECIFICATION RecoverySpec
CONSTANTS
  Cmd = {c1}
  Run = {r1}
  Token = {x1}
  Preserved = {}
  Enabled <- Orphaning
  LeaseDuration = 1
  MaxTime = 1
  MaxCrashes = 1
  MaxLapses = 1
INVARIANT RegistryWarranted
PROPERTY OrphansReached
