SPECIFICATION FairSpec
CONSTANTS
  Cmd = {c1, c2}
  Run = {r1}
  Token = {x1}
  Preserved = {}
  Enabled <- SupervisionAndPause
  LeaseDuration = 1
  MaxTime = 0
  MaxCrashes = 0
  MaxLapses = 1
INVARIANT RegistryWarranted
PROPERTY TimeoutReachesWork
PROPERTY PauseReachesWork
