SPECIFICATION Spec
CONSTANTS
  Cmd = {c1, c2}
  Run = {r1, r2}
  Token = {}
  Preserved = {}
  Enabled <- Acquisition
  LeaseDuration = 1
  MaxTime = 2
  MaxCrashes = 0
  MaxLapses = 0
PROPERTY ExclusiveLease
