SPECIFICATION Spec
CONSTANTS
  Cmd = {c1, c2}
  Run = {r1}
  Token = {x1, x2}
  Preserved = {}
  Enabled <- SupervisionOnly
  LeaseDuration = 1
  MaxTime = 1
  MaxCrashes = 0
  MaxLapses = 0
INVARIANT Registered
