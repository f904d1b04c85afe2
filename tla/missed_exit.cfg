SPECIFICATION FairSpec
CONSTANTS
  Cmd = {c1}
  Run = {r1}
  Token = {x1}
  Preserved = {}
  Enabled <- SupervisionOnly
  LeaseDuration = 1
  MaxTime = 1
  MaxCrashes = 0
  MaxLapses = 0
PROPERTY SupervisionEnds
