SPECIFICATION RecoverySpec
CONSTANTS
  Cmd = {c1}
  Run = {r1, r2}
  Token = {}
  Preserved = {}
  Enabled <- Coordination
  LeaseDuration = 1
  MaxTime = 2
  MaxCrashes = 1
  MaxLapses = 0
INVARIANT TypeOK
PROPERTY LeaseNotStolen
PROPERTY StaleLeaseRecovered
