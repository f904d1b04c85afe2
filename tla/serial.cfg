SPECIFICATION FairSpec
CONSTANTS
  Proc = {p1}
  Txn = {t1, t2}
  w1 = w1
  Workspace = {w1}
  Home <- OneHome
  MaxAborts = 2
INVARIANT RolledBackIsClean
PROPERTY ImplementsProtocol
PROPERTY RecoveryCompletes
