SPECIFICATION Spec
CONSTANTS
  Proc = {p1, p2}
  Txn = {t1}
  w1 = w1
  Workspace = {w1}
  Home <- OneHome
  MaxAborts = 0
INVARIANT RolledBackIsClean
