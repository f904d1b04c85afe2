SPECIFICATION Spec
CONSTANTS
  Proc = {p1, p2}
  Txn = {t1}
  w1 = w1
  Workspace = {w1}
  Home <- OneHome
  MaxAborts = 1
SYMMETRY Interchangeable
INVARIANT TypeOK
INVARIANT IInv
INVARIANT OwnedTree
INVARIANT JournalChain
INVARIANT OperationBound
INVARIANT CommittedHasArtifact
INVARIANT SingleBeginner
PROPERTY RecordsImmutable
PROPERTY OrphansStay
