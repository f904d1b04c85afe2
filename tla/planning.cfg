SPECIFICATION Spec
CONSTANTS
  Names <- MCNames
  AliasEntries <- MCAliasEntries
  Answers <- MCAnswers
  Resolved <- MCResolved
  Jobs <- MCJobs
  Lifetime = 1
  MaxTime = 2
  MaxJournal = 5
INVARIANT TypeOK
INVARIANT NothingLost
INVARIANT NetworkTruthful
INVARIANT PlanOwnsUp
INVARIANT CompatibleIsProven
INVARIANT CyclesReported
INVARIANT ExecutionAuthorised
INVARIANT JournalEvident
CHECK_DEADLOCK FALSE
