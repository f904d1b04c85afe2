SPECIFICATION Spec
CONSTANTS
  Names <- MCNames
  AliasEntries <- MCAliasEntries
  Answers <- MCAnswers
  Resolved <- MCResolved
  Jobs <- MCJobs
  Lifetime = 1
  MaxTime = 2
  MaxJournal = 5
PROPERTY RiskKept
CHECK_DEADLOCK FALSE
