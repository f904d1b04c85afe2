SPECIFICATION Spec
CONSTANTS
  Null = Null
  Blank = Blank
  i1 = i1
  i2 = i2
  p1 = p1
  full = full
  malformed = malformed
  Prompts = {p1}
  Intents = {i1, i2}
  Answers = {full, malformed}
  PlanAnswers = {full}
  ServiceInfos <- MCServiceInfos
  Devices <- MCDevices
  MaxChecks = 2
INVARIANT TypeOK
INVARIANT OneRequest
INVARIANT ResultsAgree
INVARIANT RequestsCurrent
INVARIANT CheckingHasCheck
INVARIANT ReadyMeansCompatible
INVARIANT NoticeTruthful
INVARIANT ReportWithinPolicy
INVARIANT ProbeReportsRedacted
PROPERTY ImplementsPlanningSession
