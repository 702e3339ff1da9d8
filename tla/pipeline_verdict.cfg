SPECIFICATION Spec
CONSTANTS
  term = term
  Command = {term}
  Requests <- AllRequests
  Trees <- AllTrees
  SuiteRuns <- MCSuiteRuns
  MaxRuns = 1
  MaxDisturbances = 0
INVARIANTS
  TypeOK
  VerdictIsDeserved
CHECK_DEADLOCK FALSE
