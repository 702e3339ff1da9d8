SPECIFICATION Spec
CONSTANTS
  term = term
  Command = {term}
  Requests <- AllRequests
  Trees <- NearlyGoodTrees
  SuiteRuns <- ShortSuiteRuns
  MaxRuns = 2
  MaxDisturbances = 0
PROPERTIES
  RerunAgrees
CHECK_DEADLOCK FALSE
