SPECIFICATION FairSpec
CONSTANTS
  term = term
  Command = {term}
  Requests <- AllRequests
  Trees <- NearlyGoodTrees
  SuiteRuns <- ShortSuiteRuns
  MaxRuns = 2
  MaxDisturbances = 1
INVARIANTS
  ReadyLeavesProof
  ReadyHasRecords
PROPERTIES
  RunEnds
CHECK_DEADLOCK FALSE
