SPECIFICATION Spec
CONSTANTS
  Command = {term1, term2}
  Requests <- OneRequest
  Trees <- ContestedTrees
  SuiteRuns <- NewestSuiteRuns
  MaxRuns = 2
  MaxDisturbances = 1
  term1 = term1
  term2 = term2
SYMMETRY Terminals
INVARIANTS
  ReadyIsDeserved
CHECK_DEADLOCK FALSE
