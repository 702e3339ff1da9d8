SPECIFICATION FairSpec
CONSTANTS
  NodeId <- MCNodeId
  EdgeId <- MCEdgeId
  Stores <- MCStores
  Requests <- OneRequest
  MaxDepth = 2
  SeedLimit = 2
INVARIANTS
  QueueByLevel
  ClosedUnlessCut
PROPERTIES
  ImplementsClosure
  Terminates
CHECK_DEADLOCK FALSE
