SPECIFICATION Spec
CONSTANTS
  NodeId <- MCNodeId
  EdgeId <- MCEdgeId
  Stores <- MCStores
  Requests <- OneRequest
  MaxDepth = 3
  SeedLimit = 2
INVARIANTS
  RetrievedIsClosed
CHECK_DEADLOCK FALSE
