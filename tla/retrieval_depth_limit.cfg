SPECIFICATION Spec
CONSTANTS
  NodeId <- MCNodeId
  EdgeId <- MCEdgeId
  Stores <- MCStores
  Requests <- RankingRequests
  MaxDepth = 1
  SeedLimit = 1
INVARIANTS
  TypeOK
  SubgraphIsReference
  OkIsFullClosure
  OkHasNoDanglingEdge
  UnsafeReachBlocks
  OkClaimsAreCited
CHECK_DEADLOCK FALSE
