SPECIFICATION Spec
CONSTANTS
    NodeId <- MCNodeId
    EdgeId <- MCEdgeId
    EventId <- MCEventId
    MaxRows = 3
    Inputs <- MCInputs
INVARIANTS
    TypeOK
    FilterOnlyForgets
    SidecarSpeaks
PROPERTIES
    ImplementsLoading
CHECK_DEADLOCK FALSE
