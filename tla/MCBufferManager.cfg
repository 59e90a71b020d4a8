CONSTANTS
    v1 = v1  v2 = v2  v3 = v3  v4 = v4
    None = None
    Validators <- MCValidators
    Author = v1
    Power <- MCPower
    QuorumPower = 3
    MaxBlocks = 3
    MaxSyncs = 2
    MaxTicks = 1
SPECIFICATION Spec
INVARIANT TypeOK
INVARIANT PipelineInOrder
INVARIANT CursorsAtFirstUnprocessed
INVARIANT PersistedExactlyOnceInOrder
INVARIANT ExecutionResponseFindsOrdered
INVARIANT StageRequestsBounded
PROPERTY ReconfigSendsNothing
SYMMETRY MCSymmetry
VIEW PipelineView
CHECK_DEADLOCK FALSE
