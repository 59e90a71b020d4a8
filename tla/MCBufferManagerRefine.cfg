CONSTANTS
    v1 = v1  v2 = v2  v3 = v3  v4 = v4
    None = None
    Validators <- MCValidators
    Author = v1
    Power <- MCPower
    QuorumPower = 3
    MaxBlocks = 3
    MaxSyncs = 2
    MaxTicks = 0
SPECIFICATION Spec
PROPERTY ImplementsCommitPipeline
SYMMETRY MCSymmetry
CHECK_DEADLOCK FALSE
