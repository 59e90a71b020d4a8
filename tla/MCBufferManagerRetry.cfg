CONSTANTS
    v1 = v1  v2 = v2  v3 = v3  v4 = v4
    None = None
    Validators <- MCValidators
    Author = v1
    Power <- MCPower
    QuorumPower = 3
    MaxBlocks = 1
    MaxSyncs = 1
    MaxTicks = 2
SPECIFICATION Spec
SYMMETRY MCSymmetry
CHECK_DEADLOCK FALSE
INVARIANT RetryNeverPanics
