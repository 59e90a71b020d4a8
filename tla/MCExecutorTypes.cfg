CONSTANTS
    NewEpoch = NewEpoch  Other = Other
    None = None
    Keys <- MCKeys
    NewEpochKey = NewEpoch
    MaxTxns = 3
    MaxEvents = 2
SPECIFICATION Spec
INVARIANT ComputeResultMatchesReference
CHECK_DEADLOCK FALSE
