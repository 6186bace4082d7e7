CONSTANTS
    a = a
    b = b
    c = c
    X = X
    Y = Y
    None = None
    CPU <- MCCPU
    Cluster <- MCOne
    ClusterOf <- MCTrioOf
    Primary = a
    OnEntrypoints = {"aligned"}
    SuspendEntrypoints = {"aligned"}
    SuspendLevels = {}
SPECIFICATION FairSpec
PROPERTIES
    TurnedOnComesUp
    CallsEnd
