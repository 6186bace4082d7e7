CONSTANTS
    a = a
    b = b
    c = c
    X = X
    Y = Y
    None = None
    CPU <- MCPair
    Cluster <- MCOne
    ClusterOf <- MCPairOf
    Primary = a
    OnEntrypoints = {"aligned", "odd"}
    SuspendEntrypoints = {"aligned"}
    SuspendLevels = {0, 1}
SPECIFICATION FairSpec
PROPERTIES
    TurnedOnComesUp
    CallsEnd
