CONSTANTS
    a = a
    b = b
    c = c
    X = X
    Y = Y
    None = None
    CPU <- MCCPU
    Cluster <- MCCluster
    ClusterOf <- MCClusterOf
    Primary = a
    OnEntrypoints = {"aligned"}
    SuspendEntrypoints = {"aligned", "odd"}
    SuspendLevels = {0, 1}
SPECIFICATION Spec
INVARIANT RunningIsCoherent
