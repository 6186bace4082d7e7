CONSTANTS
    a = a
    b = b
    c = c
    X = X
    Y = Y
    None = None
    CPU <- MCCPU
    Cluster <- MCCluster
    ClusterOf <- MCClusterOf
    Primary = a
    OnEntrypoints = {"aligned", "odd"}
    SuspendEntrypoints = {"aligned"}
    SuspendLevels = {0, 1}
SPECIFICATION Spec
INVARIANTS
    TypeOK
    RefCountExact
    RunningIsCoherent
    CoherencyFollowsCount
    InfoMatchesAnswers
    WakeMatchesSleep
PROPERTY KeepsStatePromise
