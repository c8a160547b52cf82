SPECIFICATION Spec
CONSTANTS
    Cluster <- ThreeNodes
    InitLeader = 1
    MaxMistakes = 0
    MaxCrashes = 1
    Key = {k1}
    PoolSize = 2
    Long = {2}
    MaxPairs = 1
    MaxEvents = 2
INVARIANTS
    AckedSurvives
    WritesStayWithLeader
    OnlyRebootsMislead
    AckedKeyOutlivesACrash
PROPERTIES
    OnlySnapshotsGoBack
    ImplementsLocalCluster
CHECK_DEADLOCK FALSE
