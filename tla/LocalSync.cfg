SPECIFICATION FairSpec
CONSTANTS
    Follower = {f1}
    Key = {k1, k2}
    PoolSize = 2
    Long = {2}
    MaxPairs = 2
    MaxPuts = 3
    MaxCrashes = 1
INVARIANTS
    DivergenceNeedsRace
PROPERTIES
    FollowerMonotonic
    EventuallyAgrees
    FetchesDataWhenListening
