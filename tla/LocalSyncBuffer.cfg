SPECIFICATION FairSpec
CONSTANTS
    Follower = {f1}
    Key = {k1, k2}
    PoolSize = 2
    Long = {}
    MaxPairs = 1
    MaxPuts = 2
    MaxCrashes = 1
PROPERTIES
    FetchesDataOfAnySize
