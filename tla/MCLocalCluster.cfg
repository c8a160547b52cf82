SPECIFICATION FairSpec
CONSTANTS
    Cluster <- ThreeNodes
    InitLeader = 1
    MaxMistakes = 2
    MaxCrashes = 2
INVARIANTS
    TypeOK
    SingleLeader
    RedirectTargetAccepts
    NoticeReachesEveryone
    SoundUntilMistaken
    FollowsOnlyLeaders
PROPERTIES
    FailoverCompletes
    FollowersResync
    TakesOverFromTheDead
CHECK_DEADLOCK FALSE
