SPECIFICATION FairSpec
CONSTANTS
    Cluster <- ThreeNodes
    InitLeader = 1
    MaxMistakes = 0
    MaxCrashes = 2
PROPERTIES
    HoldOffEndsInLeader
CHECK_DEADLOCK FALSE
