SPECIFICATION Spec
CONSTANTS
    Cluster <- ThreeNodes
    InitLeader = 1
    MaxMistakes = 0
    MaxCrashes = 2
PROPERTIES
    LeaderFoundDeadIsHandled
CHECK_DEADLOCK FALSE
