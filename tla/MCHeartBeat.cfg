SPECIFICATION FairSpec
CONSTANTS
    Node = {n1, n2}
    HEARTBEAT_SLEEP_TIME = 1
    HEARTBEAT_SKIP_COUNT = 3
    Slack = 0
    MaxDelay = 1
    MaxSkips = 1
    MaxCrashes = 1
INVARIANTS
    TypeOK
    Accuracy
    PromptDetection
    HeartBeatInv
PROPERTIES
    LastSeenMonotonic
    CrashedEventuallyDead
