SPECIFICATION Spec
CONSTANTS
    Node = {n1, n2}
    HEARTBEAT_SLEEP_TIME = 1
    HEARTBEAT_SKIP_COUNT = 3
    Slack = 0
    MaxDelay = 0
    MaxSkips = 3
    MaxCrashes = 0
INVARIANTS
    SkippedHeartbeatsAccommodated
