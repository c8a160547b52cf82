SPECIFICATION FairSpec
CONSTANTS
    Node = {n1, n2}
    Client = {c1}
    Sent = {"HEART_BEAT", "SYNC_REQUEST"}
    Backlog = 1
    MaxCalls = 2
    MaxCrashes = 1
PROPERTIES
    ResultsTell
    ImplementsMailbox
    EveryCallReturns
    EveryConnectionServed
CHECK_DEADLOCK FALSE
