SPECIFICATION FairSpec
CONSTANTS
    p1 = p1
    p2 = p2
    p3 = p3
    Predefined <- ThreeNodes
    Joiner = {j1, j2}
    Running = {p1, j1, j2}
    MaxPending = 2
    MaxCrashes = 1
INVARIANTS
    KnownOnce
    DanglingNeedsTwo
PROPERTIES
    EventuallyKnown
    MembersAnswered
