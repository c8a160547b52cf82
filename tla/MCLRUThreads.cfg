SPECIFICATION Spec
CONSTANTS
    Thread = {t1, t2}
    Key = {k1, k2, k3}
    Cell = {c1, c2, c3}
    capacity = 1
    MaxPairs = 2
SYMMETRY Symmetry
INVARIANTS
    LockedCallsDoNotRace
    DamageNeedsRace
    OvershootBounded
CHECK_DEADLOCK FALSE
