SPECIFICATION Spec
CONSTANTS
    Key = {k1, k2, k3, k4}
    Value = {v1, v2}
    Cell = {c1, c2, c3}
    capacity = 3
SYMMETRY Symmetry
INVARIANTS
    TypeOK
    Coherent
    WindowResident
PROPERTIES
    RefinesLRUCache
