CONSTANTS
    n1 = n1
    n2 = n2
    n3 = n3
    n4 = n4
    n5 = n5
    k1 = k1
    k2 = k2
    k3 = k3
    k4 = k4
    Node = {n1, n2, n3, n4, n5}
    Key = {k1, k2, k3, k4}
    NULL = NULL
    NONE = NONE
SYMMETRY Symmetry
SPECIFICATION Spec
INVARIANT WellLinked
INVARIANT ReferencesWork
PROPERTY KeepsContract
