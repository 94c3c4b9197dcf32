CONSTANTS
    k1 = k1
    k2 = k2
    k3 = k3
    k4 = k4
    Procs = {p1, p2, p3}
    Actors = {a1, a2}
    Keys = {k1, k2, k3, k4}
    Kind <- MCKind
    Absent = Absent
SYMMETRY Symmetry
SPECIFICATION Spec
CHECK_DEADLOCK FALSE
INVARIANT TypeOK
INVARIANT PairsAgree
INVARIANT ComparedKeysMatch
