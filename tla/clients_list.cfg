SPECIFICATION Spec
CONSTANTS
    Procs = {p1, p2}
    Ids = {i1, i2}
    Clients = {a, b}
    Absent = Absent
SYMMETRY Symmetry
INVARIANTS TypeOK ListsWhatWasStored
