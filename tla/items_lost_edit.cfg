SPECIFICATION AddersSpec
CONSTANTS
    c1 = c1
    c2 = c2
    o1 = o1
    Procs = {p1, p2}
    Objects = {o1}
    Collections = {c1}
    Hidden = {}
    Members = {i1, i2}
    Named <- MCNamedOne
    Shapes = {"collection"}
    Fills = {{}}
    Cells = {r1, r2}
    Orderly = FALSE
    Absent = Absent
INVARIANTS AddedItemsStay
