SPECIFICATION Spec
CONSTANTS
    c1 = c1
    c2 = c2
    o1 = o1
    Procs = {p1, p2}
    Objects = {o1}
    Collections = {c1, c2}
    Hidden = {}
    Members = {i1}
    Named <- MCNamed
    Shapes = {"collection"}
    Fills = {{}}
    Cells = {r1, r2, r3}
    Orderly = FALSE
    Absent = Absent
SYMMETRY Symmetry
INVARIANTS TypeOK StoredUnderOwnIRI UncontendedEditsAreCurrent RepliesHold
PROPERTY CallsStayApart
