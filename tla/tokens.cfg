SPECIFICATION Spec
CONSTANTS
    t1 = t1
    t2 = t2
    t3 = t3
    r1 = r1
    r2 = r2
    Procs = {p1, p2}
    Tokens = {t1, t2, t3}
    Refreshes = {r1, r2}
    Grants <- MCPaired
    NoRefresh = NoRefresh
    Absent = Absent
SYMMETRY Symmetry
INVARIANTS
    TypeOK
    RepliesHold
    ReferencesAreLive
    RefreshFindsItsGrant
