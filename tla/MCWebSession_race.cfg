SPECIFICATION Spec
CONSTANTS
    t0 = t0  t1 = t1  t2 = t2
    o1 = o1  o2 = o2
    p1 = p1  p2 = p2  p3 = p3
    None = None
    Tasks = {t0, t1, t2}
    Mount = t0
    Orgs = {o1, o2}
    Promises = {p1, p2, p3}
SYMMETRY Symmetry
INVARIANTS
    PermissionsOfSelection
    SharedRefresh
    WaitersAreServed
PROPERTIES
    LateRefreshIgnored
CHECK_DEADLOCK FALSE
