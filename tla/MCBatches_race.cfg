SPECIFICATION Spec
CONSTANTS
    r1 = r1  r2 = r2  r3 = r3  r4 = r4  r5 = r5
    b1 = b1
    d1 = d1  d2 = d2
    x1 = x1  x2 = x2
    None = None
    Requests = {r1, r2, r3, r4, r5}
    BatchIds = {b1}
    Documents = {d1, d2}
    Existing = {d1}
    Texts = {x1, x2}
SYMMETRY Symmetry
INVARIANTS
    MembershipsAccounted
PROPERTIES
    ImplementsOptimisticRows
CHECK_DEADLOCK FALSE
