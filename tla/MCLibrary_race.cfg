SPECIFICATION Spec
CONSTANTS
    r1 = r1  r2 = r2  r3 = r3
    t1 = t1  t2 = t2
    c1 = c1  c2 = c2  c3 = c3
    k1 = k1
    None = None
    Requests = {r1, r2, r3}
    Tenants = {t1, t2}
    Contents = {c1, c2, c3}
    Keys = {k1}
SYMMETRY Symmetry
INVARIANTS
    AnswersAreScoped
    TrailExplainsDocument
    DuplicateIsHonest
    StatusTellsCurrentVersion
PROPERTIES
    ArchivedIsFrozen
CHECK_DEADLOCK FALSE
