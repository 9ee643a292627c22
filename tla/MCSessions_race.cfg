SPECIFICATION Spec
CONSTANTS
    r1 = r1  r2 = r2  r3 = r3
    s1 = s1  s2 = s2
    Requests = {r1, r2, r3}
    Sessions = {s1, s2}
    MaxGen = 2
SYMMETRY Symmetry
INVARIANTS
    DeadlockNeedsLogoutAll
    SingleUse
    DeadSessionNotRefreshed
    AnsweredRevocationHolds
PROPERTIES
    ImplementsRotatingTokens
CHECK_DEADLOCK FALSE
