SPECIFICATION FairSpec
CONSTANTS
    s1 = s1  s2 = s2
    None = None
    Sessions = {s1, s2}
    Ids = {1, 2, 3, 4}
    BatchLimit = 3
INVARIANTS
    ActiveSessionIsWhole
PROPERTIES
    ExpiredTokensGo
    RetiredSessionsGo
CHECK_DEADLOCK FALSE
