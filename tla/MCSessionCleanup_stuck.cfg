SPECIFICATION FairSpec
CONSTANTS
    s1 = s1  s2 = s2
    None = None
    Sessions = {s1}
    Ids = {1, 2}
    BatchLimit = 1
PROPERTIES
    ExpiredTokensDeleted
CHECK_DEADLOCK FALSE
