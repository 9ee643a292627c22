SPECIFICATION FairSpec
CONSTANTS
    r1 = r1  r2 = r2
    e1 = e1
    c1 = c1
    p1 = p1
    None = None
    Requests = {r1, r2}
    Emails = {e1}
    Clients = {c1}
    Passwords = {p1}
    Threshold <- Thresholds
    MaxChanges = 1
INVARIANTS
    BlockedNotAdmitted
    FailureLeavesTraces
    LoginWasTrue
PROPERTIES
    LockoutEnds
CHECK_DEADLOCK FALSE
