SPECIFICATION Spec
CONSTANTS
    u1 = u1  u2 = u2  u3 = u3
    o1 = o1  o2 = o2
    i1 = i1  i2 = i2
    r1 = r1
    None = None
    Users = {u1, u2, u3}
    Organizations = {o1, o2}
    Installers = {i1, i2}
    Requests = {r1}
    RolesGiven = {"owner", "admin", "auditor"}
    Needs = {"none", "security_manage"}
    MaxResults = 1
    MaxChanges = 5
SYMMETRY Symmetry
INVARIANTS
    MembershipLifecycle
    BootstrapOnce
    OwnerRemains
    AnswerWasTrue
CHECK_DEADLOCK FALSE
