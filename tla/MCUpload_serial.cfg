SPECIFICATION FairSpec
CONSTANTS
    r1 = r1  r2 = r2  r3 = r3
    k1 = k1  k2 = k2
    p1 = p1  p2 = p2  bad = bad
    h1 = h1  h2 = h2  hbad = hbad
    None = None
    Requests = {r1, r2}
    Keys = {k1, k2}
    Payloads = {p1, p2, bad}
    Valid = {p1, p2}
    Hashes = {h1, h2, hbad}
    HashOf <- MCHashOf
    SerialKeys = TRUE
INVARIANTS
    CompletedRowIsHonest
    ReplayServesOwnContent
PROPERTIES
    RequestEnds
    KeyIsReleased
CHECK_DEADLOCK FALSE
