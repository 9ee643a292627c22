SPECIFICATION Spec
CONSTANTS
    r1 = r1  r2 = r2  r3 = r3
    k1 = k1  k2 = k2
    p1 = p1  p2 = p2  bad = bad
    h1 = h1  h2 = h2  hbad = hbad
    None = None
    Requests = {r1, r2}
    Keys = {k1}
    Payloads = {p1}
    Valid = {p1}
    Hashes = {h1}
    HashOf <- MCHashOf
    SerialKeys = TRUE
INVARIANT ValidUploadNotRejected
CHECK_DEADLOCK FALSE
