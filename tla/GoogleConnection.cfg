CONSTANTS
    t1 = t1
    t2 = t2
    x = x
    s1 = s1
    s2 = s2
    s3 = s3
    r1 = r1
    r2 = r2
    NoToken = NoToken
    Tokens = {t1, t2, x}
    Foreign = {x}
    States = {s1, s2, s3}
    Requests = {r1, r2}
SPECIFICATION Spec
INVARIANTS TypeOK GrantsAreConsented StoredIsLive
SYMMETRY Symmetry
CHECK_DEADLOCK FALSE
