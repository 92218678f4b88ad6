CONSTANTS
    a1 = a1
    a2 = a2
    u1 = u1
    w1 = w1
    w2 = w2
    w3 = w3
    t1 = t1
    t2 = t2
    app1 = app1
    app2 = app2
    r1 = r1
    r2 = r2
    NoLogin = NoLogin
    NoPassword = NoPassword
    NoToken = NoToken
    Logins = {a1, a2, u1}
    Admins = {a1, a2}
    Passwords = {w1, w2, w3}
    Tokens = {t1, t2}
    Applications = {app1, app2}
    Requests = {r1, r2}
    Scopes <- SomeScopes
    MaxVersion = 3
SPECIFICATION Spec
SYMMETRY AccountsSymmetry
INVARIANTS TypeOK AdminRemains RecordsAgree
PROPERTY ProvenPassword
CHECK_DEADLOCK FALSE
