CONSTANTS
    admin = admin
    pm1 = pm1
    pm2 = pm2
    s1 = s1
    d1 = d1
    d2 = d2
    c1 = c1
    r1 = r1
    r2 = r2
    t1 = t1
    t2 = t2
    k1 = k1
    NoUser = NoUser
    NoDates = NoDates
    NoChange = NoChange
    NoText = NoText
    NoKey = NoKey
    Users = {admin, pm1, pm2}
    Admins = {admin}
    Managers = {admin, pm1, pm2}
    Candidates = {pm1, pm2}
    FirstMembers = {pm1}
    Leaving = {pm1}
    Stages = {s1}
    Dates = {d1, d2}
    Changes = {c1}
    Requests = {r1, r2}
    Scopes <- SomeScopes
    MaxProfile = 2
    MaxVersion = 2
    MaxHides = 3
    Texts = {t1, t2}
    Keys = {k1}
    Worlds <- SurveyWorld
    MaxNotes = 3
    MaxCatalog = 2
    MaxCase = 5
SPECIFICATION DeskSpec
SYMMETRY DeskSymmetry
PROPERTY SurveySaved
CHECK_DEADLOCK FALSE
