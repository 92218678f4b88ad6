CONSTANTS
    admin = admin
    pm = pm
    ch1 = ch1
    ch2 = ch2
    k1 = k1
    r1 = r1
    r2 = r2
    NoUser = NoUser
    NoChapter = NoChapter
    NoKey = NoKey
    Users = {admin, pm}
    Admins = {admin}
    Managers = {pm}
    Members = {pm}
    Suspendable = {pm}
    Chapters = {ch1}
    Archived = {}
    Keys = {k1}
    Requests = {r1, r2}
    Worlds <- SomeWorlds
    RuleLimit = 8
    MaxPromptVersion = 2
    MaxOutlineVersion = 2
    MaxGenerations = 2
SPECIFICATION Spec
INVARIANTS TypeOK OnlyReleasedRules GenerationsTraceable
PROPERTIES RuleBookSpec
SYMMETRY RequestSymmetry
CHECK_DEADLOCK FALSE
