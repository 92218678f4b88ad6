CONSTANTS
    admin = admin
    pm = pm
    staff = staff
    ch1 = ch1
    t1 = t1
    t2 = t2
    r1 = r1
    r2 = r2
    Users = {pm, staff}
    NoUser = NoUser
    Admins = {}
    Leads = {pm}
    PmCandidates = {pm}
    FirstMembers = {pm, staff}
    FirstPm = pm
    Suspendable = {}
    Callers = {pm, staff}
    Chapters = {ch1}
    Texts = {t1, t2}
    PatternTexts = {}
    Blank = Blank
    Garbled = Garbled
    NoBlock = NoBlock
    Requests = {r1, r2}
    MaxVersion = 2
    MaxChapterVersion = 3
SPECIFICATION Spec
INVARIANTS ReviewedTextIsApplied
SYMMETRY RequestSymmetry
