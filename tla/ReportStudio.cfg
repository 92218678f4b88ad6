CONSTANTS
    admin = admin
    pm = pm
    staff = staff
    ch1 = ch1
    t1 = t1
    t2 = t2
    r1 = r1
    r2 = r2
    Users = {admin, pm, staff}
    NoUser = NoUser
    Admins = {admin}
    Leads = {pm, staff}
    PmCandidates = {pm, staff}
    FirstMembers = {pm, staff}
    FirstPm = NoUser
    Suspendable = {pm}
    Callers = {pm}
    Chapters = {ch1}
    Texts = {t1, t2}
    PatternTexts = {t2}
    Blank = Blank
    Garbled = Garbled
    NoBlock = NoBlock
    Requests = {r1, r2}
    MaxVersion = 2
    MaxChapterVersion = 3
SPECIFICATION Spec
INVARIANTS TypeOK HistoryComplete AcknowledgedIsKept AppliedIsReviewed
PROPERTIES DocSpec ChapterChangeAuthorised
SYMMETRY RequestSymmetry
