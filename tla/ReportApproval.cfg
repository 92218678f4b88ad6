CONSTANTS
    admin = admin
    ceo = ceo
    director = director
    pm = pm
    staff = staff
    k1 = k1
    k2 = k2
    r1 = r1
    r2 = r2
    NoUser = NoUser
    NoKey = NoKey
    Users = {ceo, director, pm, staff}
    Admins = {}
    Executives = {ceo, director}
    Reviewers = {}
    Pms = {pm, staff}
    Staff = {}
    FirstMembers = {ceo, director, staff}
    Joining = {pm}
    Suspendable = {director}
    BlankVersions = {}
    Formats = {"PDF"}
    Keys = {k1}
    Requests = {r1, r2}
    MaxVersion = 2
SPECIFICATION Spec
INVARIANTS TypeOK LogsAreTrue OneEmailPerReview AcceptedIsStored
PROPERTIES DecisionIndependent LedgerSpec
SYMMETRY RequestSymmetry
