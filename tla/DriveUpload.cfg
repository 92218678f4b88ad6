CONSTANTS
    u1 = u1
    k1 = k1
    k2 = k2
    f1 = f1
    f2 = f2
    r1 = r1
    r2 = r2
    NoFile = NoFile
    Users = {u1}
    Leaving = {u1}
    Keys = {k1, k2}
    Files = {f1, f2}
    Requests = {r1, r2}
SPECIFICATION FairSpec
INVARIANTS TypeOK DraftFileOnce Registered
PROPERTIES UploadSpec ReservationSettles
