CONSTANTS
    p1 = p1
    p2 = p2
    r1 = r1
    r2 = r2
    NoProposal = NoProposal
    Proposals = {p1, p2}
    Requests = {r1, r2}
    FirstStatuses = {"INQUIRY", "ESTIMATE"}
    MaxCaseVersion = 3
    MaxStateVersion = 3
    Worlds <- SomeWorlds
SPECIFICATION FairSpec
INVARIANTS TypeOK DecidedOnce CorrectionsAreRecorded
PROPERTIES DispatchSettles RegistrationSpec
CHECK_DEADLOCK FALSE
