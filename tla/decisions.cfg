SPECIFICATION MCSpec
CONSTANTS
    Users = {p1, p2, p3}
    Subjects = {d1}
    OrgAdmins = {p1}
    ChainOpen = TRUE
    Admin = p1
    Designer = p2
    Owner = p3
    MaxTurnover = 2
    MaxRevisions = 2
    MaxRequests = 2
    MaxReads = 1
    MaxRetired = 1
INVARIANTS
    RegisterIsCoherent
PROPERTIES
    HoldersKept
    DecidedByAuthority
    NoneAroundTheArchitect
CHECK_DEADLOCK FALSE
