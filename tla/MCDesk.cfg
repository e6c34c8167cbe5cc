SPECIFICATION FairMCSpec
CONSTANTS
    Requests = {r1, r2}
    None = None
    Builders = {r1}
    MaxDeskHours = 2
    MaxSubmissions = 2
    Gone = Gone
    BanProjects = {p1, p2}
    BanOrders = {o1, o2}
    Reviewers = {a, b}
    ClaimProduction = TRUE
INVARIANTS
    RowsTypeOK
    PaidAsRecorded QueuedIsOpen
PROPERTIES
    VerdictStands
    BanClearsUp
    ClaimsHold
CHECK_DEADLOCK FALSE
