SPECIFICATION DecisionsSpec
CONSTANTS
    u1 = u1
    p1 = p1
    p2 = p2
    Users = {u1}
    Projects = {p1}
    OwnerOf <- MCOwnerOf
    Extended = {u1}
    Unrestricted = {u1}
    Deltas = {10}
    Logged = {0, 10}
    Finals = {20}
    MaxHours = 20
    MaxShips = 2
    MaxApprovals = 2
    Unused = Unused
    Removed = Removed
    None = None
    Calls = {c1}
    Assigned = {1, 2}
    Entered <- MCEntered
    Overrides = {Null, 2}
    Turned = {"changes_needed"}
    MaxProjectHours = 2
    MaxSubmissions = 2
    MaxReviews = 2
    Null = Null
    Tracked = {0, 1, 3}
INVARIANTS
    DecisionsTypeOK
    NoHourPaidTwice
PROPERTIES
    ApprovalPaysInFull
    RejectedIsTerminal
    ImplementsLedger
    DecisionsStand
CHECK_DEADLOCK FALSE
