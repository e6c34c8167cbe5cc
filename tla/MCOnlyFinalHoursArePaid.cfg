SPECIFICATION ReviewSpec
CONSTANTS
    u1 = u1
    p1 = p1
    p2 = p2
    Users = {u1}
    Projects = {p1, p2}
    OwnerOf <- MCOwnerOf
    Extended = {u1}
    Unrestricted = {}
    Deltas = {10}
    Logged = {0, 10}
    Finals = {10}
    MaxHours = 20
    MaxShips = 2
    MaxApprovals = 2
    Unused = Unused
    Removed = Removed
    None = None
SYMMETRY MCSymmetry
PROPERTIES
    OnlyFinalHoursArePaid
CHECK_DEADLOCK FALSE
