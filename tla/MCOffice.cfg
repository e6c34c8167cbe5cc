SPECIFICATION OfficeSpec
CONSTANTS
    p1 = p1
    p2 = p2
    p3 = p3
    QueueProjects = {p1, p2, p3}
    Author <- MCAuthor
    MadeAt <- MCMadeAt
    Against = {"changes_needed"}
    PageSize = 1
    LoadLimit = 1
    MayBeGolden = {p1}
    MaxClock = 3
    Grain = 2
    MayBeLoose = {p2}
    Recipients = {w1}
    Jobs = {j1, j2}
    Savers = {v1, v2}
    Nobody = Nobody
    MaxJobs = 3
    MaxEvents = 1
    Pieces = {e1, e2}
    Callers = {c1, c2}
    NoCaller = NoCaller
    LastDay = 2
    MaxChanges = 2
    Tabs = {t1, t2}
    Grace = 1
    Extension = 1
    MaxNow = 2
    MaxStaff = 2
SYMMETRY MCTabs
INVARIANTS
    OfficeTypeOK
    QueueHolds
    ToldOnce
    NumbersTrue
    WindowHolds
CHECK_DEADLOCK FALSE
