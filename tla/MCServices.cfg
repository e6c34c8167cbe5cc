SPECIFICATION FairMCSpec
CONSTANTS
    Requests = {r1, r2}
    None = None
    Connects = {a1}
    MaxPairs = 3
    DevlogProjects = {p1, p2}
    DevlogIds = {d1, d2}
    SessionIds = {s1}
    ApprovedHours = {}
    Unborn = Unborn
    Deleted = Deleted
    o1 = o1
    o2 = o2
    CertOrders = {o1, o2}
    GrantOrders = {o1, o2}
    Price <- MCPrice
    ItemOf <- MCItemOf
    MinPipes = 2
    BuyerRequests = {r1}
    StaffRequests = {r1}
    PageRequests = {r2}
    Tokens = {t1}
    Kinds = {"proxy", "profile", "page", "logout"}
    MaxOutages = 1
INVARIANTS
    ServicesTypeOK
PROPERTIES
    ConnectionKept
    EvidenceStands
    CertificatesFollow
    ParallelRefreshIsHarmless LockedOutAfterLastEdit
CHECK_DEADLOCK FALSE
