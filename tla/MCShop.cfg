SPECIFICATION MCSpec
CONSTANTS
    u1 = u1
    u2 = u2
    i1 = i1
    i2 = i2
    o1 = o1
    o2 = o2
    o3 = o3
    Users = {u1}
    Items = {i1}
    OrderIds = {o1, o2, o3}
    GrantIds = {g1}
    PriceFor <- MCPriceFor
    BlackMarket = {i2}
    GoldenUsers = {u1}
    Quantities = {1, 2}
    Amounts = {2}
    StockLevels = {2, Unlimited}
    MaxOutside = 4
    Unused = Unused
    Removed = Removed
    Unlimited = Unlimited
    None = None
    Voters = {u1, u2}
    Ideas = {i1, i2}
    VoteCalls = {c1, c2}
    DailyLimit = 1
    Watched <- MCWatched
SYMMETRY MCSymmetry
INVARIANTS
    TypeOK
    PipesConserved
    StockConserved
    DebtIsClawback
    RefundedOnce
    VotesStand
PROPERTIES
    GrantedRowsAreKept
    SettledOrdersStay
CHECK_DEADLOCK FALSE
