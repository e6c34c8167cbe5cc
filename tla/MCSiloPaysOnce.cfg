SPECIFICATION GrantsSpec
CONSTANTS
    u1 = u1
    u2 = u2
    i1 = i1
    g1 = g1
    g2 = g2
    g3 = g3
    r1 = r1
    r2 = r2
    Users = {u1}
    Items = {i1}
    OrderIds = {o1, o2}
    GrantIds = {g1, g2}
    PriceFor <- MCPriceFor
    BlackMarket = {}
    GoldenUsers = {}
    Quantities = {1}
    Amounts = {2}
    StockLevels = {Unlimited}
    MaxOutside = 2
    Unused = Unused
    Removed = Removed
    Unlimited = Unlimited
    None = None
    Requests = {r1, r2}
    Staff = {u2}
    GrantItems = {i1}
    CardAmounts = {1, 2}
    SiloAmount = 1
INVARIANT
    SiloPaysOnce
CHECK_DEADLOCK FALSE
