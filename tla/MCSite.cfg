SPECIFICATION FairSiteSpec
CONSTANTS
    A = A
    B = B
    C = C
    Things = {A, B}
    No = No
    Up = Up
    PanelOf <- SitePanels
    MaxCalls = 2
    Nobody = Nobody
    Backlog <- MCBacklog
    MaxReloads = 2
    MaxChanges = 1
    Clicks = {c1, c2}
    Nothing = Nothing
    Logins = {l1, l2}
    Form = Form
    NoState = NoState
    MaxLost = 2
    Accounts = {h1, h2}
    Primary = {h1}
    Own = {h1}
    NoAccount = NoAccount
    MaxFaults = 1
INVARIANTS
    PagesHold
    OneRecord
    WayBack
PROPERTIES
    PermissionsHold
CHECK_DEADLOCK FALSE
