SPECIFICATION SessionsSpec
CONSTANTS
    Requests = {r1, r2}
    Tokens = {t1}
    Kinds = {"proxy", "profile", "page", "logout"}
    MaxOutages = 1
    None = None
INVARIANTS
    LogoutIsFinal
