---------------------------- MODULE Impersonation ----------------------------
(* A Super Admin's browser that acts, for an hour, as one of the users: the *)
(* cookies, the requests that carry a copy of them and hand back what they  *)
(* changed, in any order.  The user acted for is no Super Admin.            *)
CONSTANTS
    Clicks,       \* requests open at once
    Nothing       \* no cookie

(* Tokens: the admin's own; "lent", which names the user and the admin; and *)
(* "bare", which names the user alone.                                      *)
CookieNames == {"auth_token", "refresh_token", "admin_auth_token", "admin_refresh_token",
          "impersonating"}
Contents == {"admin", "lent", "bare", "session", "1"}
Askings == {"impersonate", "profile", "proxy", "end", "logout"}

ASSUME ImpersonationAssumption == Nothing \notin Contents \cup {"kept"}

VARIABLES
    cookies,      \* the browser's
    click,        \* each request: what it asks, the cookies it carries, those it changes
    unrestored    \* history: an impersonation ended with no access token to restore

impVars == <<cookies, click, unrestored>>

(* What an answer does to the cookies: sets, removes or keeps each.         *)
Empty == [n \in CookieNames |-> Nothing]
Kept == [n \in CookieNames |-> "kept"]
Removed(names) == [n \in CookieNames |-> IF n \in names THEN Nothing ELSE "kept"]
Over(sets, held) == [n \in CookieNames |-> IF sets[n] = "kept" THEN held[n] ELSE sets[n]]

NoClick == [stage |-> "none", asks |-> "none", carries |-> Empty, sets |-> Kept]

ImpersonationTypeOK ==
    /\ cookies \in [CookieNames -> Contents \cup {Nothing}]
    /\ unrestored \in BOOLEAN
    /\ click \in [Clicks -> [stage: {"none", "sent", "back"}, asks: Askings \cup {"none"},
                             carries: [CookieNames -> Contents \cup {Nothing}],
                             sets: [CookieNames -> Contents \cup {Nothing, "kept"}]]]

ImpersonationInit ==
    /\ cookies = Empty
    /\ click = [c \in Clicks |-> NoClick]
    /\ unrestored = FALSE

(* What a callback and a refresh set.                                       *)
Fresh == [Kept EXCEPT !.auth_token = "admin", !.refresh_token = "session"]

(* The OAuth callback: the admin signs in.                                  *)
SignIn ==
    /\ cookies' = Over(Fresh, cookies)
    /\ UNCHANGED <<click, unrestored>>

(* The cookies that a handler looks at, as they are when it is asked.       *)
LooksAt(what) ==
    CASE what = "end" -> {"admin_auth_token", "admin_refresh_token"}
      [] what = "logout" -> {}
      [] OTHER -> {"auth_token", "refresh_token"}

Ask(c, what) ==
    /\ click[c] = NoClick
    /\ click' = [click EXCEPT ![c] = [stage |-> "sent", asks |-> what, sets |-> Kept, carries |->
            [n \in CookieNames |-> IF n \in LooksAt(what) THEN cookies[n] ELSE Nothing]]]
    /\ UNCHANGED <<cookies, unrestored>>

-----------------------------------------------------------------------------
(* The frontend's server, at one request.                                   *)

(* tryRefreshToken, with the session alive or not.                          *)
Refreshings(held) ==
    IF held.refresh_token = Nothing THEN {Removed({"auth_token"})}
    ELSE {Fresh, Removed({"auth_token", "refresh_token"})}

(* proxyWithRefresh, up to its last call of the backend: what it has set,   *)
(* after no refresh or one; the token may have run out on the way.          *)
Proxyings(held) == Refreshings(held) \cup (IF held.auth_token = Nothing THEN {} ELSE {Kept})

(* The token of a profile edit leaves the impersonator out.                 *)
Edited(token) == IF token = "lent" THEN "bare" ELSE token

(* A cookie that is not there is not copied.                                *)
Copied(value) == IF value = Nothing THEN "kept" ELSE value

StashAfterwards(held, seen) ==                      \* mutant: stashed after proxying
    [Kept EXCEPT !.admin_auth_token = "lent", !.admin_refresh_token = Copied(seen.refresh_token)]

(* Stash the admin's current tokens BEFORE proxying.                        *)
Stash(held, seen) ==
    [Kept EXCEPT !.admin_auth_token = Copied(held.auth_token),
                 !.admin_refresh_token = Copied(held.refresh_token)]

(* The guard lets the admin pass, and nobody else.                          *)
Impersonated(held, sets) ==
    LET seen == Over(sets, held) IN
    IF seen.auth_token # "admin" THEN sets
    ELSE [Stash(held, seen) EXCEPT !.auth_token = "lent", !.refresh_token = Nothing, !.impersonating = "1"]

Profiled(held, sets) == [sets EXCEPT !.auth_token = Edited(Over(sets, held).auth_token)]

Restored(held) ==
    IF held.admin_auth_token = Nothing /\ held.admin_refresh_token = Nothing THEN Kept
    ELSE [Removed({"admin_auth_token", "admin_refresh_token", "impersonating"}) EXCEPT
            !.auth_token = Copied(held.admin_auth_token), !.refresh_token = Copied(held.admin_refresh_token)]

Outcomes(asks, held) ==
    CASE asks = "impersonate" -> {Impersonated(held, s) : s \in Proxyings(held)} \cup Proxyings(held)
      [] asks = "profile" -> {Profiled(held, s) : s \in Proxyings(held)}
      [] asks = "proxy" -> Proxyings(held)
      [] asks = "end" -> {Restored(held)}
      [] asks = "logout" -> {Removed({"auth_token", "refresh_token"})}

Handle(c) ==
    /\ click[c].stage = "sent"
    /\ \E sets \in Outcomes(click[c].asks, click[c].carries) :
          click' = [click EXCEPT ![c].stage = "back", ![c].carries = Empty, ![c].sets = sets]
    /\ UNCHANGED <<cookies, unrestored>>

Ends(sets) == sets.impersonating = Nothing

(* Set-Cookie; or the answer is lost.                                       *)
Receive(c) ==
    /\ click[c].stage = "back"
    /\ cookies' = Over(click[c].sets, cookies)
    /\ unrestored' = (unrestored \/ (Ends(click[c].sets) /\ click[c].sets.auth_token = "kept"))
    /\ click' = [click EXCEPT ![c] = NoClick]

Forget(c) ==
    /\ click[c] # NoClick
    /\ click' = [click EXCEPT ![c] = NoClick]
    /\ UNCHANGED <<cookies, unrestored>>

(* An hour, which no request takes: the three cookies that one answer has   *)
(* set go together.                                                         *)
Elapse ==
    /\ \A c \in Clicks : click[c] = NoClick
    /\ \E names \in {IF cookies.auth_token = "lent" \/ cookies.impersonating = "1"
                      THEN {"impersonating", "admin_auth_token"}
                           \cup (IF cookies.auth_token = "lent" THEN {"auth_token"} ELSE {})
                      ELSE {"auth_token"}} : cookies' = Over(Removed(names), cookies)
    /\ UNCHANGED <<click, unrestored>>

ImpersonationNext ==
    \/ SignIn \/ Elapse
    \/ \E c \in Clicks : Handle(c) \/ Receive(c) \/ Forget(c) \/ \E what \in Askings : Ask(c, what)

ImpersonationSpec == ImpersonationInit /\ [][ImpersonationNext]_impVars

-----------------------------------------------------------------------------

(* impersonate and end-impersonate: whoever acts by a lent token sees the   *)
(* button that ends it, and the button gives the admin's own session back;  *)
(* whatever else the browser asked, and in whichever order the answers came.*)
(* The exception is an admin whose access token had run out when it began:  *)
(* none is stashed, and the lent one outlives the button.                   *)
WayBack ==
    /\ cookies.auth_token = "lent" => cookies.impersonating = "1" \/ unrestored
    /\ cookies.impersonating = "1" =>
        cookies.admin_auth_token = "admin" \/ cookies.admin_refresh_token = "session"
=============================================================================
