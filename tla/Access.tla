------------------------------- MODULE Access -------------------------------
(* What the staff's pages offer, and what the backend lets whom do.  A page *)
(* is drawn for the role that its loader was told, and for the role that a  *)
(* user had when the panel of that user was loaded; every request is then   *)
(* judged by the role that Airtable holds by that time, and a ban or a      *)
(* change of role by that of the user it is about.                          *)
EXTENDS Naturals

CONSTANTS MaxChanges   \* bound: changes of a role by somebody else

ASSUME AccessAssumption == MaxChanges \in Nat

VARIABLES
    roles,        \* the Perms of me, of the staff, and of one user
    screen,       \* the page I have open, and the roles it was drawn for
    ask,          \* the request it has sent
    changes

accessVars == <<roles, screen, ask, changes>>

VALID_PERMS == {"User", "Helper", "Reviewer", "Fraud Reviewer", "Fulfiller",
                "Super Admin", "Banned"}
ELEVATED_PERMS == {"Fulfiller", "Super Admin"}
Untold == "untold"    \* nothing, or no answer, where a role would be

-----------------------------------------------------------------------------
(* The backend: who passes which guard.                                     *)

SuperAdminGuard == {"Super Admin"}
FulfillerGuard == {"Super Admin", "Fulfiller"}
FraudReviewerGuard == {"Super Admin", "Fraud Reviewer"}
ReviewerGuard == {"Super Admin", "Reviewer", "Fraud Reviewer", "Fulfiller"}

Guarded(guard, routes) == [r \in routes |-> guard]

(* Two tables as one.                                                       *)
f ++ g == [r \in DOMAIN f \cup DOMAIN g |-> IF r \in DOMAIN f THEN f[r] ELSE g[r]]

UserRoutes ==
    Guarded(FulfillerGuard, {"users", "users/:id", "users/:id/ban", "users/:id/perms"})
    ++ Guarded(ReviewerGuard, {"users/:id/watchlist", "users/:id/cool-builder"})
    ++ Guarded(SuperAdminGuard, {"users/:id/pipes", "users/:id/identity-override",
                                 "users/:id/submission-extension"})

EventRoutes ==
    Guarded(SuperAdminGuard, {"users/:id/unrestricted-access", "users/:id/impersonate",
                              "users/:id/attend-invite", "events", "events/:id"})
    ++ Guarded(FulfillerGuard, {"stats/dau", "stats/signups", "stats/funnel"})

StatsRoutes ==
    Guarded(SuperAdminGuard, {"stats/unreviewed-hours", "stats/pipes", "stats/pipes/holders",
                              "settings/resubmission-paused"})

ProjectRoutes ==
    Guarded(ReviewerGuard, {"projects", "projects/hours", "projects/my-claims",
                            "projects/:id/hackatime", "projects/:id/claim",
                            "projects/:id/review"})

EvidenceRoutes ==
    Guarded(ReviewerGuard, {"projects/:id/reviews", "projects/:id/devlogs",
                            "projects/:id/devlogs/export", "devlogs/:id/review",
                            "projects/:id/lookout", "lookout-sessions/:id/mirror",
                            "review-leaderboard"})

AuditRoutes ==
    Guarded(FraudReviewerGuard, {"audit/queue", "audit/:id/iframe-context", "audit/:id/decision",
                                 "fraud/queue", "fraud/:id/clear", "fraud/:id/ban"})
    ++ Guarded(SuperAdminGuard, {"audit/load-unreviewed", "golden/backfill-cool-builders",
                                 "shop/notify-closing", "shop/sync-closing-email",
                                 "projects/:id/resync-airtable"})

ShopRoutes ==
    Guarded(FulfillerGuard, {"news", "news/:id", "shop", "shop/reorder", "shop/:id",
                             "shop/:id/buyers"})

OrderRoutes ==
    Guarded(FulfillerGuard, {"orders", "orders/:id/detail", "orders/:id/fulfill",
                             "orders/:id/refund", "orders/:id/merge", "orders/:id/message"})

GrantRoutes ==
    Guarded(SuperAdminGuard, {"hcb/status", "hcb/connect", "hcb/card-grant/bulk"})
    ++ Guarded(FulfillerGuard, {"silo/status", "silo/grant"})

Guards == UserRoutes ++ EventRoutes ++ StatsRoutes ++ ProjectRoutes ++ EvidenceRoutes
            ++ AuditRoutes ++ ShopRoutes ++ OrderRoutes ++ GrantRoutes

(* checkScope, which the loaders of the pages ask.                          *)
Scope == [admin |-> ReviewerGuard, audit |-> FraudReviewerGuard, fraud |-> FraudReviewerGuard]

(* What some route does only for some of those that pass its guard.         *)
BanNeeds == Guarded(FraudReviewerGuard, {"projects/:id/review"})
            ++ Guarded(SuperAdminGuard, {"audit/:id/decision"})

Bans == {"users/:id/ban", "projects/:id/review", "audit/:id/decision", "fraud/:id/ban"}

-----------------------------------------------------------------------------
(* The pages: what each part of one asks or offers, to whom.                *)

isSuperAdmin(role) == role = "Super Admin"
canBan(role) == role \in {"Super Admin", "Fraud Reviewer"}
canFulfill(role) == role \in {"Super Admin", "Fulfiller"}

Only(condition, routes) == IF condition THEN routes ELSE {}
Plain(routes) == routes \X {Untold}

canActOnTarget(role, target) == isSuperAdmin(role) \/ target \notin ELEVATED_PERMS
assignablePerms(role) ==
    IF isSuperAdmin(role) THEN VALID_PERMS ELSE VALID_PERMS \ ELEVATED_PERMS

UsersTab(role) == Plain(Only(canFulfill(role), {"users", "users/:id"}))

(* The actions on the user selected, once the panel is loaded; to the ban   *)
(* and the roles, the answer on that user's own role.                       *)
UserActions(role, target) ==
    Plain(Only(isSuperAdmin(role), {"users/:id/attend-invite", "users/:id/submission-extension",
                                    "users/:id/unrestricted-access", "users/:id/pipes",
                                    "users/:id/identity-override"})
          \cup Only(isSuperAdmin(role) /\ target # "Banned", {"users/:id/impersonate"}))
    \cup (IF canActOnTarget(role, target)
          THEN {"users/:id/perms"} \X (assignablePerms(role) \ {target})
                \cup ({"users/:id/ban"} \X ({"Banned"} \ {target}))
          ELSE {})

ShopTab(role) == Plain(Only(canFulfill(role),
    {"news", "news/:id", "shop", "shop/reorder", "shop/:id", "shop/:id/buyers"}))

StatsTab(role) ==
    Plain(Only(canFulfill(role), {"stats/dau", "stats/signups", "stats/funnel"})
          \cup Only(isSuperAdmin(role), {"stats/unreviewed-hours", "stats/pipes",
                "stats/pipes/holders", "settings/resubmission-paused",
                "golden/backfill-cool-builders", "shop/notify-closing",
                "shop/sync-closing-email"}))

EventsTab(role) == Plain(Only(isSuperAdmin(role), {"events", "events/:id"}))

(* The tab asks for the state of HCB whoever opens it, and shows nothing if *)
(* it is refused.                                                           *)
Quiet == {"hcb/status"}

FulfillmentTab(role) ==
    Plain(Only(canFulfill(role), {"orders", "orders/:id/detail", "orders/:id/fulfill",
                                  "orders/:id/refund", "orders/:id/merge",
                                  "orders/:id/message", "silo/status", "hcb/status"})
          \cup Only(isSuperAdmin(role), {"hcb/card-grant/bulk"}))

ProjectsTab(role) ==
    Plain({"projects", "projects/hours", "projects/my-claims", "projects/:id/hackatime",
           "projects/:id/claim", "projects/:id/reviews", "projects/:id/devlogs",
           "projects/:id/devlogs/export", "devlogs/:id/review", "projects/:id/lookout",
           "lookout-sessions/:id/mirror", "review-leaderboard", "users/:id/watchlist",
           "users/:id/cool-builder", "projects/:id/review"}
          \cup Only(isSuperAdmin(role), {"audit/:id/iframe-context"}))

ReviewBan(role) == IF canBan(role) THEN {<<"projects/:id/review", "Banned">>} ELSE {}

AuditPage(role) ==
    Plain({"audit/queue", "audit/:id/iframe-context", "projects/:id/hackatime",
           "users/:id/watchlist", "users/:id/cool-builder", "audit/:id/decision"}
          \cup Only(isSuperAdmin(role), {"audit/load-unreviewed"}))
    \cup (IF isSuperAdmin(role) THEN {<<"audit/:id/decision", "Banned">>} ELSE {})

FraudPage ==
    Plain({"fraud/queue", "audit/:id/iframe-context", "projects/:id/hackatime", "fraud/:id/clear"})
    \cup {<<"fraud/:id/ban", "Banned">>}

Offered(p) ==
    CASE p.at = "admin" ->
            UsersTab(p.role) \cup ShopTab(p.role) \cup StatsTab(p.role) \cup EventsTab(p.role)
            \cup FulfillmentTab(p.role) \cup ProjectsTab(p.role) \cup ReviewBan(p.role)
            \cup (IF p.selected THEN UserActions(p.role, p.target) ELSE {})
      [] p.at = "audit" -> AuditPage(p.role)
      [] p.at = "fraud" -> FraudPage
      [] OTHER -> {}

-----------------------------------------------------------------------------

Closed == [at |-> "none", role |-> Untold, selected |-> FALSE, target |-> Untold, moved |-> {}]
NoAsk == [stage |-> "none", route |-> Untold, to |-> Untold, as |-> Untold, blind |-> FALSE,
          moved |-> {}, late |-> FALSE]

AccessTypeOK ==
    /\ roles \in [{"me", "user"} -> VALID_PERMS]
    /\ screen.at \in {"none", "admin", "audit", "fraud"}
    /\ screen.selected => canFulfill(screen.role)
    /\ ask.stage \in {"none", "sent", "passed", "lookup", "write", "refused"}
    /\ ask.stage \in {"passed", "lookup", "write"} => ask.as \in ReviewerGuard
    /\ ask.moved \cup screen.moved \subseteq {"me", "user"}
    /\ changes \in 0 .. MaxChanges

AccessInit ==
    /\ roles \in [{"me", "user"} -> VALID_PERMS]
    /\ screen = Closed /\ ask = NoAsk /\ changes = 0

(* A loader: the role that checkScope answers, or the door.                 *)
Open(at) ==
    /\ ask = NoAsk
    /\ screen' = IF roles["me"] \in Scope[at] THEN [Closed EXCEPT !.at = at, !.role = roles["me"]]
               ELSE Closed
    /\ UNCHANGED <<roles, ask, changes>>

(* selectUser; getUser swallows what becomes of the lookup of the role.     *)
selectUser ==
    /\ screen.at = "admin" /\ canFulfill(screen.role) /\ ask = NoAsk
    /\ roles["me"] \in FulfillerGuard
    /\ \E seen \in {roles["user"], Untold} :
          screen' = [screen EXCEPT !.selected = TRUE, !.target = seen, !.moved = @ \ {"user"}]
    /\ UNCHANGED <<roles, ask, changes>>

AskFor ==
    /\ ask = NoAsk
    /\ \E offer \in Offered(screen) :
          ask' = [NoAsk EXCEPT !.stage = "sent", !.route = offer[1], !.to = offer[2],
                               !.moved = screen.moved,
                               !.blind = ~screen.selected \/ screen.target = Untold]
    /\ UNCHANGED <<roles, screen, changes>>

(* The guard of the route.                                                  *)
Guard ==
    /\ ask.stage = "sent"
    /\ ask' = IF roles["me"] \in Guards[ask.route]
              THEN [ask EXCEPT !.stage = "passed", !.as = roles["me"]]
              ELSE [ask EXCEPT !.stage = "refused"]
    /\ UNCHANGED <<roles, screen, changes>>

(* The handler; most do what no role is about.                              *)
HandleAsk ==
    /\ ask.stage = "passed"
    /\ ask' = CASE ask.to = Untold -> NoAsk
                [] ask.to = "Banned" /\ ask.route \in DOMAIN BanNeeds
                    /\ ask.as \notin BanNeeds[ask.route] -> [ask EXCEPT !.stage = "refused"]
                [] ask.to # "Banned" /\ ask.to \in ELEVATED_PERMS /\ ~isSuperAdmin(ask.as) ->
                    [ask EXCEPT !.stage = "refused"]
                [] OTHER -> [ask EXCEPT !.stage = IF isSuperAdmin(ask.as) THEN "write" ELSE "lookup"]
    /\ UNCHANGED <<roles, screen, changes>>

WriteAnyway ==                                      \* mutant: the user's role not looked at
    /\ ask.stage = "lookup"
    /\ ask' = [ask EXCEPT !.stage = "write"]
    /\ UNCHANGED <<roles, screen, changes>>

(* banUser and updatePerms, asked by others than a Super Admin.             *)
LookUpTarget ==
    /\ ask.stage = "lookup"
    /\ ask' = [ask EXCEPT !.stage = IF roles["user"] \in ELEVATED_PERMS THEN "refused" ELSE "write"]
    /\ UNCHANGED <<roles, screen, changes>>

WritePerms ==
    /\ ask.stage = "write"
    /\ roles' = [roles EXCEPT !["user"] = ask.to]
    /\ screen' = [screen EXCEPT !.moved = @ \cup {"user"}]
    /\ ask' = NoAsk
    /\ UNCHANGED changes

(* Airtable does not answer: 502.  Or the page has seen the refusal.        *)
Done ==
    /\ ask.stage \in {"sent", "lookup", "write", "refused"}
    /\ ask' = NoAsk
    /\ UNCHANGED <<roles, screen, changes>>

(* Somebody else changes a role.                                            *)
ChangeRole(who) ==
    /\ changes < MaxChanges /\ changes' = changes + 1
    /\ \E role \in VALID_PERMS \ {roles[who]} : roles' = [roles EXCEPT ![who] = role]
    /\ screen' = [screen EXCEPT !.moved = IF screen = Closed THEN @ ELSE @ \cup {who}]
    /\ ask' = IF ask = NoAsk THEN ask
              ELSE [ask EXCEPT !.moved = @ \cup {who},
                               !.late = @ \/ (who = "user" /\ ask.stage = "write")]

AccessNext ==
    \/ \E at \in DOMAIN Scope : Open(at)
    \/ selectUser \/ AskFor \/ Guard \/ HandleAsk \/ LookUpTarget \/ WritePerms \/ Done
    \/ \E who \in {"me", "user"} : ChangeRole(who)

AccessSpec == AccessInit /\ [][AccessNext]_accessVars

-----------------------------------------------------------------------------

(* "mirrors the backend guard": nobody is refused what a page offered them, *)
(* unless a role it was drawn for has changed since; or the page could not  *)
(* know the role of the user to be banned, because it was not loaded or is  *)
(* not shown; or it asks where a refusal does not show.                     *)
OfferedIsAllowed ==
    ask.stage = "refused" =>
        \/ ask.moved # {}
        \/ ask.blind /\ ask.route \in Bans \cup {"users/:id/perms"}
             /\ roles["user"] \in ELEVATED_PERMS
        \/ ask.route \in Quiet

(* updatePerms and banUser: only a Super Admin gives the role of Fulfiller  *)
(* or Super Admin, and nobody else takes it away, unless it was given while *)
(* the request was between its lookup and its write.                        *)
ElevatedBySuperAdmins == [][WritePerms /\ ~isSuperAdmin(ask.as) =>
    /\ ask.to \notin ELEVATED_PERMS
    /\ roles["user"] \in ELEVATED_PERMS => ask.late]_accessVars

(* The guards and the pages agree, and the guards hold.                     *)
GuardsAgree == []OfferedIsAllowed /\ ElevatedBySuperAdmins
=============================================================================
