-------------------------------- MODULE Bans --------------------------------
(* Banning a builder: AdminService.banUser, statement by statement, and the *)
(* hourly sweep for bans that staff enter in Airtable.  Meanwhile the       *)
(* builder, whose access token lives for up to an hour, the fulfillers and  *)
(* the reviewers go on; their requests are single steps here.               *)
EXTENDS Naturals, FiniteSets

CONSTANTS
    BanProjects, BanOrders   \* the builder's

QueueStatuses == {"unreviewed", "fraud_pending"}
BanProjectStatuses == QueueStatuses \cup {"unshipped", "approved", "rejected"}
BanStages == {"idle", "perms", "sessions", "list", "reject", "orders", "refund", "log"}

VARIABLES
    banned,        \* Airtable: Perms is 'Banned'
    token,         \* the builder holds a session or a live access token
    queue,         \* status of each project
    bought,        \* status of each order; "none" before it is placed
    provided,      \* orders with a provider's grant id
    ban,           \* banUser: its stage, the rows it listed and has still to do
    sweep          \* sweepBannedUsersQueuedProjects

banVars == <<banned, token, queue, bought, provided, ban, sweep>>

NoBan == [stage |-> "idle", left |-> {}, listed |-> {}]
NoSweep == [stage |-> "idle", left |-> {}]

BansTypeOK ==
    /\ banned \in BOOLEAN /\ token \in BOOLEAN
    /\ queue \in [BanProjects -> BanProjectStatuses]
    /\ bought \in [BanOrders -> {"none", "pending", "fulfilled", "cancelled"}]
    /\ provided \subseteq {o \in BanOrders : bought[o] # "none"}
    /\ ban.stage \in BanStages
    /\ ban.left \subseteq BanProjects \cup BanOrders
    /\ ban.listed \subseteq BanOrders
    /\ sweep.stage \in {"idle", "perms", "reject"} /\ sweep.left \subseteq BanProjects

BansInit ==
    /\ banned = FALSE /\ token = TRUE
    /\ queue = [p \in BanProjects |-> "unshipped"]
    /\ bought = [o \in BanOrders |-> "none"]
    /\ provided = {}
    /\ ban = NoBan /\ sweep = NoSweep

InQueue == {p \in BanProjects : queue[p] \in QueueStatuses}

-----------------------------------------------------------------------------
(* Everybody else.                                                          *)

Move(p, from, to) ==
    /\ queue[p] \in from
    /\ queue' = [queue EXCEPT ![p] = to]
    /\ UNCHANGED <<banned, token, bought, provided, ban, sweep>>

ShipProject(p)   == token /\ Move(p, {"unshipped", "approved"}, "unreviewed")
PassProject(p)   == Move(p, {"unshipped", "unreviewed", "rejected"}, "fraud_pending")
ReturnProject(p) == Move(p, {"fraud_pending"}, "unreviewed")
ApproveProject(p) == Move(p, {"fraud_pending"}, "approved")

SetOrder(o, from, to) ==
    /\ bought[o] \in from
    /\ bought' = [bought EXCEPT ![o] = to]
    /\ UNCHANGED <<banned, token, queue, provided, ban, sweep>>

Buy(o)          == token /\ SetOrder(o, {"none"}, "pending")
FulfillBought(o) == SetOrder(o, {"pending"}, "fulfilled")
StaffRefund(o)  == o \notin provided /\ SetOrder(o, {"pending", "fulfilled"}, "cancelled")
TakeBack(o)     == token /\ o \notin provided /\ SetOrder(o, {"pending"}, "cancelled")

Provide(o) ==
    /\ bought[o] # "none" /\ o \notin provided
    /\ provided' = provided \cup {o}
    /\ UNCHANGED <<banned, token, queue, bought, ban, sweep>>

(* A session renewed while the ban is not in Airtable; the last token ends. *)
SignIn ==
    /\ ~token /\ ~banned
    /\ token' = TRUE
    /\ UNCHANGED <<banned, queue, bought, provided, ban, sweep>>
TokenEnds ==
    /\ token /\ banned
    /\ token' = FALSE
    /\ UNCHANGED <<banned, queue, bought, provided, ban, sweep>>

(* Perms edited by hand in Airtable, both ways.                             *)
AirtableBan(b) ==
    /\ banned # b /\ banned' = b
    /\ UNCHANGED <<token, queue, bought, provided, ban, sweep>>

-----------------------------------------------------------------------------
(* banUser.                                                                 *)

Go(stage, left, listed) == ban' = [stage |-> stage, left |-> left, listed |-> listed]

StartBan ==
    /\ ban = NoBan
    /\ Go("perms", {}, {})
    /\ UNCHANGED <<banned, token, queue, bought, provided, sweep>>

UpdatePerms ==
    /\ ban.stage = "perms"
    /\ banned' = TRUE
    /\ Go("sessions", {}, {})
    /\ UNCHANGED <<token, queue, bought, provided, sweep>>

(* Perms not written: the requester may not, Airtable fails, no record; or  *)
(* the process dies.                                                        *)
BanDies ==
    /\ ban # NoBan
    /\ ban' = NoBan
    /\ UNCHANGED <<banned, token, queue, bought, provided, sweep>>

DeleteSessions ==
    /\ ban.stage = "sessions"
    /\ token' \in {token, FALSE}
    /\ Go("list", {}, {})
    /\ UNCHANGED <<banned, queue, bought, provided, sweep>>

ListQueued ==
    /\ ban.stage = "list"
    /\ Go("reject", InQueue, {})
    /\ UNCHANGED <<banned, token, queue, bought, provided, sweep>>

RejectNext ==
    /\ ban.stage = "reject"
    /\ IF ban.left = {} THEN Go("orders", {}, {}) /\ UNCHANGED queue
       ELSE \E p \in ban.left :
            /\ queue' = [queue EXCEPT ![p] = "rejected"]
            /\ Go("reject", ban.left \ {p}, {})
    /\ UNCHANGED <<banned, token, bought, provided, sweep>>

ListPending ==
    LET pending == {o \in BanOrders : bought[o] = "pending" /\ o \notin provided} IN
    /\ ban.stage = "orders"
    /\ Go("refund", pending, pending)
    /\ UNCHANGED <<banned, token, queue, bought, provided, sweep>>

Refundable(o) == bought[o] # "cancelled" /\ o \notin provided

RefundOne ==                                        \* mutant: goes on after the first
    /\ ban.stage = "refund" /\ ban.left # {}
    /\ \E o \in ban.left :
        /\ Refundable(o)
        /\ bought' = [bought EXCEPT ![o] = "cancelled"]
        /\ Go("log", {}, ban.listed)
    /\ UNCHANGED <<banned, token, queue, provided, sweep>>

(* refundOrder without requirePending; where it throws, the ban ends.       *)
RefundNext ==
    /\ ban.stage = "refund" /\ ban.left # {}
    /\ \E o \in ban.left :
        IF Refundable(o)
        THEN /\ bought' = [bought EXCEPT ![o] = "cancelled"]
             /\ Go("refund", ban.left \ {o}, ban.listed)
        ELSE ban' = NoBan /\ UNCHANGED bought
    /\ UNCHANGED <<banned, token, queue, provided, sweep>>

LogBan ==
    /\ ban.stage = "log" \/ (ban.stage = "refund" /\ ban.left = {})
    /\ ban' = NoBan
    /\ UNCHANGED <<banned, token, queue, bought, provided, sweep>>

-----------------------------------------------------------------------------
(* sweepBannedUsersQueuedProjects, every hour and at boot.                  *)

StartSweep ==
    /\ sweep = NoSweep /\ InQueue # {}
    /\ sweep' = [NoSweep EXCEPT !.stage = "perms"]
    /\ UNCHANGED <<banned, token, queue, bought, provided, ban>>

LookUpPerms ==
    /\ sweep.stage = "perms"
    /\ sweep' = IF banned THEN [stage |-> "reject", left |-> InQueue] ELSE NoSweep
    /\ UNCHANGED <<banned, token, queue, bought, provided, ban>>

(* The lookup fails, or the process dies: the next sweep will retry.        *)
SweepFails ==
    /\ sweep # NoSweep
    /\ sweep' = NoSweep
    /\ UNCHANGED <<banned, token, queue, bought, provided, ban>>

SweepNext ==
    /\ sweep.stage = "reject"
    /\ IF sweep.left = {} THEN sweep' = NoSweep /\ UNCHANGED queue
       ELSE \E p \in sweep.left :
            /\ queue' = [queue EXCEPT ![p] = "rejected"]
            /\ sweep' = [sweep EXCEPT !.left = @ \ {p}]
    /\ UNCHANGED <<banned, token, bought, provided, ban>>

-----------------------------------------------------------------------------
ReviewerMoves == \E p \in BanProjects :
    PassProject(p) \/ ReturnProject(p) \/ ApproveProject(p)

BansNext ==
    \/ \E p \in BanProjects : ShipProject(p)
    \/ ReviewerMoves
    \/ \E o \in BanOrders : Buy(o) \/ FulfillBought(o) \/ StaffRefund(o) \/ TakeBack(o) \/ Provide(o)
    \/ SignIn \/ TokenEnds
    \/ \E b \in BOOLEAN : AirtableBan(b)
    \/ StartBan \/ UpdatePerms \/ BanDies \/ DeleteSessions
    \/ ListQueued \/ RejectNext \/ ListPending \/ RefundNext \/ LogBan
    \/ StartSweep \/ LookUpPerms \/ SweepFails \/ SweepNext

BansSpec == BansInit /\ [][BansNext]_banVars

(* The cron keeps coming, and lookups do not fail for ever.                 *)
BansFairness ==
    /\ WF_banVars(StartSweep) /\ SF_banVars(LookUpPerms)
    /\ SF_banVars(SweepNext) /\ WF_banVars(TokenEnds)

-----------------------------------------------------------------------------
(* Properties.                                                              *)

(* banUser: when it reports success, no order it listed as pending is left  *)
(* pending, whatever buyers and fulfillers did meanwhile.                   *)
BanClearsOrders == [][LogBan =>
    \A o \in ban.listed : bought[o] = "cancelled"]_banVars

(* sweepBannedUsersQueuedProjects: a ban that stands, entered either way,   *)
(* empties the queues of the builder's work, though bans and sweeps may die *)
(* half-way; once the reviewers have left the work alone.                   *)
BanEmptiesQueue ==
    (<>[]banned /\ <>[][~ReviewerMoves]_banVars) => <>[](InQueue = {})

(* A ban clears up: the orders at once, the queues in the end.              *)
BanClearsUp == BanClearsOrders /\ BanEmptiesQueue
=============================================================================
