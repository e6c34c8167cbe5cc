------------------------------- MODULE Sidekick -------------------------------
(* Reviews that arrive from Sidekick, at one project.  A call names a ship, *)
(* while the review desk and the audit behind it take the newest; a call    *)
(* looks at the ship and the project first, then waits (for Hackatime, for  *)
(* Lapse, for Slack), and decides in one or two calls of the others.  These *)
(* are whole steps here, and everybody else's decisions too.  The project's *)
(* internal hours, summed like its hours, are left out: no decision is      *)
(* taken on them.                                                           *)
EXTENDS Integers, Sequences

CONSTANTS
    Calls,        \* calls of Sidekick at once
    Assigned,     \* hours assigned, which go to Airtable
    Entered,      \* hours entered in the panels, and those for Airtable:
                  \* either may be left out
    Turned,       \* verdicts against a ship: "changes_needed", "rejected"
    Overrides,    \* rewarded hours, if not those assigned
    MaxProjectHours,  \* bound: hours of the project
    MaxSubmissions,   \* bound: submissions
    MaxReviews,   \* bound: approving reviews of one submission
    Null

ASSUME SidekickAssumption ==
    /\ Assigned \subseteq Nat \ {0}
    /\ Entered \subseteq (Nat \cup {Null}) \X (Nat \cup {Null})
    /\ Overrides \subseteq (Nat \ {0}) \cup {Null}
    /\ Turned \subseteq {"changes_needed", "rejected"}
    /\ MaxProjectHours \in Nat /\ MaxSubmissions \in Nat /\ MaxReviews \in Nat
    /\ Null \notin Int

VARIABLES
    project,      \* its row
    ships,        \* its submissions, oldest first
    calls         \* what each call has read, and what it waits for

sidekickVars == <<project, ships, calls>>

MaybeHours == Int \cup {Null}

(* A ship, with the number of its approving reviews.  History: the hours of *)
(* the project before the first pass of this ship that awaits HQ, if one    *)
(* does, whose sums no stale row, edit of another ship or half an edit was  *)
(* saved over, and that did not leave the ship the hours of an earlier pass.*)
NewShip == [status |-> "unreviewed", hours |-> Null, internal |-> Null, reviews |-> 0,
            before |-> Null]
Free == [stage |-> "free", kind |-> Null, ship |-> 0, row |-> Null, project |-> Null,
         hours |-> Null, internal |-> Null, asked |-> Null, moved |-> FALSE]
Kinds == {"approve", "reject", "authorize", "deauthorize", "edit"}
OfShip == {"authorize", "edit"}       \* those that use the ship's row they read

SidekickTypeOK ==
    /\ project.status \in {"unshipped", "unreviewed", "fraud_pending", "approved"} \cup Turned
    /\ project.hours \in Int /\ project.pipes \in Nat
    /\ Len(ships) <= MaxSubmissions
    /\ \A s \in DOMAIN ships :
        /\ ships[s].status \in {"unreviewed", "approved"} \cup Turned
        /\ ships[s].hours \in MaybeHours /\ ships[s].internal \in MaybeHours
        /\ ships[s].reviews \in 0 .. MaxReviews
        /\ ships[s].before \in MaybeHours
    /\ \A c \in Calls :
        /\ calls[c].stage \in {"free", "project", "open", "review", "audit",
                               "saveProject", "saveShip"}
        /\ calls[c] # Free => calls[c].kind \in Kinds /\ calls[c].ship \in DOMAIN ships

SidekickInit ==
    /\ project = [status |-> "unshipped", hours |-> 0, pipes |-> 0]
    /\ ships = <<>>
    /\ calls = [c \in Calls |-> Free]

Or(x, default) == IF x = Null THEN default ELSE x           \* x ?? default
Less(a, b) == IF a > b THEN a - b ELSE 0                    \* Math.max(0, a - b)

(* The ships a decision takes: the newest unreviewed, or the newest; 0 for  *)
(* none.                                                                    *)
OpenShip ==
    LET open == {s \in DOMAIN ships : ships[s].status = "unreviewed"}
    IN IF open = {} THEN 0 ELSE CHOOSE s \in open : \A t \in open : t <= s
NewestShip == Len(ships)

(* Whoever has looked at the ships or the project has seen old rows.        *)
Overtaken == calls' = [c \in Calls |->
    IF calls[c] # Free THEN [calls[c] EXCEPT !.moved = TRUE] ELSE Free]
Leaves(c, call) == calls' = [d \in Calls |->
    CASE d = c -> call
      [] d # c /\ calls[d] # Free -> [calls[d] EXCEPT !.moved = TRUE]
      [] OTHER -> Free]
Ends(c) == Leaves(c, Free)
Goes(c, call) == calls' = [calls EXCEPT ![c] = call]

-----------------------------------------------------------------------------
(* The review desk and the audit.                                           *)

(* reviewProject with the hours of this ship, one more approval.  Hours not *)
(* given (Null) add nothing, and the ship keeps those it has.               *)
MayPass(hours) ==
    LET total == project.hours + Or(hours, 0) IN
    /\ project.status \notin {"approved", "fraud_pending"}
    /\ total > 0 /\ total >= project.pipes /\ total <= MaxProjectHours
    /\ OpenShip # 0 => ships[OpenShip].reviews < MaxReviews

(* A pass without hours leaves the ship those it has: of a pass that HQ     *)
(* returned, which took them off the project, or given with a verdict.      *)
LeavesHours(hours) == hours = Null /\ Or(ships[OpenShip].hours, 0) # 0

Pass(hours, internal) ==
    /\ MayPass(hours)
    /\ project' = [project EXCEPT !.status = "fraud_pending", !.hours = @ + Or(hours, 0)]
    /\ ships' = IF OpenShip = 0 THEN ships
                ELSE [ships EXCEPT ![OpenShip].hours = Or(hours, @),
                        ![OpenShip].internal = Or(internal, @),
                        ![OpenShip].reviews = @ + 1,
                        ![OpenShip].before = IF LeavesHours(hours) THEN Null ELSE project.hours]

(* ... and with a verdict that turns the ship down.                         *)
TurnDown(verdict, hours, internal) ==
    /\ project' = [project EXCEPT !.status = verdict,
            !.hours = IF project.status = "unreviewed" /\ project.pipes > 0 THEN @ ELSE 0,
            !.pipes = IF project.status = "approved" THEN 0 ELSE @]
    /\ ships' = IF OpenShip = 0 THEN ships
                ELSE [ships EXCEPT ![OpenShip].status = verdict, ![OpenShip].before = Null,
                        ![OpenShip].hours = Or(hours, @), ![OpenShip].internal = Or(internal, @)]

Doubtful == [s \in DOMAIN ships |-> [ships[s] EXCEPT !.before = Null]]
Settled(s) == [ships EXCEPT ![s].before = Null]

(* decide with 'approve'; hours are final.  Without an approving review of  *)
(* the ship, they must be given, and the justification be a long one.       *)
MayDecideApprove(hours) ==
    /\ project.status = "fraud_pending" /\ NewestShip # 0
    /\ ships[NewestShip].reviews = 0 => hours # Null
    /\ hours # Null => hours > 0 /\ hours >= project.pipes /\ hours <= MaxProjectHours
    /\ ships[NewestShip].reviews < MaxReviews

DecideApprove(hours, internal) ==
    LET final == Or(hours, project.hours) IN
    /\ MayDecideApprove(hours)
    /\ project' = [project EXCEPT !.status = "approved", !.hours = final,
                                  !.pipes = IF final > @ THEN final ELSE @]
    /\ ships' = [Settled(NewestShip) EXCEPT ![NewestShip].status = "approved",
                    ![NewestShip].reviews = @ + 1,
                    ![NewestShip].hours = IF hours = Null THEN @ ELSE hours,
                    ![NewestShip].internal = IF hours = Null THEN @ ELSE internal]

(* decide with 'rereview': the hours of the newest ship come off.           *)
DecideReturn ==
    /\ project.status = "fraud_pending"
    /\ LET ship == IF NewestShip = 0 THEN NewShip ELSE ships[NewestShip]
       IN project' = [project EXCEPT !.status = "unreviewed",
                !.hours = IF Or(ship.hours, 0) > 0 THEN Less(@, ship.hours) ELSE @]
    /\ ships' = IF NewestShip = 0 THEN ships
                ELSE [Settled(NewestShip) EXCEPT ![NewestShip].status = "unreviewed",
                        ![NewestShip].reviews = Less(@, 1)]

(* decide with 'reject' or 'hardReject'.                                    *)
DecideReject(verdict) ==
    /\ project.status = "fraud_pending"
    /\ project' = [project EXCEPT !.status = verdict, !.hours = 0]
    /\ ships' = IF NewestShip = 0 THEN ships
                ELSE [Settled(NewestShip) EXCEPT ![NewestShip].status = verdict,
                        ![NewestShip].hours = IF ships[NewestShip].status = verdict THEN @ ELSE 0,
                        ![NewestShip].internal = IF ships[NewestShip].status = verdict THEN @ ELSE 0]

-----------------------------------------------------------------------------
(* Everybody else: the builder, the admin panel, the audit panel.           *)

ShipAgain ==
    /\ project.status \in {"unshipped", "changes_needed", "approved"}
    /\ Len(ships) < MaxSubmissions
    /\ project' = [project EXCEPT !.status = "unreviewed"]
    /\ ships' = Append(ships, NewShip)

TakeBackShip ==
    /\ project.status = "unreviewed"
    /\ project' = [project EXCEPT !.status = "unshipped"]
    /\ UNCHANGED ships

(* loadUnreviewedIntoQueue.                                                 *)
LoadUnreviewed ==
    /\ project.status = "unreviewed"
    /\ project' = [project EXCEPT !.status = "fraud_pending"]
    /\ UNCHANGED ships

Panel ==
    /\ \/ ShipAgain \/ TakeBackShip \/ LoadUnreviewed \/ DecideReturn
       \/ \E e \in Entered :
            \/ Pass(e[1], e[2]) \/ DecideApprove(e[1], Or(e[2], e[1]))
            \/ \E verdict \in Turned : TurnDown(verdict, e[1], e[2])
       \/ \E verdict \in Turned : DecideReject(verdict)
    /\ Overtaken

-----------------------------------------------------------------------------
(* A call of Sidekick: it reads the ship, then the project.                 *)

ReadShip(c) ==
    /\ calls[c] = Free
    /\ \E kind \in Kinds, s \in DOMAIN ships :
        /\ kind = "edit" => ships[s].reviews > 0
        /\ Goes(c, [Free EXCEPT !.stage = "project", !.kind = kind, !.ship = s,
                                !.row = IF kind \in OfShip THEN ships[s] ELSE Null])
    /\ UNCHANGED <<project, ships>>

(* The final hours of the project: what it had without this ship, and what  *)
(* the call rewards the ship with.                                          *)
Totalled(call, hours) == project.hours - Or(call.row.hours, 0) + hours

AuthorizeReads(c) ==
    LET q == [calls[c] EXCEPT !.stage = "audit", !.row = Null] IN
    /\ \/ project.status # "fraud_pending" /\ Goes(c, Free)
       \/ project.status = "fraud_pending" /\ Goes(c, q)
       \/ /\ project.status = "fraud_pending" /\ q.kind = "authorize"
          /\ \E h \in Assigned, o \in Overrides :
                Goes(c, [q EXCEPT !.asked = Or(o, h), !.hours = Totalled(calls[c], Or(o, h)),
                                  !.internal = h])

(* The rows with the hours exchanged; an explicit override is kept.         *)
Exchanged(call, hours) ==
    LET old == Or(call.row.hours, 0)
        new == IF call.row.internal # Null /\ call.row.hours \notin {Null, call.row.internal}
               THEN old ELSE hours
    IN [call EXCEPT !.stage = "saveProject",
            !.project = [project EXCEPT !.hours = @ + new - old],
            !.row = [call.row EXCEPT !.hours = new, !.internal = hours]]

EditReads(c) ==
    LET q == calls[c]
        pending == project.status = "fraud_pending" /\ q.row.status = "unreviewed"
    IN
    \/ Goes(c, Free)
    \/ \E h \in Assigned \ {Or(q.row.internal, Or(q.row.hours, 0))} :
        /\ pending /\ Exchanged(q, h).project.hours \in 0 .. MaxProjectHours
        /\ Goes(c, Exchanged(q, h))

ReadProject(c) ==
    /\ calls[c].stage = "project"
    /\ \/ calls[c].kind \in {"approve", "reject"} /\ Goes(c, [calls[c] EXCEPT !.stage = "open"])
       \/ calls[c].kind \in {"authorize", "deauthorize"} /\ AuthorizeReads(c)
       \/ calls[c].kind = "edit" /\ EditReads(c)
    /\ UNCHANGED <<project, ships>>

AnyShip(c) ==                                       \* mutant: whichever ship is open
    /\ calls[c].stage = "open"
    /\ Goes(c, [calls[c] EXCEPT !.stage = "review", !.moved = FALSE])
    /\ UNCHANGED <<project, ships>>

(* requireOpenSubmission.                                                   *)
RequireOpenSubmission(c) ==
    /\ calls[c].stage = "open"
    /\ IF calls[c].ship = OpenShip
       THEN Goes(c, [calls[c] EXCEPT !.stage = "review", !.moved = FALSE])
       ELSE Goes(c, Free)
    /\ UNCHANGED <<project, ships>>

(* The justification is composed; then reviewProject.  HQ goes on to decide.*)
Reviews(c) ==
    LET q == calls[c] IN
    /\ q.stage = "review"
    /\ \/ q.kind = "reject" /\ (\E verdict \in Turned : TurnDown(verdict, Null, Null)) /\ Ends(c)
       \/ /\ q.kind = "approve" /\ \E h \in Assigned, o \in Overrides : Pass(Or(o, h), h)
          /\ Ends(c) \/ Leaves(c, [q EXCEPT !.stage = "audit"])

Audits(c) ==
    LET q == calls[c] IN
    /\ q.stage = "audit"
    /\ IF q.kind = "deauthorize" THEN DecideReturn ELSE DecideApprove(q.hours, q.internal)
    /\ Ends(c)

(* A refusal, a justification too short, a call that dies.                  *)
GiveUp(c) ==
    /\ calls[c] # Free
    /\ Goes(c, Free)
    /\ ships' = IF calls[c].stage = "saveShip" THEN Doubtful ELSE ships
    /\ UNCHANGED project

(* The rows are saved whole.                                                *)
SaveProject(c) ==
    /\ calls[c].stage = "saveProject"
    /\ project' = calls[c].project
    /\ ships' = IF calls[c].moved \/ calls[c].ship # NewestShip THEN Doubtful ELSE ships
    /\ Leaves(c, [calls[c] EXCEPT !.stage = "saveShip", !.project = Null])

SaveShip(c) ==
    LET q == calls[c] IN
    /\ q.stage = "saveShip"
    /\ ships' = [ships EXCEPT ![q.ship].status = q.row.status, ![q.ship].hours = q.row.hours,
                              ![q.ship].internal = q.row.internal,
                              ![q.ship].before = IF q.moved THEN Null ELSE @]
    /\ Ends(c)
    /\ UNCHANGED project

SidekickNext ==
    \/ Panel
    \/ \E c \in Calls :
        \/ ReadShip(c) \/ ReadProject(c) \/ RequireOpenSubmission(c)
        \/ Reviews(c) \/ Audits(c) \/ SaveProject(c) \/ SaveShip(c) \/ GiveUp(c)

SidekickSpec == SidekickInit /\ [][SidekickNext]_sidekickVars

-----------------------------------------------------------------------------

(* "So a decision never lands on a different submission than the reviewer   *)
(* saw": the first pass of a call is on the ship it named, unless somebody  *)
(* decided, shipped or withdrew after the check.                            *)
LandsOnNamedShip == [][\A c \in Calls :
    Reviews(c) /\ ~calls[c].moved => calls[c].ship = OpenShip]_sidekickVars

(* A first pass of the newest ship awaits HQ.                               *)
PassAwaits == NewestShip # 0 /\ ships[NewestShip].before # Null

(* "Replace this submission's delta with the authorizer's numbers on top of *)
(* the prior approved hours": an authorization that names the newest ship,  *)
(* with nothing decided since it looked and no edit between its two saves,  *)
(* leaves the hours the project had before that ship and those the          *)
(* authorizer assigned.                                                     *)
AuthorizedHours == [][\A c \in Calls :
    LET q == calls[c] IN
    Audits(c) /\ q.kind = "authorize" /\ q.hours # Null /\ ~q.moved /\ q.ship = NewestShip
            /\ PassAwaits /\ (\A d \in Calls : calls[d].stage # "saveShip") =>
        project'.hours = ships[NewestShip].before + q.asked]_sidekickVars

(* The hours of a ship that awaits HQ are part of the project's, whoever    *)
(* edits them, but for an edit that is between its two saves, and unless    *)
(* the pass gave none to a ship that still had some, which the project had  *)
(* not.                                                                     *)
HoursAddUp ==
    PassAwaits /\ (\A c \in Calls : calls[c].stage # "saveShip") =>
        project.hours = ships[NewestShip].before + Or(ships[NewestShip].hours, 0)

(* A decision sent from Sidekick is on what the reviewer saw, and pays what *)
(* the reviewer gave.                                                       *)
HoursStand == LandsOnNamedShip /\ AuthorizedHours /\ []HoursAddUp
=============================================================================
