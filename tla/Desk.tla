-------------------------------- MODULE Desk --------------------------------
(* One project under several hands at once.  The builder, first reviewers   *)
(* and auditors each read its row, check it, wait for other services and    *)
(* save it whole, then write what belongs to it: submission, pipes, review. *)
(* Review has the decisions with all their rules, one request at a time;    *)
(* here they overlap and die, and the rules are cut down to one kind of     *)
(* hours: full ones.                                                        *)
EXTENDS OneProcess, Integers, FiniteSets

CONSTANTS
    Builders,        \* requests the project's owner sends
    MaxDeskHours,    \* bound: hours of the project
    MaxSubmissions,  \* bound: submissions of the project
    Gone             \* the row deleted

DeskStatuses == {"unshipped", "unreviewed", "fraud_pending",
                 "changes_needed", "approved", "rejected"}
DeskRow == [status: DeskStatuses, hours: 0 .. MaxDeskHours, paid: 0 .. MaxDeskHours]

ASSUME DeskAssumption ==
    /\ Builders \subseteq Requests
    /\ MaxDeskHours \in Nat /\ MaxSubmissions \in Nat /\ Gone \notin DeskRow

VARIABLES
    proj,            \* the row
    newest,          \* its newest submission: the how-manieth, and whether undecided
    purse,           \* pipes the builder has for it
    hand,            \* requests: the row each one read, last saw and will save
    torn             \* history: a request read between two writes of another,
                     \* saved over a change it had not seen, or died half-way

deskVars == <<proj, newest, purse, hand, torn>>

BuilderKinds == {"edit", "ship", "withdraw", "resubmit", "delete"}
StaffKinds == {"pass", "changes_needed", "rejected", "approve", "return"}
Kinds == BuilderKinds \cup StaffKinds
Empty == [stage |-> "idle", kind |-> None, seen |-> None, row |-> None, sub |-> 0, due |-> 0,
          stale |-> FALSE]

DeskTypeOK ==
    /\ proj \in DeskRow \cup {Gone}
    /\ newest \in [n: 0 .. MaxSubmissions, open: BOOLEAN]
    /\ purse \in Int
    /\ hand \in [Requests ->
        [stage: {"idle", "read", "submit", "revoke", "amend", "close", "sum", "record"},
         kind: Kinds \cup {None}, seen: DeskRow \cup {Gone, None}, row: DeskRow \cup {None},
         sub: 0 .. MaxSubmissions, due: 0 .. 2 * MaxDeskHours,
         stale: BOOLEAN]]
    /\ torn \in BOOLEAN

DeskInit ==
    /\ proj = [status |-> "unshipped", hours |-> 0, paid |-> 0]
    /\ newest = [n |-> 0, open |-> FALSE] /\ purse = 0 /\ torn = FALSE
    /\ hand = [r \in Requests |-> Empty]

-----------------------------------------------------------------------------
(* What each kind of request finds acceptable, and makes of the row.        *)

Acceptable(kind) ==
    CASE kind = "edit"     -> DeskStatuses
      [] kind = "ship"     -> {"unshipped", "changes_needed"}
      [] kind = "withdraw" -> {"unreviewed"}
      [] kind = "resubmit" -> {"approved"}
      [] kind = "delete"   -> DeskStatuses \ {"approved", "rejected"}
      [] kind = "pass"     -> DeskStatuses \ {"approved", "fraud_pending"}
      [] kind \in {"changes_needed", "rejected"} -> DeskStatuses
      [] kind \in {"approve", "return"} -> {"fraud_pending"}

Outcomes(kind, row) ==
    CASE kind \in {"edit", "delete"}     -> {row}
      [] kind \in {"ship", "resubmit"}   -> {[row EXCEPT !.status = "unreviewed"]}
      [] kind = "withdraw"               -> {[row EXCEPT !.status = "unshipped"]}
      [] kind = "pass" ->
            {[row EXCEPT !.status = "fraud_pending", !.hours = h] :
                h \in {n \in {row.hours, row.hours + 1} :
                        n \in 1 .. MaxDeskHours /\ n >= row.paid}}
      [] kind \in {"changes_needed", "rejected"} -> {[row EXCEPT !.status = kind]}
      [] kind = "approve" ->
            {[row EXCEPT !.status = "approved", !.hours = h] : h \in row.paid .. MaxDeskHours}
      [] kind = "return" ->
            {[row EXCEPT !.status = "unreviewed", !.hours = h] : h \in 0 .. row.hours}

HalfWay == {r \in Requests : hand[r].stage \notin {"idle", "read"}}

(* A first review takes the newest undecided submission, an audit the       *)
(* newest there is.                                                         *)
SubmissionFor(kind) ==
    IF kind \in {"approve", "return"} \/ newest.open THEN newest.n ELSE 0

ReadAnyway(r, kind) ==                              \* mutant: transitions unchecked
    /\ hand[r] = Empty /\ proj # Gone
    /\ \E row \in Outcomes(kind, proj) :
        hand' = Turn(hand, r,
            [stage |-> "read", kind |-> kind, seen |-> proj, row |-> row,
             sub |-> SubmissionFor(kind), due |-> 0, stale |-> FALSE])
    /\ torn' = (torn \/ HalfWay # {})
    /\ UNCHANGED <<proj, newest, purse>>

ReadRow(r, kind) ==
    /\ hand[r] = Empty /\ proj # Gone
    /\ ~torn                    \* bound: nothing new starts after the first tear
    /\ proj.status \in Acceptable(kind)
    /\ \E row \in Outcomes(kind, proj) :
        hand' = Turn(hand, r,
            [stage |-> "read", kind |-> kind, seen |-> proj, row |-> row,
             sub |-> SubmissionFor(kind), due |-> 0, stale |-> FALSE])
    /\ torn' = (torn \/ HalfWay # {})
    /\ UNCHANGED <<proj, newest, purse>>

-----------------------------------------------------------------------------
(* save(project): every column that differs is written, and a row that is   *)
(* gone is inserted again.                                                  *)
Overtake(r, next) == hand' = [q \in Requests |->
    IF q = r THEN next
    ELSE IF hand[q] = Empty THEN Empty ELSE [hand[q] EXCEPT !.stale = TRUE]]

SaveRow(r, row, next) ==
    /\ proj' = row
    /\ torn' = (torn \/ (hand[r].stale /\ (row # proj \/ next # Empty)))
    /\ IF row = proj /\ next = Empty THEN hand' = Turn(hand, r, next) ELSE Overtake(r, next)

Done(r) == hand' = Turn(hand, r, Empty)

(* A check that fails after the read, or a call that throws.                *)
GiveUpRequest(r) ==
    /\ hand[r].stage = "read"
    /\ Done(r)
    /\ UNCHANGED <<proj, newest, purse, torn>>

NextStage(kind, seen) ==
    CASE kind \in {"edit", "withdraw"}   -> "idle"
      [] kind \in {"ship", "resubmit"}   -> "submit"
      [] kind = "pass"                   -> "idle"
      [] kind \in {"changes_needed", "rejected"} ->
            IF seen.status = "approved" /\ seen.paid > 0 THEN "revoke" ELSE "amend"
      [] kind \in {"approve", "return"}  -> "close"

(* The row a verdict amends after its first save.                           *)
Amended(x) ==
    IF x.kind \notin {"changes_needed", "rejected"} THEN x.row
    ELSE IF x.seen.status = "approved" THEN [x.row EXCEPT !.hours = 0, !.paid = 0]
    ELSE IF x.seen.status = "unreviewed" /\ x.seen.paid > 0 THEN x.row
    ELSE [x.row EXCEPT !.hours = 0]

(* The first save, and what the request goes on with.                       *)
Decided(x) ==
    IF NextStage(x.kind, x.seen) = "idle" THEN Empty
    ELSE [x EXCEPT !.stage = NextStage(x.kind, x.seen), !.row = Amended(x), !.seen = x.row]

SaveDecision(r) ==
    /\ hand[r].stage = "read" /\ hand[r].kind # "delete"
    /\ SaveRow(r, hand[r].row, Decided(hand[r]))
    /\ UNCHANGED <<newest, purse>>

(* ProjectsService.delete; submissions cascade.                             *)
RemoveRow(r) ==
    /\ hand[r].stage = "read" /\ hand[r].kind = "delete"
    /\ torn' = (torn \/ hand[r].stale)
    /\ proj' = Gone /\ newest' = [n |-> 0, open |-> FALSE]
    /\ Overtake(r, Empty)
    /\ UNCHANGED purse

(* The submission record of a ship; a foreign key refuses it for no row.    *)
InsertSubmission(r) ==
    /\ hand[r].stage = "submit"
    /\ newest.n < MaxSubmissions
    /\ newest' = IF proj = Gone THEN newest ELSE [n |-> newest.n + 1, open |-> TRUE]
    /\ Done(r)
    /\ UNCHANGED <<proj, purse, torn>>

(* reviewProject on an approved project: the decrement, then the save.      *)
RevokeTwice(r) ==                                   \* mutant: the record is not emptied
    /\ hand[r].stage = "revoke"
    /\ purse' = purse - proj.paid
    /\ hand' = [hand EXCEPT ![r].stage = "amend", ![r].row.paid = hand[r].seen.paid,
                            ![r].due = hand[r].seen.paid]
    /\ UNCHANGED <<proj, newest, torn>>

Revoke(r) ==
    /\ hand[r].stage = "revoke"
    /\ purse' = purse - hand[r].seen.paid
    /\ hand' = [hand EXCEPT ![r].stage = "amend", ![r].due = hand[r].seen.paid]
    /\ UNCHANGED <<proj, newest, torn>>

Amend(r) ==
    /\ hand[r].stage = "amend"
    /\ SaveRow(r, hand[r].row, [hand[r] EXCEPT
            !.stage = "close", !.seen = hand[r].row, !.due = 0])
    /\ UNCHANGED <<newest, purse>>

CloseAlways(r) ==                                   \* mutant: closed by a return too
    /\ hand[r].stage = "close"
    /\ newest' = IF hand[r].sub # newest.n THEN newest ELSE [newest EXCEPT !.open = FALSE]
    /\ IF hand[r].kind = "approve" /\ hand[r].row.hours > 0
       THEN hand' = [hand EXCEPT ![r].stage = "sum"] ELSE Done(r)
    /\ UNCHANGED <<proj, purse, torn>>

(* The submission takes the verdict; an audit's approval goes on to pay.    *)
CloseSubmission(r) ==
    /\ hand[r].stage = "close"
    /\ newest' = IF hand[r].sub # newest.n THEN newest
                 ELSE [newest EXCEPT !.open = newest.n # 0 /\ hand[r].kind = "return"]
    /\ IF hand[r].kind = "approve" /\ hand[r].row.hours > 0
       THEN hand' = [hand EXCEPT ![r].stage = "sum"] ELSE Done(r)
    /\ UNCHANGED <<proj, purse, torn>>

Signed(n) == n                                      \* mutant: no Math.max(0, ...)

Max0(n) == IF n > 0 THEN n ELSE 0

(* AuditService.approve: the sums, the increment, and the record of it.     *)
SumUp(r) ==
    LET counted == proj # Gone /\ (proj.status = "approved" \/ proj.paid > 0)
        due == IF counted THEN Max0(proj.hours - proj.paid) ELSE 0
    IN
    /\ hand[r].stage = "sum"
    /\ IF due = 0 THEN Done(r) /\ UNCHANGED purse
       ELSE /\ purse' = purse + due
            /\ hand' = [hand EXCEPT ![r].stage = "record", ![r].due = due]
    /\ UNCHANGED <<proj, newest, torn>>

RecordPayment(r) ==
    LET x == hand[r] IN
    /\ x.stage = "record"
    /\ x.row.paid + x.due <= MaxDeskHours
    /\ SaveRow(r, [x.row EXCEPT !.paid = @ + x.due], Empty)
    /\ UNCHANGED <<newest, purse>>

DeskCrash ==
    /\ \E r \in Requests : hand[r] # Empty
    /\ torn' = (torn \/ HalfWay # {})
    /\ hand' = [r \in Requests |-> Empty]
    /\ UNCHANGED <<proj, newest, purse>>

-----------------------------------------------------------------------------
DeskNext ==
    \/ \E r \in Requests :
        \/ \E kind \in StaffKinds : ReadRow(r, kind)
        \/ r \in Builders /\ \E kind \in BuilderKinds : ReadRow(r, kind)
        \/ GiveUpRequest(r) \/ SaveDecision(r) \/ RemoveRow(r) \/ InsertSubmission(r)
        \/ Revoke(r) \/ Amend(r) \/ CloseSubmission(r) \/ SumUp(r) \/ RecordPayment(r)
    \/ DeskCrash

DeskSpec == DeskInit /\ [][DeskNext]_deskVars

-----------------------------------------------------------------------------
(* Properties.                                                              *)

InFlight(stage) == {r \in Requests : hand[r].stage = stage}

(* What the builder was paid for the project is what its row says was       *)
(* granted, but for a payment or a clawback between its two writes: until   *)
(* two requests cross, or the process dies half-way.                        *)
PaidAsRecorded ==
    (~torn /\ proj # Gone) =>
        \/ \E r \in InFlight("record") : purse = proj.paid + hand[r].due
        \/ \E r \in InFlight("amend") : purse = proj.paid - hand[r].due
        \/ purse = proj.paid

(* A project in the first-review queue has a submission to decide, or will, *)
(* unless it never had one: none waits behind a verdict already given.      *)
QueuedIsOpen ==
    (~torn /\ proj # Gone /\ proj.status = "unreviewed" /\ newest.n > 0 /\ ~newest.open) =>
        InFlight("submit") \cup InFlight("close") # {}

(* The builder's own requests never move a project out of a verdict, save a *)
(* resubmission, unless the verdict came after they had read the row; and a *)
(* deleted project comes back only with a request that had read it before.  *)
VerdictStands == [][\A r \in Requests :
    SaveDecision(r) /\ proj # proj' =>
        \/ hand[r].stale
        \/ hand[r].kind \in {"resubmit", "pass", "changes_needed", "rejected", "approve", "return"}
        \/ proj.status \notin {"fraud_pending", "approved", "rejected"}]_deskVars
=============================================================================
