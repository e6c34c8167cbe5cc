-------------------------------- MODULE Review --------------------------------
(* The review desk: projects shipped by builders, decided by a first        *)
(* reviewer and again by the audit, which alone pays pipes.  One action per *)
(* request, run against a quiet database.  Hours are in tenths, as rounded  *)
(* by the code; one pipe is paid per full hour.  The Hackatime cap, the     *)
(* pause and the two-day window of resubmissions only refuse requests: a    *)
(* step is a request they let through.  Left out: the golden flag, and the  *)
(* internal hours, which feed Airtable and no decision.                     *)
EXTENDS Totals, Sequences

CONSTANTS
    Users, Projects,
    OwnerOf,        \* the builder of each project
    Extended,       \* builders with a running submission extension
    Unrestricted,   \* builders with unrestricted access
    Deltas,         \* new hours a first reviewer enters
    Logged,         \* approved hours the devlogs of a project may come to
    Finals,         \* cumulative hours an auditor enters
    MaxHours,       \* bound: hours a project may reach
    MaxShips,       \* bound: submissions of one project
    MaxApprovals,   \* bound: live approving reviews of one submission
    Unused, Removed, None

Statuses == {"unshipped", "unreviewed", "fraud_pending",
             "changes_needed", "approved", "rejected"}
Verdicts == {"changes_needed", "rejected"}

Project == [status: Statuses, hours: Int, pipesGranted: Nat]

Submission == [status: {"unreviewed", "approved"} \cup Verdicts,
               hours: Nat \cup {None}, approvals: Nat]

ASSUME InputsAssumption ==
    /\ OwnerOf \in [Projects -> Users]
    /\ IsFiniteSet(Projects)
    /\ Extended \subseteq Users /\ Unrestricted \subseteq Users
    /\ Deltas \subseteq Nat \ {0} /\ Finals \subseteq Nat \ {0}
    /\ Logged \subseteq Nat
    /\ MaxHours \in Nat /\ MaxShips \in Nat /\ MaxApprovals \in Nat
ASSUME ReviewNullAssumption ==
    /\ None \notin Nat
    /\ Unused # Removed
    /\ {Unused, Removed} \cap Project = {}

VARIABLES
    projects,      \* projects
    submissions,   \* submissions of a project in creation order, each with
                   \* the number of its reviews whose status is 'approved'
    devlogHours,   \* approved hours of the devlogs linked to a project
    wallet,        \* users.pipes as far as reviews move them
    baseline,      \* history: hours of the last final approval that stands
    peak           \* history: the most hours a user was ever owed for

vars == <<projects, submissions, devlogHours, wallet, baseline, peak>>

ProjectRows == {p \in Projects : projects[p] \notin {Unused, Removed}}
Has(p, statuses) == p \in ProjectRows /\ projects[p].status \in statuses

Least(a, b) == IF a < b THEN a ELSE b
Most(a, b) == IF a > b THEN a ELSE b
Given(x, default) == IF x = None THEN default ELSE x       \* x ?? default

Draft == [status |-> "unshipped", hours |-> 0, pipesGranted |-> 0]
NewSubmission == [status |-> "unreviewed", hours |-> None, approvals |-> 0]

ReviewTypeOK ==
    /\ projects \in [Projects -> Project \cup {Unused, Removed}]
    /\ submissions \in [Projects -> Seq(Submission)]
    /\ devlogHours \in [Projects -> Nat]
    /\ wallet \in [Users -> Int]
    /\ baseline \in [Projects -> Int]
    /\ peak \in [Users -> Nat]

(* The program has ended: what is left are the drafts made before.          *)
ReviewInit ==
    /\ projects \in [Projects -> {Unused, Draft}]
    /\ submissions = [p \in Projects |-> <<>>]
    /\ devlogHours = [p \in Projects |-> 0]
    /\ wallet = [u \in Users |-> 0]
    /\ baseline = [p \in Projects |-> 0]
    /\ peak = [u \in Users |-> 0]

-----------------------------------------------------------------------------
(* Sums of AuditService.approve over a builder's rows.                      *)

(* WHERE status = 'approved' OR pipes_granted > 0.                          *)
Counted(rows, u) == {p \in Projects :
    /\ rows[p] \notin {Unused, Removed} /\ OwnerOf[p] = u
    /\ rows[p].status = "approved" \/ rows[p].pipesGranted > 0}

Column(rows, field) == [p \in Projects |->
    IF rows[p] \in {Unused, Removed} THEN 0 ELSE rows[p][field]]

(* SUM over a column that may hold negative numbers.                        *)
Sum(column, S) == Total(column, S) - Total([p \in Projects |-> -column[p]], S)

Owed(rows, u) ==
    Sum(Column(rows, "hours"), Counted(rows, u)) + Sum(devlogHours, Counted(rows, u))
Granted(rows, u) == Sum(Column(rows, "pipesGranted"), Counted(rows, u))

-----------------------------------------------------------------------------
(* The builder: ProjectsService.                                            *)

(* create; closed with the program but for unrestricted builders.           *)
Create(p) ==
    /\ projects[p] = Unused /\ OwnerOf[p] \in Unrestricted
    /\ projects' = [projects EXCEPT ![p] = Draft]
    /\ UNCHANGED <<submissions, devlogHours, wallet, baseline, peak>>

(* requireSubmissionAllowed, with a window that is still open.              *)
MaySubmit(p) ==
    OwnerOf[p] \in Extended \cup Unrestricted \/ projects[p].status = "changes_needed"

Enqueue(p) ==
    /\ Len(submissions[p]) < MaxShips
    /\ MaySubmit(p)
    /\ projects' = [projects EXCEPT ![p].status = "unreviewed"]
    /\ submissions' = [submissions EXCEPT ![p] = Append(@, NewSubmission)]
    /\ UNCHANGED <<devlogHours, wallet, baseline, peak>>

(* update with status 'unreviewed', and with status 'unshipped'.            *)
ShipAny(p) == p \in ProjectRows /\ Enqueue(p)        \* mutant: no transition check
Ship(p) == Has(p, {"unshipped", "changes_needed"}) /\ Enqueue(p)

Withdraw(p) ==
    /\ Has(p, {"unreviewed"})
    /\ projects' = [projects EXCEPT ![p].status = "unshipped"]
    /\ UNCHANGED <<submissions, devlogHours, wallet, baseline, peak>>

Resubmit(p) == Has(p, {"approved"}) /\ Enqueue(p)

(* delete; submissions and reviews cascade, devlogs lose their project.     *)
Delete(p) ==
    /\ Has(p, Statuses \ {"approved", "rejected"})
    /\ projects' = [projects EXCEPT ![p] = Removed]
    /\ submissions' = [submissions EXCEPT ![p] = <<>>]
    /\ devlogHours' = [devlogHours EXCEPT ![p] = 0]
    /\ baseline' = [baseline EXCEPT ![p] = 0]
    /\ UNCHANGED <<wallet, peak>>

-----------------------------------------------------------------------------
(* The first reviewer: AdminService.reviewProject.                          *)

(* The submission it decides: the newest one still 'unreviewed', or 0.      *)
OpenSubmission(p) ==
    LET open == {s \in 1 .. Len(submissions[p]) : submissions[p][s].status = "unreviewed"}
    IN  IF open = {} THEN 0 ELSE CHOOSE s \in open : \A t \in open : t <= s

(* Submission s of p replaced by sub, when there is one.                    *)
Edited(p, s, sub) ==
    IF s = 0 THEN submissions ELSE [submissions EXCEPT ![p][s] = sub]

(* Verdict 'approved': the new hours go on top of the approved ones and the *)
(* project waits for the audit.                                             *)
FirstPass(p, h) ==
    LET row == projects[p]
        s == OpenSubmission(p)
        sub == submissions[p][s]
        hours == row.hours + Given(h, 0)
    IN
    /\ Has(p, Statuses \ {"approved", "fraud_pending"})
    /\ hours > 0 /\ hours >= 10 * row.pipesGranted
    /\ hours <= MaxHours
    /\ s # 0 => sub.approvals < MaxApprovals
    /\ projects' = [projects EXCEPT ![p].status = "fraud_pending", ![p].hours = hours]
    /\ submissions' = Edited(p, s,
            [sub EXCEPT !.hours = Given(h, @), !.approvals = @ + 1])
    /\ UNCHANGED <<devlogHours, wallet, baseline, peak>>

KeepsGrant(row, verdict) ==                          \* mutant: no pipesGranted = 0
    [row EXCEPT !.status = verdict, !.hours = 0]

(* What the other verdicts leave of a row.                                  *)
SentBack(row, verdict) ==
    CASE row.status = "approved" ->
            [status |-> verdict, hours |-> 0, pipesGranted |-> 0]
      [] row.status = "unreviewed" /\ row.pipesGranted > 0 ->
            [row EXCEPT !.status = verdict]
      [] OTHER ->
            [row EXCEPT !.status = verdict, !.hours = 0]

(* users.pipes is decremented only when an approval is revoked.             *)
Clawed(row) == IF row.status = "approved" THEN row.pipesGranted ELSE 0

SendBack(p, verdict, h) ==
    LET row == SentBack(projects[p], verdict)
        s == OpenSubmission(p)
    IN
    /\ p \in ProjectRows
    /\ projects' = [projects EXCEPT ![p] = row]
    /\ submissions' = Edited(p, s,
            [submissions[p][s] EXCEPT !.hours = Given(h, @), !.status = verdict])
    /\ wallet' = [wallet EXCEPT ![OwnerOf[p]] = @ - Clawed(projects[p])]
    /\ baseline' = [baseline EXCEPT ![p] = Least(@, row.hours)]
    /\ UNCHANGED <<devlogHours, peak>>

(* SidekickService.updateReviewAction, changing the hours a first pass      *)
(* assigned before the audit decides; it names the submission.  Hours the   *)
(* first pass rewarded apart from the assigned ones survive the edit.       *)
EditHours(p, s, h) ==
    LET sub == submissions[p][s]
        old == Given(sub.hours, 0)
    IN
    /\ Has(p, {"fraud_pending"})
    /\ sub.status = "unreviewed" /\ sub.approvals > 0
    /\ projects[p].hours - old + h <= MaxHours
    /\ projects' = [projects EXCEPT ![p].hours = @ - old + h]
    /\ submissions' = [submissions EXCEPT ![p][s].hours = h]
    /\ UNCHANGED <<devlogHours, wallet, baseline, peak>>

-----------------------------------------------------------------------------
(* The audit: AuditService.  decide takes the newest submission there is.   *)

Newest(p) == Len(submissions[p])

(* loadUnreviewedIntoQueue: the ten longest waiting, into an empty queue.   *)
LoadQueue ==
    LET unreviewed == {p \in Projects : Has(p, {"unreviewed"})} IN
    /\ \A p \in Projects : ~Has(p, {"fraud_pending"})
    /\ \E loaded \in SUBSET unreviewed \ {{}} :
        /\ \/ Cardinality(loaded) = 10
           \/ Cardinality(loaded) < 10 /\ loaded = unreviewed
        /\ projects' = [p \in Projects |->
            IF p \in loaded THEN [projects[p] EXCEPT !.status = "fraud_pending"] ELSE projects[p]]
    /\ UNCHANGED <<submissions, devlogHours, wallet, baseline, peak>>

DueAgain(rows, u) == Most(0, Owed(rows, u) \div 10)  \* mutant: no previouslyGranted
DueOnce(rows, u) ==                                  \* mutant: only the first approval pays
    IF Granted(rows, u) > 0 THEN 0 ELSE Owed(rows, u) \div 10

(* floor(hours owed) less what was granted; nothing if not positive.        *)
Due(rows, u) == Most(0, Owed(rows, u) \div 10 - Granted(rows, u))

(* approve: final hours if entered, which it requires when no first pass    *)
(* stands; then the payment, if the project has hours.                      *)
Authorize(p, h) ==
    LET u == OwnerOf[p]
        approved == [projects EXCEPT ![p].status = "approved", ![p].hours = Given(h, @)]
        paid == IF approved[p].hours > 0 THEN Due(approved, u) ELSE 0
        s == Newest(p)
        sub == submissions[p][s]
        firstPass == s # 0 /\ sub.approvals > 0
        saved == sub.status # "approved" \/ paid > 0
    IN
    /\ Has(p, {"fraud_pending"})
    /\ IF h = None THEN firstPass
       ELSE h <= MaxHours /\ h >= 10 * projects[p].pipesGranted
    /\ s # 0 => sub.approvals < MaxApprovals
    /\ projects' = [approved EXCEPT ![p].pipesGranted = @ + paid]
    /\ submissions' = Edited(p, s,
            [status |-> "approved", approvals |-> sub.approvals + 1,
             hours |-> IF saved THEN Given(h, sub.hours) ELSE sub.hours])
    /\ wallet' = [wallet EXCEPT ![u] = @ + paid]
    /\ baseline' = [baseline EXCEPT ![p] = approved[p].hours]
    /\ peak' = [peak EXCEPT ![u] = Most(@, Owed(approved, u))]
    /\ UNCHANGED devlogHours

(* returnForReReview and the ban take back the hours of a submission.       *)
Reverted(hours, sub) ==
    IF Given(sub.hours, 0) > 0 THEN Most(0, hours - sub.hours) ELSE hours

UnapproveBlindly(n) == n - 1                         \* mutant: no if (firstPass)

(* One approving review set to 'returned', when there is one.               *)
Unapproved(n) == IF n > 0 THEN n - 1 ELSE 0

Return(p) ==
    LET s == Newest(p)
        sub == submissions[p][s]
    IN
    /\ Has(p, {"fraud_pending"})
    /\ projects' = [projects EXCEPT
            ![p].status = "unreviewed",
            ![p].hours = IF s = 0 THEN @ ELSE Reverted(@, sub)]
    /\ submissions' = Edited(p, s,
            [sub EXCEPT !.status = "unreviewed", !.approvals = Unapproved(@)])
    /\ UNCHANGED <<devlogHours, wallet, baseline, peak>>

(* reject ('changes_needed') and hardReject ('rejected').                   *)
AuditReject(p, verdict) ==
    LET s == Newest(p)
        sub == submissions[p][s]
    IN
    /\ Has(p, {"fraud_pending"})
    /\ projects' = [projects EXCEPT ![p].status = verdict, ![p].hours = 0]
    /\ submissions' = Edited(p, s,
            IF sub.status = verdict THEN sub ELSE [sub EXCEPT !.status = verdict, !.hours = 0])
    /\ baseline' = [baseline EXCEPT ![p] = 0]
    /\ UNCHANGED <<devlogHours, wallet, peak>>

-----------------------------------------------------------------------------
(* Bans and devlogs.                                                        *)

Queued(u) == {p \in Projects : OwnerOf[p] = u /\ Has(p, {"unreviewed", "fraud_pending"})}

(* rejectQueuedProjects, run by banUser and by the hourly sweep.            *)
Swept(p) ==
    LET s == OpenSubmission(p) IN
    [projects[p] EXCEPT
        !.status = "rejected",
        !.hours = IF projects[p].status = "fraud_pending" /\ s # 0
                  THEN Reverted(@, submissions[p][s]) ELSE @]

SweptProjects(u) == [p \in Projects |-> IF p \in Queued(u) THEN Swept(p) ELSE projects[p]]

SweptSubmissions(u) == [p \in Projects |-> [s \in 1 .. Len(submissions[p]) |->
    LET sub == submissions[p][s] IN
    IF p \notin Queued(u) \/ sub.status # "unreviewed" THEN sub
    ELSE [sub EXCEPT
            !.status = "rejected",
            !.approvals = IF projects[p].status = "fraud_pending" /\ s = OpenSubmission(p)
                          THEN Unapproved(@) ELSE @]]]

Ban(u) ==
    /\ Queued(u) # {}
    /\ projects' = SweptProjects(u)
    /\ submissions' = SweptSubmissions(u)
    /\ UNCHANGED <<devlogHours, wallet, baseline, peak>>

(* banAndRejectProject: the ban, then an UPDATE of the project itself.      *)
BanFromReview(p) ==
    /\ p \in ProjectRows
    /\ projects' = [SweptProjects(OwnerOf[p]) EXCEPT ![p].status = "rejected"]
    /\ submissions' = SweptSubmissions(OwnerOf[p])
    /\ UNCHANGED <<devlogHours, wallet, baseline, peak>>

(* DevlogsService.reviewDevlog and deleteOwn, for the devlogs of a project. *)
ReviewDevlogs(p, h) ==
    /\ p \in ProjectRows
    /\ devlogHours' = [devlogHours EXCEPT ![p] = h]
    /\ UNCHANGED <<projects, submissions, wallet, baseline, peak>>

-----------------------------------------------------------------------------
Builder == \E p \in Projects :
    Create(p) \/ Ship(p) \/ Withdraw(p) \/ Resubmit(p) \/ Delete(p)

FirstReviewer == \E p \in Projects :
    \/ \E h \in Deltas \cup {None} :
        \/ FirstPass(p, h)
        \/ \E verdict \in Verdicts : SendBack(p, verdict, h)
    \/ \E h \in Deltas, s \in 1 .. Len(submissions[p]) : EditHours(p, s, h)

Auditor ==
    \/ LoadQueue
    \/ \E p \in Projects :
        \/ \E h \in Finals \cup {None} : Authorize(p, h)
        \/ Return(p)
        \/ \E verdict \in Verdicts : AuditReject(p, verdict)

Staff ==
    \/ \E u \in Users : Ban(u)
    \/ \E p \in Projects :
        \/ BanFromReview(p)
        \/ \E h \in Logged : ReviewDevlogs(p, h)

ReviewNext == Builder \/ FirstReviewer \/ Auditor \/ Staff

ReviewSpec == ReviewInit /\ [][ReviewNext]_vars

-----------------------------------------------------------------------------
(* Properties.                                                              *)

(* The pipes on record for a builder never exceed one per full hour of the  *)
(* most they were ever owed: approving, rejecting and resubmitting in any   *)
(* order pays no hour twice.                                                *)
NoHourPaidTwice == \A u \in Users : 10 * Granted(projects, u) <= peak[u]

(* When the audit approves a project that has hours, every full hour the    *)
(* builder is owed is on record as paid, those of other projects included.  *)
ApprovalPaysInFull == [][\A p \in Projects :
    Has(p, {"fraud_pending"}) /\ Has(p, {"approved"})' /\ projects'[p].hours > 0 =>
        10 * Granted(projects, OwnerOf[p])' + 10 > Owed(projects, OwnerOf[p])']_vars

(* A hard reject is terminal for the builder: a rejected project leaves     *)
(* that status only by another reviewer's decision, and is never deleted.   *)
RejectedIsTerminal == [][\A p \in Projects : Has(p, {"rejected"}) =>
    Has(p, {"rejected", "changes_needed", "fraud_pending"})']_vars

(* Reviews move pipes only as the ledger allows: every payment is put on a  *)
(* project's record, every clawback takes back what is on record.           *)
Recorded == [u \in Users |-> Granted(projects, u)]
Pipes == INSTANCE Ledger WITH recorded <- Recorded
ImplementsLedger == Pipes!Spec

-----------------------------------------------------------------------------
(* What the sources say and the code does not do.                           *)

(* AuditService.approve: hours only mint pipes at the audit.  A payment     *)
(* covers finally approved hours and devlogs, no others.                    *)
FinalHours(u) ==
    Sum(baseline, Counted(projects, u)) + Sum(devlogHours, Counted(projects, u))
OnlyFinalHoursArePaid == [][\A u \in Users : wallet'[u] > wallet[u] =>
    10 * Granted(projects, u)' <= FinalHours(u)']_vars
=============================================================================
