---------------------------- MODULE ReviewProofs ----------------------------
(* Theorems of Review, for every set of builders, every finite set of       *)
(* projects, every choice of hours and every bound; and of Sidekick and     *)
(* Shown, for any number of calls and ships.                                *)
EXTENDS MCDecisions, TotalsProofs, SequenceTheorems, WellFoundedInduction

(* A nonempty set of positions in a sequence has a last one.                *)
LEMMA LastPosition ==
    ASSUME NEW n \in Nat, NEW S, S \subseteq 1 .. n, S # {}
    PROVE  \E s \in S : \A t \in S : t <= s
<1> DEFINE T == {n - s : s \in S}
<1>1. T \subseteq Nat /\ T # {}
  <2>1. \A s \in S : n - s \in Nat
    OBVIOUS
  <2>2. QED
    BY <2>1
<1>2. IsWellFoundedOn(OpToRel(<, Nat), Nat)
  BY NatLessThanWellFounded
<1>3. PICK x \in T : \A y \in T : ~ (<<y, x>> \in OpToRel(<, Nat))
  BY <1>1, <1>2, WFMin
<1>4. \A y \in T : ~ (y < x)
  <2>1. x \in Nat /\ \A y \in T : y \in Nat
    BY <1>1
  <2> HIDE DEF T
  <2>2. QED
    BY <2>1, <1>3 DEF OpToRel
<1>5. PICK s \in S : x = n - s
  OBVIOUS
<1>6. \A t \in S : ~ (n - t < n - s)
  BY <1>4, <1>5
<1> HIDE DEF T
<1>7. QED
  BY <1>6

(* Rows are typed, and the submission a first reviewer decides exists.      *)
LEMMA RowTypes ==
    ASSUME ReviewTypeOK, NEW p \in Projects
    PROVE  /\ p \in ProjectRows => projects[p] \in Project
           /\ Len(submissions[p]) \in Nat
           /\ \A s \in 1 .. Len(submissions[p]) : submissions[p][s] \in Submission
<1>1. submissions[p] \in Seq(Submission)
  BY DEF ReviewTypeOK
<1>2. QED
  BY <1>1, LenProperties DEF ReviewTypeOK, ProjectRows

LEMMA OpenSubmissionType ==
    ASSUME ReviewTypeOK, NEW p \in Projects
    PROVE  OpenSubmission(p) \in 0 .. Len(submissions[p])
<1> DEFINE open == {s \in 1 .. Len(submissions[p]) : submissions[p][s].status = "unreviewed"}
<1>1. Len(submissions[p]) \in Nat
  BY RowTypes
<1>2. CASE open = {}
  BY <1>1, <1>2 DEF OpenSubmission
<1>3. CASE open # {}
  <2>1. \E s \in open : \A t \in open : t <= s
    BY <1>1, <1>3, LastPosition
  <2>2. OpenSubmission(p) \in open
    BY <1>3, <2>1 DEF OpenSubmission
  <2>3. QED
    BY <1>1, <2>2
<1>4. QED
  BY <1>2, <1>3

(* Writing a submission keeps the table well formed.                        *)
LEMMA EditedType ==
    ASSUME ReviewTypeOK, NEW p \in Projects, NEW s \in 0 .. Len(submissions[p]),
           NEW sub, s # 0 => sub \in Submission
    PROVE  Edited(p, s, sub) \in [Projects -> Seq(Submission)]
<1>1. CASE s = 0
  BY <1>1 DEF Edited, ReviewTypeOK
<1>2. CASE s # 0
  <2>1. s \in 1 .. Len(submissions[p]) /\ submissions[p] \in Seq(Submission)
    BY <1>2, RowTypes DEF ReviewTypeOK
  <2>2. [submissions[p] EXCEPT ![s] = sub] \in Seq(Submission)
    BY <1>2, <2>1, ExceptSeq
  <2>3. Edited(p, s, sub) = [submissions EXCEPT ![p] = [submissions[p] EXCEPT ![s] = sub]]
    BY <1>2 DEF Edited, ReviewTypeOK
  <2>4. QED
    BY <2>2, <2>3 DEF ReviewTypeOK
<1>3. QED
  BY <1>1, <1>2

(* A sum that may hold negative numbers is an integer.                      *)
LEMMA SumType ==
    ASSUME NEW c \in [Projects -> Int], NEW S, S \subseteq Projects
    PROVE  Sum(c, S) \in Int
<1> DEFINE Up(f) == [p \in Projects |-> IF f[p] > 0 THEN f[p] ELSE 0]
<1>1. ASSUME NEW f \in [Projects -> Int]
      PROVE  Total(f, S) \in Nat
  <2>1. Up(f) \in [Projects -> Nat]
    OBVIOUS
  <2>2. IsFiniteSet(S)
    BY InputsAssumption, FS_Subset
  <2>3. \A x \in S : Tokens(f, x) = Tokens(Up(f), x)
    BY DEF Tokens
  <2>4. Total(f, S) = Total(Up(f), S)
    <3>1. {Tokens(f, x) : x \in S} = {Tokens(Up(f), x) : x \in S}
      BY <2>3
    <3>2. QED
      BY <3>1 DEF Total
  <2>5. QED
    BY <2>1, <2>2, <2>4, TotalType
<1>2. [p \in Projects |-> -c[p]] \in [Projects -> Int]
  OBVIOUS
<1>3. QED
  BY <1>1, <1>2 DEF Sum

Rows == [Projects -> Project \cup {Unused, Removed}]

LEMMA OwedType ==
    ASSUME NEW rows \in Rows, NEW u \in Users, devlogHours \in [Projects -> Nat]
    PROVE  Owed(rows, u) \in Int /\ Granted(rows, u) \in Int
<1>1. Counted(rows, u) \subseteq Projects
  BY DEF Counted
<1>2. /\ Column(rows, "hours") \in [Projects -> Int]
      /\ Column(rows, "pipesGranted") \in [Projects -> Int]
  BY DEF Rows, Column, Project
<1>3. QED
  BY <1>1, <1>2, SumType DEF Owed, Granted

(* What is due is a natural number of pipes.                                *)
LEMMA DueType ==
    ASSUME NEW rows \in Rows, NEW u \in Users, devlogHours \in [Projects -> Nat]
    PROVE  /\ Due(rows, u) \in Nat
           /\ Due(rows, u) > 0 => Due(rows, u) = Owed(rows, u) \div 10 - Granted(rows, u)
           /\ Due(rows, u) >= Owed(rows, u) \div 10 - Granted(rows, u)
<1>1. Owed(rows, u) \in Int /\ Granted(rows, u) \in Int
  BY OwedType
<1>2. Owed(rows, u) \div 10 \in Int
  BY <1>1
<1>3. QED
  BY <1>1, <1>2 DEF Due, Most

-----------------------------------------------------------------------------
(* Type correctness, action by action.                                      *)

(* Changing one row to a well-formed one.                                   *)
LEMMA RowUpdate ==
    ASSUME ReviewTypeOK, NEW p \in Projects, NEW row \in Project
    PROVE  [projects EXCEPT ![p] = row] \in Rows
  BY DEF ReviewTypeOK, Rows

(* Replacing columns of a row by typed values.                              *)
LEMMA ProjectUpdate ==
    ASSUME NEW row \in Project, NEW status \in Statuses, NEW hours \in Int
    PROVE  /\ [row EXCEPT !.status = status] \in Project
           /\ [row EXCEPT !.hours = hours] \in Project
           /\ [row EXCEPT !.status = status, !.hours = hours] \in Project
  BY DEF Project

LEMMA NewSubmissionType == NewSubmission \in Submission /\ Draft \in Project
  BY DEF NewSubmission, Submission, Draft, Project, Statuses

LEMMA EnqueueType ==
    ASSUME ReviewTypeOK, NEW p \in ProjectRows, Enqueue(p)
    PROVE  ReviewTypeOK'
<1>1. p \in Projects /\ projects[p] \in Project
  BY RowTypes DEF ProjectRows
<1>2. projects' \in Rows
  <2>1. [projects[p] EXCEPT !.status = "unreviewed"] \in Project
    BY <1>1 DEF Project, Statuses
  <2>2. QED
    BY <1>1, <2>1, RowUpdate DEF Enqueue
<1>3. submissions' \in [Projects -> Seq(Submission)]
  <2>1. Append(submissions[p], NewSubmission) \in Seq(Submission)
    BY <1>1, NewSubmissionType, AppendProperties DEF ReviewTypeOK
  <2>2. QED
    BY <1>1, <2>1 DEF Enqueue, ReviewTypeOK
<1>4. QED
  BY <1>2, <1>3 DEF Enqueue, ReviewTypeOK, Rows

LEMMA BuilderType ==
    ASSUME ReviewTypeOK, Builder
    PROVE  ReviewTypeOK'
<1> SUFFICES ASSUME NEW p \in Projects,
                    Create(p) \/ Ship(p) \/ Withdraw(p) \/ Resubmit(p) \/ Delete(p)
             PROVE  ReviewTypeOK'
  BY DEF Builder
<1>1. CASE Create(p)
  BY <1>1, NewSubmissionType DEF Create, ReviewTypeOK
<1>2. CASE Ship(p) \/ Resubmit(p)
  BY <1>2, EnqueueType DEF Ship, Resubmit, Has
<1>3. CASE Withdraw(p)
  <2>1. [projects[p] EXCEPT !.status = "unshipped"] \in Project
    BY <1>3, RowTypes DEF Withdraw, Has, Project, Statuses
  <2>2. projects' \in Rows
    BY <1>3, <2>1, RowUpdate DEF Withdraw
  <2>3. QED
    BY <1>3, <2>2 DEF Withdraw, ReviewTypeOK, Rows
<1>4. CASE Delete(p)
  <2>1. <<>> \in Seq(Submission)
    BY EmptySeq
  <2>2. QED
    BY <1>4, <2>1 DEF Delete, ReviewTypeOK
<1>5. QED
  BY <1>1, <1>2, <1>3, <1>4

(* Hours entered by a reviewer, or none.                                    *)
LEMMA HoursTypes ==
    ASSUME NEW h \in Deltas \cup Finals \cup {None}, NEW sub \in Submission
    PROVE  /\ h # None => h \in Nat
           /\ Given(h, 0) \in Nat /\ Given(sub.hours, 0) \in Nat
           /\ Given(h, sub.hours) \in Nat \cup {None}
           /\ sub.approvals \in Nat
  BY InputsAssumption, ReviewNullAssumption DEF Given, Submission

LEMMA SubmissionUpdate ==
    ASSUME NEW sub \in Submission, NEW h \in Nat \cup {None}, NEW n \in Nat,
           NEW status \in {"unreviewed", "approved"} \cup Verdicts
    PROVE  /\ [sub EXCEPT !.hours = h, !.approvals = n] \in Submission
           /\ [sub EXCEPT !.hours = h, !.status = status] \in Submission
           /\ [sub EXCEPT !.status = status, !.approvals = n] \in Submission
           /\ [sub EXCEPT !.status = status] \in Submission
  BY DEF Submission

LEMMA FirstPassType ==
    ASSUME ReviewTypeOK, NEW p \in Projects, NEW h \in Deltas \cup {None}, FirstPass(p, h)
    PROVE  ReviewTypeOK'
<1> DEFINE row == projects[p]
           hours == row.hours + Given(h, 0)
           s == OpenSubmission(p)
           sub == submissions[p][s]
           new == [sub EXCEPT !.hours = Given(h, @), !.approvals = @ + 1]
<1>1. row \in Project
  BY RowTypes DEF FirstPass, Has
<1>2. Given(h, 0) \in Nat
  BY InputsAssumption DEF Given
<1>3. [row EXCEPT !.status = "fraud_pending", !.hours = hours] \in Project
  <2>1. hours \in Int /\ "fraud_pending" \in Statuses
    BY <1>1, <1>2 DEF Project, Statuses
  <2> HIDE DEF row, hours
  <2>2. QED
    BY <1>1, <2>1 DEF Project
<1>4. projects' \in Rows
  BY <1>3, RowUpdate DEF FirstPass
<1>5. s \in 0 .. Len(submissions[p])
  BY OpenSubmissionType
<1>6. ASSUME s # 0
      PROVE  new \in Submission
  <2>1. sub \in Submission
    BY <1>5, <1>6, RowTypes
  <2>2. Given(h, sub.hours) \in Nat \cup {None} /\ sub.approvals + 1 \in Nat
    BY <2>1, HoursTypes
  <2> HIDE DEF sub
  <2>3. QED
    BY <2>1, <2>2, SubmissionUpdate
<1>7. submissions' \in [Projects -> Seq(Submission)]
  BY <1>5, <1>6, EditedType DEF FirstPass
<1>8. QED
  BY <1>4, <1>7 DEF FirstPass, ReviewTypeOK, Rows

(* Adding to the wallet of a project's builder.                             *)
LEMMA PaymentType ==
    ASSUME ReviewTypeOK, NEW p \in Projects, NEW n \in Nat
    PROVE  /\ [wallet EXCEPT ![OwnerOf[p]] = @ + n] \in [Users -> Int]
           /\ [wallet EXCEPT ![OwnerOf[p]] = @ - n] \in [Users -> Int]
<1>1. OwnerOf[p] \in Users /\ wallet[OwnerOf[p]] \in Int
  BY InputsAssumption DEF ReviewTypeOK
<1>2. wallet[OwnerOf[p]] + n \in Int /\ wallet[OwnerOf[p]] - n \in Int
  BY <1>1
<1>3. QED
  BY <1>1, <1>2 DEF ReviewTypeOK

LEMMA SentBackType ==
    ASSUME NEW row \in Project, NEW verdict \in Verdicts
    PROVE  SentBack(row, verdict) \in Project
<1>1. verdict \in Statuses
  BY DEF Verdicts, Statuses
<1>2. CASE row.status = "approved"
  BY <1>1, <1>2 DEF SentBack, Project
<1>3. CASE row.status = "unreviewed" /\ row.pipesGranted > 0
  BY <1>1, <1>3 DEF SentBack, Project
<1>4. CASE row.status # "approved" /\ ~ (row.status = "unreviewed" /\ row.pipesGranted > 0)
  <2>1. SentBack(row, verdict) = [row EXCEPT !.status = verdict, !.hours = 0]
    BY <1>4, Zenon DEF SentBack
  <2>2. [row EXCEPT !.status = verdict, !.hours = 0] \in Project
    BY <1>1, 0 \in Int, ProjectUpdate, Zenon
  <2>3. QED
    BY <2>1, <2>2
<1>5. QED
  BY <1>2, <1>3, <1>4

LEMMA SendBackType ==
    ASSUME ReviewTypeOK, NEW p \in Projects, NEW verdict \in Verdicts,
           NEW h \in Deltas \cup {None}, SendBack(p, verdict, h)
    PROVE  ReviewTypeOK'
<1> DEFINE row == SentBack(projects[p], verdict)
           s == OpenSubmission(p)
           sub == submissions[p][s]
           new == [sub EXCEPT !.hours = Given(h, @), !.status = verdict]
<1>1. projects[p] \in Project
  BY RowTypes DEF SendBack
<1>2. row \in Project
  BY <1>1, SentBackType
<1>3. projects' \in Rows
  BY <1>2, RowUpdate DEF SendBack
<1>4. s \in 0 .. Len(submissions[p])
  BY OpenSubmissionType
<1>5. s # 0 => new \in Submission
  <2>1. s # 0 => sub \in Submission
    BY <1>4, RowTypes
  <2>2. s # 0 => Given(h, sub.hours) \in Nat \cup {None}
    BY <2>1, HoursTypes
  <2>3. QED
    BY <2>1, <2>2 DEF Submission
<1>6. submissions' \in [Projects -> Seq(Submission)]
  BY <1>4, <1>5, EditedType DEF SendBack
<1>7. wallet' \in [Users -> Int]
  <2>1. Clawed(projects[p]) \in Nat
    BY <1>1 DEF Clawed, Project
  <2>2. QED
    BY <2>1, PaymentType DEF SendBack
<1>8. baseline' \in [Projects -> Int]
  BY <1>2 DEF SendBack, ReviewTypeOK, Least, Project
<1>9. QED
  BY <1>3, <1>6, <1>7, <1>8 DEF SendBack, ReviewTypeOK, Rows

LEMMA EditHoursType ==
    ASSUME ReviewTypeOK, NEW p \in Projects, NEW h \in Deltas,
           NEW s \in 1 .. Len(submissions[p]), EditHours(p, s, h)
    PROVE  ReviewTypeOK'
<1> DEFINE sub == submissions[p][s]
           old == Given(sub.hours, 0)
<1>1. projects[p] \in Project /\ sub \in Submission
  BY RowTypes DEF EditHours, Has
<1>2. h \in Nat /\ old \in Nat
  BY <1>1, HoursTypes, InputsAssumption
<1>3. projects' \in Rows
  <2>1. [projects[p] EXCEPT !.hours = @ - old + h] \in Project
    BY <1>1, <1>2 DEF Project
  <2>2. QED
    BY <2>1, RowUpdate DEF EditHours
<1>4. submissions' \in [Projects -> Seq(Submission)]
  <2>1. [sub EXCEPT !.hours = h] \in Submission
    BY <1>1, <1>2 DEF Submission
  <2>2. [submissions[p] EXCEPT ![s] = [sub EXCEPT !.hours = h]] \in Seq(Submission)
    BY <2>1, ExceptSeq DEF ReviewTypeOK
  <2>3. QED
    BY <2>2 DEF EditHours, ReviewTypeOK
<1>5. QED
  BY <1>3, <1>4 DEF EditHours, ReviewTypeOK, Rows

LEMMA FirstReviewerType ==
    ASSUME ReviewTypeOK, FirstReviewer
    PROVE  ReviewTypeOK'
  BY FirstPassType, SendBackType, EditHoursType DEF FirstReviewer

(* The rows an approval sums over, and the rows it leaves.                  *)
Approved(p, h) == [projects EXCEPT ![p].status = "approved", ![p].hours = Given(h, @)]
Paid(p, h) == IF Approved(p, h)[p].hours > 0 THEN Due(Approved(p, h), OwnerOf[p]) ELSE 0

LEMMA ApprovedType ==
    ASSUME ReviewTypeOK, NEW p \in ProjectRows, NEW h \in Finals \cup {None}
    PROVE  /\ Approved(p, h) \in Rows
           /\ Approved(p, h)[p] = [projects[p] EXCEPT !.status = "approved", !.hours = Given(h, @)]
           /\ Approved(p, h)[p] \in Project
           /\ Paid(p, h) \in Nat
<1>1. p \in Projects /\ projects[p] \in Project /\ projects \in Rows
  BY RowTypes DEF ProjectRows, ReviewTypeOK, Rows
<1>2. Given(h, projects[p].hours) \in Int /\ "approved" \in Statuses
  BY <1>1, InputsAssumption DEF Given, Project, Statuses
<1>3. [projects[p] EXCEPT !.status = "approved", !.hours = Given(h, @)] \in Project
  BY <1>1, <1>2, ProjectUpdate
<1>4. Approved(p, h) = [projects EXCEPT ![p] =
        [projects[p] EXCEPT !.status = "approved", !.hours = Given(h, @)]]
  BY <1>1 DEF Approved, Rows
<1>5. Approved(p, h) \in Rows
  BY <1>1, <1>3, <1>4, RowUpdate
<1>6. Paid(p, h) \in Nat
  BY <1>1, <1>5, DueType, InputsAssumption DEF Paid, ReviewTypeOK
<1>7. QED
  BY <1>1, <1>3, <1>4, <1>5, <1>6 DEF Rows

LEMMA AuthorizeType ==
    ASSUME ReviewTypeOK, NEW p \in Projects, NEW h \in Finals \cup {None}, Authorize(p, h)
    PROVE  ReviewTypeOK'
<1> DEFINE u == OwnerOf[p]
           s == Newest(p)
           sub == submissions[p][s]
           new(saved) == [status |-> "approved", approvals |-> sub.approvals + 1,
                          hours |-> IF saved THEN Given(h, sub.hours) ELSE sub.hours]
<1>1. p \in ProjectRows /\ u \in Users
  BY InputsAssumption DEF Authorize, Has
<1>2. /\ Approved(p, h) \in Rows
      /\ Approved(p, h)[p] \in Project
      /\ Paid(p, h) \in Nat
  BY <1>1, ApprovedType
<1>3. projects' \in Rows
  <2>1. projects' = [Approved(p, h) EXCEPT ![p] =
            [Approved(p, h)[p] EXCEPT !.pipesGranted = @ + Paid(p, h)]]
    BY <1>2 DEF Authorize, Approved, Paid, Rows
  <2>2. [Approved(p, h)[p] EXCEPT !.pipesGranted = @ + Paid(p, h)] \in Project
    BY <1>2 DEF Project
  <2>3. QED
    BY <1>2, <2>1, <2>2 DEF Rows
<1>4. s \in 0 .. Len(submissions[p])
  BY RowTypes DEF Newest
<1>5. ASSUME s # 0, NEW saved
      PROVE  new(saved) \in Submission
  <2>1. sub \in Submission
    BY <1>4, <1>5, RowTypes
  <2>2. Given(h, sub.hours) \in Nat \cup {None} /\ sub.approvals + 1 \in Nat
    BY <2>1, HoursTypes
  <2> HIDE DEF sub
  <2>3. QED
    BY <2>1, <2>2 DEF Submission
<1>6. submissions' \in [Projects -> Seq(Submission)]
  <2> DEFINE saved == sub.status # "approved" \/ Paid(p, h) > 0
  <2>1. submissions' = Edited(p, s, new(saved))
    BY DEF Authorize, Approved, Paid
  <2>2. QED
    BY <1>4, <1>5, <2>1, EditedType
<1>7. wallet' \in [Users -> Int]
  <2>1. wallet' = [wallet EXCEPT ![u] = @ + Paid(p, h)]
    BY DEF Authorize, Approved, Paid
  <2>2. QED
    BY <1>2, <2>1, PaymentType
<1>8. baseline' \in [Projects -> Int]
  <2>1. baseline' = [baseline EXCEPT ![p] = Approved(p, h)[p].hours]
    BY DEF Authorize, Approved
  <2>2. QED
    BY <1>2, <2>1 DEF ReviewTypeOK, Project
<1>9. peak' \in [Users -> Nat]
  <2>1. peak' = [peak EXCEPT ![u] = Most(@, Owed(Approved(p, h), u))]
    BY DEF Authorize, Approved
  <2>2. Owed(Approved(p, h), u) \in Int
    BY <1>1, <1>2, OwedType DEF ReviewTypeOK
  <2>3. Most(peak[u], Owed(Approved(p, h), u)) \in Nat
    BY <1>1, <2>2 DEF Most, ReviewTypeOK
  <2>4. QED
    BY <2>1, <2>3 DEF ReviewTypeOK
<1>10. QED
  BY <1>3, <1>6, <1>7, <1>8, <1>9 DEF Authorize, ReviewTypeOK, Rows

(* Hours less those of a submission are still a number.                     *)
LEMMA RevertedType ==
    ASSUME NEW hours \in Int, NEW sub \in Submission
    PROVE  Reverted(hours, sub) \in Int
<1>1. CASE sub.hours = None
  BY <1>1 DEF Reverted, Given
<1>2. CASE sub.hours \in Nat
  BY <1>2 DEF Reverted, Given, Most
<1>3. QED
  BY <1>1, <1>2 DEF Submission

(* The row a return leaves.                                                 *)
LEMMA ReturnRow ==
    ASSUME ReviewTypeOK, NEW p \in Projects, Return(p)
    PROVE  /\ p \in ProjectRows /\ projects[p] \in Project
           /\ \E row \in Project :
                /\ projects' = [projects EXCEPT ![p] = row]
                /\ row.pipesGranted = projects[p].pipesGranted /\ row.status = "unreviewed"
<1> DEFINE s == Newest(p)
           sub == submissions[p][s]
           hours == IF s = 0 THEN projects[p].hours ELSE Reverted(projects[p].hours, sub)
           row == [projects[p] EXCEPT !.status = "unreviewed", !.hours = hours]
<1>1. p \in ProjectRows /\ projects[p] \in Project
  BY RowTypes DEF Return, Has
<1>2. hours \in Int
  <2>1. s # 0 => sub \in Submission
    BY RowTypes DEF Newest
  <2>2. s # 0 => Reverted(projects[p].hours, sub) \in Int
    BY <1>1, <2>1, RevertedType DEF Project
  <2>3. QED
    BY <1>1, <2>2 DEF Project
<1>3. projects' = [projects EXCEPT ![p] = row]
  BY DEF Return, ReviewTypeOK
<1>4. /\ row \in Project /\ row.pipesGranted = projects[p].pipesGranted
      /\ row.status = "unreviewed"
  <2> HIDE DEF hours
  <2>1. QED
    BY <1>1, <1>2 DEF Project, Statuses
<1> HIDE DEF row
<1>5. QED
  BY <1>1, <1>3, <1>4

LEMMA ReturnType ==
    ASSUME ReviewTypeOK, NEW p \in Projects, Return(p)
    PROVE  ReviewTypeOK'
<1> DEFINE s == Newest(p)
           sub == submissions[p][s]
           new == [sub EXCEPT !.status = "unreviewed", !.approvals = Unapproved(@)]
<1>1. projects' \in Rows
  BY ReturnRow, RowUpdate
<1>2. s \in 0 .. Len(submissions[p])
  BY RowTypes DEF Newest
<1>3. ASSUME s # 0
      PROVE  new \in Submission
  <2>1. sub \in Submission
    BY <1>2, <1>3, RowTypes
  <2>2. Unapproved(sub.approvals) \in Nat
    BY <2>1 DEF Submission, Unapproved
  <2> HIDE DEF sub
  <2>3. QED
    BY <2>1, <2>2, SubmissionUpdate
<1>4. submissions' \in [Projects -> Seq(Submission)]
  BY <1>2, <1>3, EditedType DEF Return
<1>5. QED
  BY <1>1, <1>4 DEF Return, ReviewTypeOK, Rows

LEMMA AuditRejectType ==
    ASSUME ReviewTypeOK, NEW p \in Projects, NEW verdict \in Verdicts, AuditReject(p, verdict)
    PROVE  ReviewTypeOK'
<1> DEFINE s == Newest(p)
           sub == submissions[p][s]
           new == IF sub.status = verdict THEN sub
                  ELSE [sub EXCEPT !.status = verdict, !.hours = 0]
<1>1. projects[p] \in Project /\ verdict \in Statuses
  BY RowTypes DEF AuditReject, Has, Verdicts, Statuses
<1>2. s \in 0 .. Len(submissions[p])
  BY RowTypes DEF Newest
<1>3. projects' \in Rows
  <2>1. [projects[p] EXCEPT !.status = verdict, !.hours = 0] \in Project
    BY <1>1, 0 \in Int, ProjectUpdate, Zenon
  <2>2. projects' = [projects EXCEPT ![p] =
            [projects[p] EXCEPT !.status = verdict, !.hours = 0]]
    BY DEF AuditReject, ReviewTypeOK
  <2>3. QED
    BY <2>1, <2>2, RowUpdate
<1>4. ASSUME s # 0
      PROVE  new \in Submission
  <2>1. sub \in Submission
    BY <1>2, <1>4, RowTypes
  <2> HIDE DEF sub
  <2>2. QED
    BY <2>1 DEF Submission
<1>5. submissions' \in [Projects -> Seq(Submission)]
  BY <1>2, <1>4, EditedType DEF AuditReject
<1>6. baseline' \in [Projects -> Int]
  BY DEF AuditReject, ReviewTypeOK
<1>7. QED
  BY <1>3, <1>5, <1>6 DEF AuditReject, ReviewTypeOK, Rows

LEMMA AuditorType ==
    ASSUME ReviewTypeOK, Auditor
    PROVE  ReviewTypeOK'
<1>1. CASE LoadQueue
  <2>1. \A p \in Projects : Has(p, {"unreviewed"}) =>
            [projects[p] EXCEPT !.status = "fraud_pending"] \in Project
    BY RowTypes DEF Has, Project, Statuses
  <2>2. projects' \in Rows
    BY <1>1, <2>1 DEF LoadQueue, ReviewTypeOK, Rows
  <2>3. QED
    BY <1>1, <2>2 DEF LoadQueue, ReviewTypeOK, Rows
<1>2. QED
  BY <1>1, AuthorizeType, ReturnType, AuditRejectType DEF Auditor

-----------------------------------------------------------------------------
(* The sweep of a banned builder's projects.                                *)
LEMMA SweepTypes ==
    ASSUME ReviewTypeOK, NEW u \in Users
    PROVE  /\ \A p \in Queued(u) : Swept(p) \in Project
           /\ SweptProjects(u) \in Rows
           /\ SweptSubmissions(u) \in [Projects -> Seq(Submission)]
<1>1. ASSUME NEW p \in Queued(u)
      PROVE  Swept(p) \in Project
  <2> DEFINE s == OpenSubmission(p)
             hours == IF projects[p].status = "fraud_pending" /\ s # 0
                      THEN Reverted(projects[p].hours, submissions[p][s])
                      ELSE projects[p].hours
  <2>1. p \in Projects /\ projects[p] \in Project /\ "rejected" \in Statuses
    BY <1>1, RowTypes DEF Queued, Has, Statuses
  <2>2. s # 0 => submissions[p][s] \in Submission
    BY <2>1, OpenSubmissionType, RowTypes
  <2>3. hours \in Int
    BY <2>1, <2>2, RevertedType DEF Project
  <2> HIDE DEF hours
  <2>4. [projects[p] EXCEPT !.status = "rejected", !.hours = hours] \in Project
    BY <2>1, <2>3, ProjectUpdate
  <2>5. QED
    BY <2>4 DEF Swept, hours
<1>2. ASSUME NEW p \in Projects
      PROVE  SweptSubmissions(u)[p] \in Seq(Submission)
  <2> DEFINE new(s) == LET sub == submissions[p][s] IN
                IF p \notin Queued(u) \/ sub.status # "unreviewed" THEN sub
                ELSE [sub EXCEPT
                        !.status = "rejected",
                        !.approvals = IF projects[p].status = "fraud_pending" /\ s = OpenSubmission(p)
                                      THEN Unapproved(@) ELSE @]
             q == [s \in 1 .. Len(submissions[p]) |-> new(s)]
  <2>1. ASSUME NEW s \in 1 .. Len(submissions[p])
        PROVE  new(s) \in Submission
    <3> DEFINE sub == submissions[p][s]
               n == IF projects[p].status = "fraud_pending" /\ s = OpenSubmission(p)
                    THEN Unapproved(sub.approvals) ELSE sub.approvals
    <3>1. sub \in Submission
      BY RowTypes
    <3>2. n \in Nat /\ "rejected" \in {"unreviewed", "approved"} \cup Verdicts
      BY <3>1 DEF Submission, Unapproved, Verdicts
    <3> HIDE DEF sub, n
    <3>3. [sub EXCEPT !.status = "rejected", !.approvals = n] \in Submission
      BY <3>1, <3>2 DEF Submission
    <3>4. QED
      BY <3>1, <3>3 DEF sub, n
  <2>2. q \in [1 .. Len(submissions[p]) -> Submission] /\ Len(submissions[p]) \in Nat
    BY <2>1, RowTypes
  <2>3. q \in Seq(Submission)
    <3> HIDE DEF q
    <3>1. QED
      BY <2>2
  <2>4. QED
    BY <2>3 DEF SweptSubmissions
<1>3. SweptProjects(u) \in Rows
  BY <1>1 DEF SweptProjects, ReviewTypeOK, Rows
<1>4. QED
  BY <1>1, <1>2, <1>3 DEF SweptSubmissions

LEMMA StaffType ==
    ASSUME ReviewTypeOK, Staff
    PROVE  ReviewTypeOK'
<1>1. ASSUME NEW u \in Users, Ban(u)
      PROVE  ReviewTypeOK'
  BY <1>1, SweepTypes DEF Ban, ReviewTypeOK, Rows
<1>2. ASSUME NEW p \in Projects, BanFromReview(p)
      PROVE  ReviewTypeOK'
  <2> DEFINE rows == SweptProjects(OwnerOf[p])
  <2>1. rows \in Rows /\ SweptSubmissions(OwnerOf[p]) \in [Projects -> Seq(Submission)]
    BY SweepTypes, InputsAssumption
  <2>2. rows[p] \in Project
    <3>1. p \in ProjectRows /\ projects[p] \in Project
      BY <1>2, RowTypes DEF BanFromReview
    <3>2. p \in Queued(OwnerOf[p]) => rows[p] = Swept(p)
      BY DEF SweptProjects
    <3>3. p \notin Queued(OwnerOf[p]) => rows[p] = projects[p]
      BY DEF SweptProjects
    <3>4. p \in Queued(OwnerOf[p]) => Swept(p) \in Project
      BY SweepTypes, InputsAssumption
    <3>5. QED
      BY <3>1, <3>2, <3>3, <3>4
  <2>3. projects' \in Rows
    <3>1. [rows[p] EXCEPT !.status = "rejected"] \in Project
      <4>1. "rejected" \in Statuses
        BY DEF Statuses
      <4> HIDE DEF rows
      <4>2. QED
        BY <2>2, <4>1 DEF Project
    <3>2. projects' = [rows EXCEPT ![p] = [rows[p] EXCEPT !.status = "rejected"]]
      BY <1>2, <2>1 DEF BanFromReview, Rows
    <3> HIDE DEF rows
    <3>3. QED
      BY <2>1, <3>1, <3>2 DEF Rows
  <2>4. QED
    BY <1>2, <2>1, <2>3 DEF BanFromReview, ReviewTypeOK, Rows
<1>3. ASSUME NEW p \in Projects, NEW h \in Logged, ReviewDevlogs(p, h)
      PROVE  ReviewTypeOK'
  BY <1>3, InputsAssumption DEF ReviewDevlogs, ReviewTypeOK
<1>4. QED
  BY <1>1, <1>2, <1>3 DEF Staff

-----------------------------------------------------------------------------
LEMMA ReviewTypeInit == ReviewInit => ReviewTypeOK
<1>1. <<>> \in Seq(Submission)
  BY EmptySeq
<1>2. QED
  BY <1>1, NewSubmissionType DEF ReviewInit, ReviewTypeOK

LEMMA ReviewTypeStep ==
    ASSUME ReviewTypeOK, [ReviewNext]_vars
    PROVE  ReviewTypeOK'
<1>1. CASE UNCHANGED vars
  BY <1>1 DEF vars, ReviewTypeOK
<1>2. CASE ReviewNext
  BY <1>2, BuilderType, FirstReviewerType, AuditorType, StaffType DEF ReviewNext
<1>3. QED
  BY <1>1, <1>2

(* Every row and every counter keeps its type, whoever decides what in      *)
(* which order: in particular the pipes on record of a project never go     *)
(* below zero.                                                              *)
THEOREM ReviewTypeCorrect == ReviewSpec => []ReviewTypeOK
<1>1. ReviewTypeOK /\ [ReviewNext]_vars => ReviewTypeOK'
  BY ReviewTypeStep
<1>2. QED
  BY <1>1, ReviewTypeInit, PTL DEF ReviewSpec

-----------------------------------------------------------------------------
(* Pipes on record.  A row that is not counted has none, so what is granted *)
(* to a builder is the sum over all of the builder's projects, and a step   *)
(* that changes one project's record changes it by that difference.         *)

PipesOn(rows, p) == Column(rows, "pipesGranted")[p]
HeldBy(rows, u) == [p \in Projects |-> IF OwnerOf[p] = u THEN PipesOn(rows, p) ELSE 0]

LEMMA PipesOnType ==
    ASSUME NEW rows \in Rows, NEW p \in Projects
    PROVE  /\ PipesOn(rows, p) \in Nat
           /\ rows[p] \in {Unused, Removed} => PipesOn(rows, p) = 0
           /\ rows[p] \in Project => PipesOn(rows, p) = rows[p].pipesGranted
  BY ReviewNullAssumption DEF Rows, PipesOn, Column, Project

LEMMA HeldByType ==
    ASSUME NEW rows \in Rows, NEW u
    PROVE  HeldBy(rows, u) \in [Projects -> Nat]
  BY PipesOnType DEF HeldBy

LEMMA GrantedIsTotal ==
    ASSUME NEW rows \in Rows, NEW u \in Users
    PROVE  /\ Granted(rows, u) = Total(HeldBy(rows, u), Projects)
           /\ Granted(rows, u) \in Nat
<1> DEFINE C == Counted(rows, u)
           col == Column(rows, "pipesGranted")
           neg == [p \in Projects |-> -col[p]]
<1>1. C \subseteq Projects /\ IsFiniteSet(C) /\ IsFiniteSet(Projects \ C)
  BY InputsAssumption, FS_Subset DEF Counted
<1>2. Total(neg, C) = 0
  <2>1. \A x \in C : Tokens(neg, x) = {}
    <3>1. \A x \in C : neg[x] \in Int /\ neg[x] <= 0
      BY <1>1, PipesOnType DEF PipesOn
    <3> HIDE DEF neg
    <3>2. QED
      BY <3>1 DEF Tokens
  <2>2. UNION {Tokens(neg, x) : x \in C} = {}
    BY <2>1
  <2>3. QED
    BY <2>2, FS_EmptySet DEF Total
<1>3. Total(col, C) = Total(HeldBy(rows, u), C)
  <2>1. \A x \in C : col[x] = HeldBy(rows, u)[x]
    BY DEF Counted, HeldBy, PipesOn
  <2>2. QED
    BY <2>1, TotalCongruence
<1>4. Total(HeldBy(rows, u), Projects \ C) = 0
  <2>1. \A x \in Projects \ C : HeldBy(rows, u)[x] = 0
    <3> SUFFICES ASSUME NEW x \in Projects \ C, OwnerOf[x] = u
                 PROVE  PipesOn(rows, x) = 0
      BY DEF HeldBy
    <3>1. CASE rows[x] \in {Unused, Removed}
      BY <3>1, PipesOnType
    <3>2. CASE rows[x] \in Project
      <4>1. ~ (rows[x].pipesGranted > 0)
        BY <3>2, ReviewNullAssumption DEF Counted
      <4>2. QED
        BY <3>2, <4>1, PipesOnType DEF Project
    <3>3. QED
      BY <3>1, <3>2 DEF Rows
  <2>2. QED
    BY <2>1, TotalZero
<1>5. Total(HeldBy(rows, u), Projects)
        = Total(HeldBy(rows, u), C) + Total(HeldBy(rows, u), Projects \ C)
  <2>1. C \cup (Projects \ C) = Projects
    BY <1>1
  <2>2. QED
    BY <1>1, <2>1, HeldByType, TotalSplit
<1>6. Total(HeldBy(rows, u), C) \in Nat
  BY <1>1, HeldByType, TotalType
<1>7. Granted(rows, u) = Total(col, C) - Total(neg, C)
  BY DEF Granted, Sum
<1>8. QED
  BY <1>2, <1>3, <1>4, <1>5, <1>6, <1>7

LEMMA GrantedSame ==
    ASSUME NEW rows \in Rows, NEW new \in Rows,
           \A q \in Projects : PipesOn(new, q) = PipesOn(rows, q)
    PROVE  \A u \in Users : Granted(new, u) = Granted(rows, u)
<1>1. \A u \in Users : HeldBy(new, u) = HeldBy(rows, u)
  BY DEF HeldBy
<1>2. QED
  BY <1>1, GrantedIsTotal

LEMMA GrantedUpdate ==
    ASSUME NEW rows \in Rows, NEW new \in Rows, NEW p \in Projects,
           \A q \in Projects \ {p} : PipesOn(new, q) = PipesOn(rows, q)
    PROVE  /\ Granted(new, OwnerOf[p])
                = Granted(rows, OwnerOf[p]) - PipesOn(rows, p) + PipesOn(new, p)
           /\ \A u \in Users \ {OwnerOf[p]} : Granted(new, u) = Granted(rows, u)
<1>1. ASSUME NEW u \in Users
      PROVE  Granted(new, u) = Granted(rows, u) - HeldBy(rows, u)[p] + HeldBy(new, u)[p]
  <2>1. \A q \in Projects \ {p} : HeldBy(new, u)[q] = HeldBy(rows, u)[q]
    BY DEF HeldBy
  <2>2. Total(HeldBy(new, u), Projects)
          = Total(HeldBy(rows, u), Projects) - HeldBy(rows, u)[p] + HeldBy(new, u)[p]
    BY <2>1, HeldByType, InputsAssumption, TotalUpdate
  <2>3. QED
    BY <2>2, GrantedIsTotal
<1>2. OwnerOf[p] \in Users
  BY InputsAssumption
<1>3. \A u \in Users : /\ HeldBy(rows, u)[p] = IF OwnerOf[p] = u THEN PipesOn(rows, p) ELSE 0
                       /\ HeldBy(new, u)[p] = IF OwnerOf[p] = u THEN PipesOn(new, p) ELSE 0
  BY DEF HeldBy
<1>4. \A u \in Users : Granted(rows, u) \in Nat /\ Granted(new, u) \in Nat
  BY GrantedIsTotal
<1>5. ASSUME NEW u \in Users \ {OwnerOf[p]}
      PROVE  Granted(new, u) = Granted(rows, u)
  BY <1>1, <1>3, <1>4
<1>6. QED
  BY <1>1, <1>2, <1>3, <1>5

-----------------------------------------------------------------------------
(* What a step does to the records.                                         *)

Untouched == /\ \A q \in Projects : PipesOn(projects', q) = PipesOn(projects, q)
             /\ UNCHANGED <<wallet, peak>>

(* The record of one project moves, and everyone else's stays.              *)
OnlyRecordOf(p) == \A q \in Projects \ {p} : PipesOn(projects', q) = PipesOn(projects, q)

LEMMA RowsTyped == ReviewTypeOK => projects \in Rows
  BY DEF ReviewTypeOK, Rows

(* Statuses and hours may change everywhere as long as pipes do not.        *)
LEMMA SameRecords ==
    ASSUME ReviewTypeOK, ReviewTypeOK',
           \A q \in Projects :
               \/ projects'[q] = projects[q]
               \/ /\ projects[q] \in Project /\ projects'[q] \in Project
                  /\ projects'[q].pipesGranted = projects[q].pipesGranted
    PROVE  \A q \in Projects : PipesOn(projects', q) = PipesOn(projects, q)
<1> SUFFICES ASSUME NEW q \in Projects
             PROVE  PipesOn(projects', q) = PipesOn(projects, q)
  OBVIOUS
<1>1. CASE projects'[q] = projects[q]
  BY <1>1 DEF PipesOn, Column
<1>2. projects \in Rows /\ projects' \in Rows
  BY DEF ReviewTypeOK, Rows
<1>3. CASE /\ projects[q] \in Project /\ projects'[q] \in Project
           /\ projects'[q].pipesGranted = projects[q].pipesGranted
  BY <1>2, <1>3, PipesOnType
<1>4. QED
  BY <1>1, <1>3

(* Changing p's row and leaving its pipes.                                  *)
LEMMA SameRecord ==
    ASSUME ReviewTypeOK, ReviewTypeOK', NEW p \in ProjectRows, NEW row \in Project,
           projects' = [projects EXCEPT ![p] = row],
           row.pipesGranted = projects[p].pipesGranted
    PROVE  \A q \in Projects : PipesOn(projects', q) = PipesOn(projects, q)
<1>1. p \in Projects /\ projects[p] \in Project
  BY RowTypes DEF ProjectRows
<1>2. QED
  BY <1>1, SameRecords DEF ReviewTypeOK

LEMMA BuilderMoves ==
    ASSUME ReviewTypeOK, ReviewTypeOK', Builder
    PROVE  \/ Untouched
           \/ \E p \in Projects : /\ OnlyRecordOf(p) /\ PipesOn(projects', p) = 0
                                  /\ UNCHANGED <<wallet, peak>>
<1> SUFFICES ASSUME NEW p \in Projects,
                    Create(p) \/ Ship(p) \/ Withdraw(p) \/ Resubmit(p) \/ Delete(p)
             PROVE  \/ Untouched
                    \/ /\ OnlyRecordOf(p) /\ PipesOn(projects', p) = 0
                       /\ UNCHANGED <<wallet, peak>>
  BY DEF Builder
<1>1. projects \in Rows /\ projects' \in Rows
  BY DEF ReviewTypeOK, Rows
<1>2. CASE Create(p)
  <2>1. projects'[p] = Draft /\ OnlyRecordOf(p)
    BY <1>1, <1>2 DEF Create, OnlyRecordOf, PipesOn, Column, Rows
  <2>2. PipesOn(projects', p) = 0
    BY <1>1, <2>1, PipesOnType, NewSubmissionType DEF Draft
  <2>3. QED
    BY <1>2, <2>1, <2>2 DEF Create
<1>3. CASE Ship(p) \/ Resubmit(p)
  <2>1. p \in ProjectRows /\ projects[p] \in Project
    BY <1>3, RowTypes DEF Ship, Resubmit, Has
  <2>2. [projects[p] EXCEPT !.status = "unreviewed"] \in Project
    BY <2>1 DEF Project, Statuses
  <2>3. projects' = [projects EXCEPT ![p] = [projects[p] EXCEPT !.status = "unreviewed"]]
    BY <1>3 DEF Ship, Resubmit, Enqueue
  <2>4. \A q \in Projects : PipesOn(projects', q) = PipesOn(projects, q)
    BY <2>1, <2>2, <2>3, SameRecord DEF Project
  <2>5. QED
    BY <1>3, <2>4 DEF Untouched, Ship, Resubmit, Enqueue
<1>4. CASE Withdraw(p)
  <2>1. p \in ProjectRows /\ projects[p] \in Project
    BY <1>4, RowTypes DEF Withdraw, Has
  <2>2. [projects[p] EXCEPT !.status = "unshipped"] \in Project
    BY <2>1 DEF Project, Statuses
  <2>3. \A q \in Projects : PipesOn(projects', q) = PipesOn(projects, q)
    BY <1>4, <2>1, <2>2, SameRecord DEF Project, Withdraw
  <2>4. QED
    BY <1>4, <2>3 DEF Untouched, Withdraw
<1>5. CASE Delete(p)
  <2>1. projects'[p] = Removed /\ OnlyRecordOf(p)
    BY <1>1, <1>5 DEF Delete, OnlyRecordOf, PipesOn, Column, Rows
  <2>2. PipesOn(projects', p) = 0
    BY <1>1, <2>1, PipesOnType
  <2>3. QED
    BY <1>5, <2>1, <2>2 DEF Delete
<1>6. QED
  BY <1>2, <1>3, <1>4, <1>5

LEMMA FirstReviewerMoves ==
    ASSUME ReviewTypeOK, ReviewTypeOK', FirstReviewer
    PROVE  \/ Untouched
           \/ \E p \in Projects :
                /\ OnlyRecordOf(p) /\ PipesOn(projects', p) = 0
                /\ wallet' = [wallet EXCEPT ![OwnerOf[p]] = @ - PipesOn(projects, p)]
                /\ UNCHANGED peak
<1>1. ASSUME NEW p \in Projects, NEW h \in Deltas \cup {None}, FirstPass(p, h)
      PROVE  Untouched
  <2> DEFINE hours == projects[p].hours + Given(h, 0)
             row == [projects[p] EXCEPT !.status = "fraud_pending", !.hours = hours]
  <2>1. p \in ProjectRows /\ projects[p] \in Project
    BY <1>1, RowTypes DEF FirstPass, Has
  <2>2. hours \in Int
    BY <2>1, InputsAssumption DEF Given, Project
  <2>3. projects' = [projects EXCEPT ![p] = row]
    BY <1>1 DEF FirstPass
  <2>4. row \in Project /\ row.pipesGranted = projects[p].pipesGranted
    <3> HIDE DEF hours
    <3>1. QED
      BY <2>1, <2>2 DEF Project, Statuses
  <2>5. \A q \in Projects : PipesOn(projects', q) = PipesOn(projects, q)
    <3> HIDE DEF row
    <3>1. QED
      BY <2>1, <2>3, <2>4, SameRecord
  <2>6. QED
    BY <1>1, <2>5 DEF FirstPass, Untouched
<1>2. ASSUME NEW p \in Projects, NEW h \in Deltas, NEW s \in 1 .. Len(submissions[p]),
             EditHours(p, s, h)
      PROVE  Untouched
  <2> DEFINE hours == projects[p].hours - Given(submissions[p][s].hours, 0) + h
             row == [projects[p] EXCEPT !.hours = hours]
  <2>1. p \in ProjectRows /\ projects[p] \in Project /\ submissions[p][s] \in Submission
    BY <1>2, RowTypes DEF EditHours, Has
  <2>2. hours \in Int
    BY <2>1, InputsAssumption, HoursTypes DEF Project
  <2>3. projects' = [projects EXCEPT ![p] = row]
    BY <1>2 DEF EditHours
  <2>4. row \in Project /\ row.pipesGranted = projects[p].pipesGranted
    <3> HIDE DEF hours
    <3>1. QED
      BY <2>1, <2>2 DEF Project
  <2>5. \A q \in Projects : PipesOn(projects', q) = PipesOn(projects, q)
    <3> HIDE DEF row
    <3>1. QED
      BY <2>1, <2>3, <2>4, SameRecord
  <2>6. QED
    BY <1>2, <2>5 DEF EditHours, Untouched
<1>3. ASSUME NEW p \in Projects, NEW h \in Deltas \cup {None}, NEW verdict \in Verdicts,
             SendBack(p, verdict, h)
      PROVE  \/ Untouched
             \/ /\ OnlyRecordOf(p) /\ PipesOn(projects', p) = 0
                /\ wallet' = [wallet EXCEPT ![OwnerOf[p]] = @ - PipesOn(projects, p)]
                /\ UNCHANGED peak
  <2> DEFINE row == SentBack(projects[p], verdict)
  <2>1. p \in ProjectRows /\ projects[p] \in Project /\ projects \in Rows /\ projects' \in Rows
    BY <1>3, RowTypes DEF SendBack, ReviewTypeOK, Rows
  <2>2. row \in Project /\ projects' = [projects EXCEPT ![p] = row] /\ UNCHANGED peak
    BY <1>3, <2>1, SentBackType DEF SendBack
  <2>3. wallet' = [wallet EXCEPT ![OwnerOf[p]] = @ - Clawed(projects[p])]
    BY <1>3 DEF SendBack
  <2>4. CASE projects[p].status = "approved"
    <3>1. row.pipesGranted = 0 /\ Clawed(projects[p]) = PipesOn(projects, p)
      BY <2>1, <2>4, PipesOnType DEF SentBack, Clawed
    <3>2. projects'[p] = row /\ OnlyRecordOf(p)
      BY <2>1, <2>2 DEF OnlyRecordOf, PipesOn, Column, Rows
    <3>3. PipesOn(projects', p) = 0
      BY <2>1, <2>2, <3>1, <3>2, PipesOnType
    <3>4. QED
      BY <2>2, <2>3, <3>1, <3>2, <3>3
  <2>5. CASE projects[p].status # "approved"
    <3>1. row.pipesGranted = projects[p].pipesGranted
      BY <2>1, <2>5 DEF SentBack, Project
    <3>2. \A q \in Projects : PipesOn(projects', q) = PipesOn(projects, q)
      <4> HIDE DEF row
      <4>1. QED
        BY <2>1, <2>2, <3>1, SameRecord
    <3>3. wallet' = wallet
      <4>1. OwnerOf[p] \in Users /\ wallet \in [Users -> Int] /\ Clawed(projects[p]) = 0
        BY <2>5, InputsAssumption DEF Clawed, ReviewTypeOK
      <4>2. wallet[OwnerOf[p]] - 0 = wallet[OwnerOf[p]]
        BY <4>1
      <4>3. QED
        BY <2>3, <4>1, <4>2
    <3>4. QED
      BY <2>2, <3>2, <3>3 DEF Untouched
  <2>6. QED
    BY <2>4, <2>5
<1>4. QED
  BY <1>1, <1>2, <1>3 DEF FirstReviewer

LEMMA ReturnMoves ==
    ASSUME ReviewTypeOK, ReviewTypeOK', NEW p \in Projects, Return(p)
    PROVE  Untouched
<1>1. \A q \in Projects : PipesOn(projects', q) = PipesOn(projects, q)
  BY ReturnRow, SameRecord
<1>2. QED
  BY <1>1 DEF Return, Untouched

LEMMA AuditRejectMoves ==
    ASSUME ReviewTypeOK, ReviewTypeOK', NEW p \in Projects, NEW verdict \in Verdicts,
           AuditReject(p, verdict)
    PROVE  Untouched
<1> DEFINE row == [projects[p] EXCEPT !.status = verdict, !.hours = 0]
<1>1. p \in ProjectRows /\ projects[p] \in Project /\ verdict \in Statuses
  BY RowTypes DEF AuditReject, Has, Verdicts, Statuses
<1>2. projects' = [projects EXCEPT ![p] = row]
  BY DEF AuditReject, ReviewTypeOK
<1>3. row \in Project
  BY <1>1, 0 \in Int, ProjectUpdate, Zenon
<1>4. row.pipesGranted = projects[p].pipesGranted
  BY <1>1 DEF Project
<1>5. \A q \in Projects : PipesOn(projects', q) = PipesOn(projects, q)
  <2> HIDE DEF row
  <2>1. QED
    BY <1>1, <1>2, <1>3, <1>4, SameRecord
<1>6. QED
  BY <1>5 DEF AuditReject, Untouched

LEMMA LoadQueueMoves ==
    ASSUME ReviewTypeOK, ReviewTypeOK', LoadQueue
    PROVE  Untouched
<1>1. \A q \in Projects :
        \/ projects'[q] = projects[q]
        \/ /\ Has(q, {"unreviewed"})
           /\ projects'[q] = [projects[q] EXCEPT !.status = "fraud_pending"]
  BY DEF LoadQueue
<1>2. \A q \in Projects : Has(q, {"unreviewed"}) => projects[q] \in Project
  BY RowTypes DEF Has
<1>3. \A q \in Projects :
        \/ projects'[q] = projects[q]
        \/ /\ projects[q] \in Project /\ projects'[q] \in Project
           /\ projects'[q].pipesGranted = projects[q].pipesGranted
  BY <1>1, <1>2 DEF Project, Statuses
<1>4. QED
  BY <1>3, SameRecords DEF LoadQueue, Untouched

LEMMA StaffMoves ==
    ASSUME ReviewTypeOK, ReviewTypeOK', Staff
    PROVE  Untouched
<1>1. ASSUME NEW u \in Users, NEW q \in Queued(u)
      PROVE  /\ projects[q] \in Project /\ Swept(q) \in Project
             /\ Swept(q).pipesGranted = projects[q].pipesGranted
  <2>1. projects[q] \in Project
    BY RowTypes DEF Queued, Has
  <2>2. Swept(q) \in Project
    BY SweepTypes
  <2>3. QED
    BY <2>1, <2>2 DEF Swept, Project
<1>2. ASSUME NEW u \in Users, Ban(u)
      PROVE  Untouched
  <2>1. \A q \in Projects : projects'[q] = IF q \in Queued(u) THEN Swept(q) ELSE projects[q]
    BY <1>2 DEF Ban, SweptProjects
  <2>2. \A q \in Projects :
          \/ projects'[q] = projects[q]
          \/ /\ projects[q] \in Project /\ projects'[q] \in Project
             /\ projects'[q].pipesGranted = projects[q].pipesGranted
    BY <1>1, <2>1
  <2>3. QED
    BY <1>2, <2>2, SameRecords DEF Ban, Untouched
<1>3. ASSUME NEW p \in Projects, BanFromReview(p)
      PROVE  Untouched
  <2> DEFINE u == OwnerOf[p]
             rows == SweptProjects(u)
             row == [rows[p] EXCEPT !.status = "rejected"]
  <2>1. u \in Users /\ p \in ProjectRows /\ projects[p] \in Project
    BY <1>3, RowTypes, InputsAssumption DEF BanFromReview
  <2>2. \A q \in Projects : rows[q] = IF q \in Queued(u) THEN Swept(q) ELSE projects[q]
    BY DEF SweptProjects
  <2>3. rows[p] \in Project /\ rows[p].pipesGranted = projects[p].pipesGranted
    BY <1>1, <2>1, <2>2
  <2>4. \A q \in Projects : projects'[q] = IF q = p THEN row ELSE rows[q]
    BY <1>3 DEF BanFromReview, SweptProjects
  <2>5. row \in Project /\ row.pipesGranted = projects[p].pipesGranted
    <3> HIDE DEF rows
    <3>1. QED
      BY <2>3 DEF Project, Statuses
  <2>6. ASSUME NEW q \in Projects
        PROVE  \/ projects'[q] = projects[q]
               \/ /\ projects[q] \in Project /\ projects'[q] \in Project
                  /\ projects'[q].pipesGranted = projects[q].pipesGranted
    <3>1. CASE q = p
      BY <2>1, <2>4, <2>5, <3>1
    <3>2. CASE q # p
      <4>1. projects'[q] = IF q \in Queued(u) THEN Swept(q) ELSE projects[q]
        BY <2>2, <2>4, <3>2
      <4>2. QED
        BY <1>1, <2>1, <4>1
    <3>3. QED
      BY <3>1, <3>2
  <2>7. QED
    BY <1>3, <2>6, SameRecords DEF BanFromReview, Untouched
<1>4. ASSUME NEW p \in Projects, NEW h \in Logged, ReviewDevlogs(p, h)
      PROVE  Untouched
  BY <1>4 DEF ReviewDevlogs, Untouched
<1>5. QED
  BY <1>2, <1>3, <1>4 DEF Staff

(* The audit's payment: everyone's record and wallet stay but for the       *)
(* builder's, which both rise by what is paid; and a payment leaves no more *)
(* on record than one pipe for ten tenths of an hour owed.                  *)
LEMMA AuthorizeMoves ==
    ASSUME ReviewTypeOK, ReviewTypeOK', NEW p \in Projects, NEW h \in Finals \cup {None},
           Authorize(p, h)
    PROVE  /\ OnlyRecordOf(p)
           /\ PipesOn(projects', p) = PipesOn(projects, p) + Paid(p, h)
           /\ wallet' = [wallet EXCEPT ![OwnerOf[p]] = @ + Paid(p, h)]
           /\ \A u \in Users \ {OwnerOf[p]} : peak'[u] = peak[u]
           /\ peak'[OwnerOf[p]] >= peak[OwnerOf[p]]
           /\ Paid(p, h) > 0 =>
                10 * (Granted(projects, OwnerOf[p]) + Paid(p, h)) <= peak'[OwnerOf[p]]
<1> DEFINE u == OwnerOf[p]
           rows == Approved(p, h)
<1>1. p \in ProjectRows /\ projects[p] \in Project /\ u \in Users /\ projects \in Rows
  BY RowTypes, InputsAssumption DEF Authorize, Has, ReviewTypeOK, Rows
<1>2. /\ rows \in Rows /\ rows[p] \in Project /\ Paid(p, h) \in Nat
      /\ rows[p] = [projects[p] EXCEPT !.status = "approved", !.hours = Given(h, @)]
  BY <1>1, ApprovedType
<1>3. rows[p].pipesGranted = projects[p].pipesGranted
  BY <1>1, <1>2 DEF Project
<1>4. \A q \in Projects \ {p} : rows[q] = projects[q]
  BY <1>1 DEF Approved, Rows
<1>5. projects' = [rows EXCEPT ![p].pipesGranted = @ + Paid(p, h)]
  BY DEF Authorize, Approved, Paid
<1>6. projects'[p].pipesGranted = projects[p].pipesGranted + Paid(p, h)
  <2> HIDE DEF rows
  <2>1. projects'[p] = [rows[p] EXCEPT !.pipesGranted = @ + Paid(p, h)]
    BY <1>2, <1>5 DEF Rows
  <2>2. QED
    BY <1>2, <1>3, <2>1 DEF Project
<1>7. OnlyRecordOf(p)
  <2>1. \A q \in Projects \ {p} : projects'[q] = projects[q]
    BY <1>2, <1>4, <1>5 DEF Rows
  <2>2. QED
    BY <2>1 DEF OnlyRecordOf, PipesOn, Column
<1>8. PipesOn(projects', p) = PipesOn(projects, p) + Paid(p, h)
  <2>1. projects'[p] \in Project /\ projects' \in Rows
    <3> HIDE DEF rows
    <3>1. projects'[p] = [rows[p] EXCEPT !.pipesGranted = @ + Paid(p, h)]
      BY <1>2, <1>5 DEF Rows
    <3>2. rows[p].pipesGranted + Paid(p, h) \in Nat
      <4>1. rows[p].pipesGranted \in Nat
        BY <1>1, <1>3 DEF Project
      <4>2. QED
        BY <1>2, <4>1
    <3>3. projects'[p] \in Project
      <4> DEFINE n == rows[p].pipesGranted + Paid(p, h)
      <4>1. projects'[p] = [rows[p] EXCEPT !.pipesGranted = n]
        BY <3>1
      <4>2. n \in Nat
        BY <3>2
      <4> HIDE DEF n
      <4>3. QED
        BY <1>2, <4>1, <4>2 DEF Project
    <3>4. QED
      BY <3>3 DEF ReviewTypeOK, Rows
  <2>2. QED
    BY <1>1, <1>6, <2>1, PipesOnType
<1>9. wallet' = [wallet EXCEPT ![u] = @ + Paid(p, h)]
  BY DEF Authorize, Approved, Paid
<1>10. peak' = [peak EXCEPT ![u] = Most(@, Owed(rows, u))]
  BY DEF Authorize, Approved
<1>11. Owed(rows, u) \in Int /\ peak[u] \in Nat /\ devlogHours \in [Projects -> Nat]
  BY <1>1, <1>2, OwedType DEF ReviewTypeOK
<1>12. /\ \A v \in Users \ {u} : peak'[v] = peak[v]
       /\ peak'[u] >= peak[u] /\ peak'[u] >= Owed(rows, u) /\ peak'[u] \in Int
  BY <1>1, <1>10, <1>11 DEF Most, ReviewTypeOK
<1>13. Granted(rows, u) = Granted(projects, u)
  <2>1. \A q \in Projects : PipesOn(rows, q) = PipesOn(projects, q)
    <3>1. PipesOn(rows, p) = PipesOn(projects, p)
      BY <1>1, <1>2, <1>3, PipesOnType
    <3>2. \A q \in Projects \ {p} : PipesOn(rows, q) = PipesOn(projects, q)
      BY <1>4 DEF PipesOn, Column
    <3>3. QED
      BY <3>1, <3>2
  <2>2. QED
    BY <1>1, <1>2, <2>1, GrantedSame
<1>14. ASSUME Paid(p, h) > 0
       PROVE  10 * (Granted(projects, u) + Paid(p, h)) <= peak'[u]
  <2>1. Paid(p, h) = Due(rows, u) /\ Due(rows, u) > 0
    BY <1>14 DEF Paid
  <2>2. Paid(p, h) = Owed(rows, u) \div 10 - Granted(projects, u)
    BY <1>1, <1>2, <1>11, <1>13, <2>1, DueType
  <2>3. Granted(projects, u) \in Nat
    BY <1>1, GrantedIsTotal
  <2>4. 10 * (Owed(rows, u) \div 10) <= Owed(rows, u) /\ Owed(rows, u) \div 10 \in Int
    BY <1>11
  <2>5. Granted(projects, u) + Paid(p, h) = Owed(rows, u) \div 10
    BY <2>2, <2>3, <2>4
  <2> HIDE DEF rows, u
  <2>6. QED
    BY <1>11, <1>12, <2>4, <2>5
<1>15. QED
  BY <1>7, <1>8, <1>9, <1>12, <1>14

(* Every step of the desk: nothing moves, a project loses its record with   *)
(* or without a clawback, or the audit pays.                                *)
Revoked(p) ==
    /\ OnlyRecordOf(p) /\ PipesOn(projects', p) = 0 /\ UNCHANGED peak
    /\ \/ UNCHANGED wallet
       \/ wallet' = [wallet EXCEPT ![OwnerOf[p]] = @ - PipesOn(projects, p)]

LEMMA StepMoves ==
    ASSUME ReviewTypeOK, ReviewTypeOK', ReviewNext
    PROVE  \/ Untouched
           \/ \E p \in Projects : Revoked(p)
           \/ \E p \in Projects, h \in Finals \cup {None} : Authorize(p, h)
<1>1. CASE Builder
  BY <1>1, BuilderMoves DEF Revoked
<1>2. CASE FirstReviewer
  BY <1>2, FirstReviewerMoves DEF Revoked
<1>3. CASE Auditor
  BY <1>3, LoadQueueMoves, ReturnMoves, AuditRejectMoves DEF Auditor
<1>4. CASE Staff
  BY <1>4, StaffMoves
<1>5. QED
  BY <1>1, <1>2, <1>3, <1>4 DEF ReviewNext

(* What a revocation does to the sums.                                      *)
LEMMA RevokedSums ==
    ASSUME ReviewTypeOK, ReviewTypeOK', NEW p \in Projects, Revoked(p)
    PROVE  /\ Granted(projects', OwnerOf[p])
                = Granted(projects, OwnerOf[p]) - PipesOn(projects, p)
           /\ \A u \in Users \ {OwnerOf[p]} : Granted(projects', u) = Granted(projects, u)
<1>1. projects \in Rows /\ projects' \in Rows
  BY DEF ReviewTypeOK, Rows
<1>2. OwnerOf[p] \in Users
  BY InputsAssumption
<1>3. PipesOn(projects, p) \in Nat /\ Granted(projects, OwnerOf[p]) \in Nat
  BY <1>1, <1>2, PipesOnType, GrantedIsTotal
<1>4. QED
  BY <1>1, <1>3, GrantedUpdate DEF Revoked, OnlyRecordOf

(* What a payment does to the sums.                                         *)
LEMMA AuthorizedSums ==
    ASSUME ReviewTypeOK, ReviewTypeOK', NEW p \in Projects, NEW h \in Finals \cup {None},
           Authorize(p, h)
    PROVE  /\ Paid(p, h) \in Nat
           /\ Granted(projects', OwnerOf[p]) = Granted(projects, OwnerOf[p]) + Paid(p, h)
           /\ \A u \in Users \ {OwnerOf[p]} : Granted(projects', u) = Granted(projects, u)
<1>1. projects \in Rows /\ projects' \in Rows
  BY DEF ReviewTypeOK, Rows
<1>2. OwnerOf[p] \in Users /\ p \in ProjectRows
  BY InputsAssumption DEF Authorize, Has
<1>3. PipesOn(projects, p) \in Nat /\ Granted(projects, OwnerOf[p]) \in Nat
  BY <1>1, <1>2, PipesOnType, GrantedIsTotal
<1>4. Paid(p, h) \in Nat
  BY <1>2, ApprovedType
<1>5. QED
  BY <1>1, <1>3, <1>4, GrantedUpdate, AuthorizeMoves DEF OnlyRecordOf

-----------------------------------------------------------------------------
(* No hour is paid twice: however a builder's projects are approved, sent   *)
(* back, resubmitted and edited, the pipes on their record never exceed one *)
(* per full hour of the most they were ever owed.                           *)
THEOREM HoursPaidOnce == ReviewSpec => []NoHourPaidTwice
<1> DEFINE IInv == ReviewTypeOK /\ NoHourPaidTwice
<1>1. ReviewInit => NoHourPaidTwice
  <2> SUFFICES ASSUME ReviewInit, NEW u \in Users
               PROVE  10 * Granted(projects, u) <= peak[u]
    BY DEF NoHourPaidTwice
  <2>1. projects \in Rows /\ peak[u] = 0
    BY NewSubmissionType DEF ReviewInit, Rows
  <2>2. \A q \in Projects : PipesOn(projects, q) = 0
    BY <2>1, PipesOnType, NewSubmissionType DEF ReviewInit, Draft
  <2>3. Total(HeldBy(projects, u), Projects) = 0
    BY <2>2, TotalZero DEF HeldBy
  <2>4. QED
    BY <2>1, <2>3, GrantedIsTotal
<1>2. IInv /\ ReviewTypeOK' /\ [ReviewNext]_vars => NoHourPaidTwice'
  <2> SUFFICES ASSUME ReviewTypeOK, NoHourPaidTwice, ReviewTypeOK', [ReviewNext]_vars,
                      NEW u \in Users
               PROVE  10 * Granted(projects', u) <= peak'[u]
    BY DEF NoHourPaidTwice, Granted, Sum, Counted, Column
  <2>1. projects \in Rows /\ projects' \in Rows
    BY DEF ReviewTypeOK, Rows
  <2>2. /\ 10 * Granted(projects, u) <= peak[u]
        /\ Granted(projects, u) \in Nat /\ Granted(projects', u) \in Nat
        /\ peak[u] \in Nat /\ peak'[u] \in Nat
    BY <2>1, GrantedIsTotal DEF NoHourPaidTwice, ReviewTypeOK
  <2>3. CASE UNCHANGED vars
    BY <2>2, <2>3 DEF vars
  <2>4. CASE Untouched
    <3>1. Granted(projects', u) = Granted(projects, u) /\ peak' = peak
      BY <2>1, <2>4, GrantedSame DEF Untouched
    <3>2. QED
      BY <2>2, <3>1
  <2>5. ASSUME NEW p \in Projects, Revoked(p)
        PROVE  10 * Granted(projects', u) <= peak'[u]
    <3>1. PipesOn(projects, p) \in Nat /\ peak' = peak
      BY <2>1, <2>5, PipesOnType DEF Revoked
    <3>2. Granted(projects', u) <= Granted(projects, u)
      BY <2>2, <2>5, <3>1, RevokedSums
    <3>3. QED
      BY <2>2, <3>1, <3>2
  <2>6. ASSUME NEW p \in Projects, NEW h \in Finals \cup {None}, Authorize(p, h)
        PROVE  10 * Granted(projects', u) <= peak'[u]
    <3>1. CASE u # OwnerOf[p]
      BY <2>2, <2>6, <3>1, AuthorizedSums, AuthorizeMoves
    <3>2. CASE u = OwnerOf[p]
      <4>1. /\ Paid(p, h) \in Nat
            /\ Granted(projects', u) = Granted(projects, u) + Paid(p, h)
        BY <2>6, <3>2, AuthorizedSums
      <4>2. /\ peak'[u] >= peak[u]
            /\ Paid(p, h) > 0 => 10 * (Granted(projects, u) + Paid(p, h)) <= peak'[u]
        BY <2>6, <3>2, AuthorizeMoves
      <4>3. QED
        BY <2>2, <4>1, <4>2
    <3>3. QED
      BY <3>1, <3>2
  <2>7. QED
    BY <2>3, <2>4, <2>5, <2>6, StepMoves
<1>3. QED
  BY <1>1, <1>2, ReviewTypeCorrect, PTL DEF ReviewSpec

-----------------------------------------------------------------------------
(* The desk moves pipes only as the ledger allows: a wallet rises by what   *)
(* is put on a project's record, falls by what is taken off one, and a      *)
(* record that goes away with its project takes nothing from the wallet.    *)
THEOREM ReviewImplementsLedger == ReviewSpec => ImplementsLedger
<1>1. ReviewInit => Pipes!Init
  <2> SUFFICES ASSUME ReviewInit, NEW u \in Users
               PROVE  Granted(projects, u) = 0
    BY DEF Pipes!Init, Recorded, ReviewInit
  <2>1. projects \in Rows
    BY NewSubmissionType DEF ReviewInit, Rows
  <2>2. \A q \in Projects : PipesOn(projects, q) = 0
    BY <2>1, PipesOnType, NewSubmissionType DEF ReviewInit, Draft
  <2>3. Total(HeldBy(projects, u), Projects) = 0
    BY <2>2, TotalZero DEF HeldBy
  <2>4. QED
    BY <2>1, <2>3, GrantedIsTotal
<1>2. ReviewTypeOK /\ ReviewTypeOK' /\ [ReviewNext]_vars => [Pipes!Next]_<<wallet, Recorded>>
  <2> SUFFICES ASSUME ReviewTypeOK, ReviewTypeOK', [ReviewNext]_vars
               PROVE  [Pipes!Next]_<<wallet, Recorded>>
    OBVIOUS
  <2>1. projects \in Rows /\ projects' \in Rows
    BY DEF ReviewTypeOK, Rows
  <2>2. /\ Recorded = [u \in Users |-> Granted(projects, u)]
        /\ Recorded' = [u \in Users |-> Granted(projects', u)]
    BY DEF Recorded, Granted, Sum, Counted, Column
  <2>3. \A u \in Users : Granted(projects, u) \in Nat /\ Granted(projects', u) \in Nat
    BY <2>1, GrantedIsTotal
  <2>4. CASE UNCHANGED vars
    BY <2>4 DEF vars, Recorded, Granted, Sum, Counted, Column
  <2>5. CASE Untouched
    BY <2>1, <2>2, <2>5, GrantedSame DEF Untouched
  (* One record moves by delta, and the wallet with it or not at all.       *)
  <2>6. ASSUME NEW u \in Users, NEW delta \in Int,
               Granted(projects', u) = Granted(projects, u) + delta,
               \A v \in Users \ {u} : Granted(projects', v) = Granted(projects, v),
               \/ wallet' = [wallet EXCEPT ![u] = @ + delta]
               \/ delta <= 0 /\ UNCHANGED wallet
        PROVE  [Pipes!Next]_<<wallet, Recorded>>
    <3>1. Recorded' = [Recorded EXCEPT ![u] = @ + delta]
      BY <2>2, <2>6
    <3>2. Recorded'[u] - Recorded[u] = delta
      BY <2>2, <2>3, <2>6
    <3>3. Recorded' \in [Users -> Nat]
      BY <2>2, <2>3
    <3>4. Pipes!Records(u, delta)
      BY <3>1, <3>3 DEF Pipes!Records
    <3>5. CASE wallet' = [wallet EXCEPT ![u] = @ + delta]
      BY <3>2, <3>4, <3>5 DEF Pipes!Next, Pipes!Move, Pipes!Pays
    <3>6. CASE delta < 0 /\ UNCHANGED wallet
      BY <3>2, <3>4, <3>6 DEF Pipes!Next, Pipes!Move
    <3>7. CASE delta = 0 /\ UNCHANGED wallet
      <4>1. \A v \in Users : Granted(projects', v) = Granted(projects, v)
        BY <2>3, <2>6, <3>7
      <4>2. QED
        BY <2>2, <3>7, <4>1
    <3>8. QED
      BY <2>6, <3>5, <3>6, <3>7
  <2>7. ASSUME NEW p \in Projects, Revoked(p)
        PROVE  [Pipes!Next]_<<wallet, Recorded>>
    <3> DEFINE delta == 0 - PipesOn(projects, p)
               u == OwnerOf[p]
    <3>1. u \in Users /\ PipesOn(projects, p) \in Nat /\ wallet \in [Users -> Int]
      BY <2>1, InputsAssumption, PipesOnType DEF ReviewTypeOK
    <3>2. /\ Granted(projects', u) = Granted(projects, u) + delta
          /\ \A v \in Users \ {u} : Granted(projects', v) = Granted(projects, v)
      BY <2>3, <2>7, <3>1, RevokedSums
    <3>3. wallet[u] - PipesOn(projects, p) = wallet[u] + delta
      BY <3>1
    <3>4. \/ wallet' = [wallet EXCEPT ![u] = @ + delta]
          \/ delta <= 0 /\ UNCHANGED wallet
      BY <2>7, <3>1, <3>3 DEF Revoked
    <3>5. delta \in Int
      BY <3>1
    <3> HIDE DEF delta, u
    <3>6. QED
      BY <2>6, <3>1, <3>2, <3>4, <3>5
  <2>8. ASSUME NEW p \in Projects, NEW h \in Finals \cup {None}, Authorize(p, h)
        PROVE  [Pipes!Next]_<<wallet, Recorded>>
    <3>1. OwnerOf[p] \in Users
      BY InputsAssumption
    <3>2. QED
      BY <2>6, <2>8, <3>1, AuthorizedSums, AuthorizeMoves
  <2>9. QED
    BY <2>4, <2>5, <2>7, <2>8, StepMoves
<1>3. QED
  BY <1>1, <1>2, ReviewTypeCorrect, PTL DEF ReviewSpec, ImplementsLedger, Pipes!Spec

(* A move of the ledger keeps every recorded pipe backed.                   *)
LEMMA MoveBacked ==
    ASSUME wallet \in [Users -> Int], Recorded \in [Users -> Nat], Pipes!RecordIsBacked,
           [Pipes!Next]_<<wallet, Recorded>>
    PROVE  Pipes!RecordIsBacked'
<1>1. ASSUME NEW u \in Users, Pipes!Move(u)
      PROVE  Pipes!RecordIsBacked'
  <2> DEFINE delta == Recorded'[u] - Recorded[u]
  <2>1. /\ Pipes!Records(u, delta)
        /\ Pipes!Pays(u, delta) \/ (delta < 0 /\ wallet' = wallet)
    BY <1>1 DEF Pipes!Move
  <2>2. Recorded' \in [Users -> Nat] /\ Recorded' = [Recorded EXCEPT ![u] = @ + delta]
    BY <2>1 DEF Pipes!Records
  <2>3. wallet' = [wallet EXCEPT ![u] = @ + delta] \/ (delta < 0 /\ wallet' = wallet)
    BY <2>1 DEF Pipes!Pays
  <2>4. delta \in Int
    BY <2>2
  <2> HIDE DEF delta
  <2>5. QED
    BY <2>2, <2>3, <2>4 DEF Pipes!RecordIsBacked
<1>2. CASE UNCHANGED <<wallet, Recorded>>
  BY <1>2 DEF Pipes!RecordIsBacked
<1>3. QED
  BY <1>1, <1>2 DEF Pipes!Next

(* So reviews alone never leave a wallet short of what is on record: every  *)
(* clawback of a grant is covered, unless the shop or an admin has spent    *)
(* the pipes.                                                               *)
THEOREM Backed == ReviewSpec => []Pipes!RecordIsBacked
<1>1. ReviewTypeOK => wallet \in [Users -> Int] /\ Recorded \in [Users -> Nat]
  <2> SUFFICES ASSUME ReviewTypeOK PROVE wallet \in [Users -> Int] /\ Recorded \in [Users -> Nat]
    OBVIOUS
  <2>1. projects \in Rows
    BY DEF ReviewTypeOK, Rows
  <2>2. Recorded = [u \in Users |-> Granted(projects, u)]
    BY DEF Recorded, Granted, Sum, Counted, Column
  <2>3. QED
    BY <2>1, <2>2, GrantedIsTotal DEF ReviewTypeOK
<1>2. Pipes!Init => Pipes!RecordIsBacked
  BY DEF Pipes!Init, Pipes!RecordIsBacked
<1>3. QED
  BY <1>1, <1>2, MoveBacked, ReviewImplementsLedger, ReviewTypeCorrect, PTL
  DEF ImplementsLedger, Pipes!Spec

-----------------------------------------------------------------------------
(* Statuses.  A step leaves a row alone, puts it into the audit's hands or  *)
(* sends it back, takes a row that is not rejected somewhere else, or is    *)
(* the audit's approval.                                                    *)
Decided(q) == projects'[q] \in Project /\ projects'[q].status \in Verdicts \cup {"fraud_pending"}
TakenBack(q) ==
    /\ ~ Has(q, {"rejected"})
    /\ projects'[q] = Removed \/ (projects'[q] \in Project /\ projects'[q].status # "approved")

LEMMA BuilderStatus ==
    ASSUME ReviewTypeOK, ReviewTypeOK', Builder, NEW q \in Projects
    PROVE  projects'[q] = projects[q] \/ TakenBack(q)
<1> SUFFICES ASSUME NEW p \in Projects,
                    Create(p) \/ Ship(p) \/ Withdraw(p) \/ Resubmit(p) \/ Delete(p)
             PROVE  projects'[q] = projects[q] \/ TakenBack(q)
  BY DEF Builder
<1>1. projects \in Rows /\ projects' \in Rows
  BY DEF ReviewTypeOK, Rows
<1>2. CASE q # p
  BY <1>1, <1>2 DEF Create, Ship, Withdraw, Resubmit, Delete, Enqueue, Rows
<1>3. CASE q = p
  <2>1. CASE Create(p)
    BY <1>1, <1>3, <2>1, NewSubmissionType
       DEF Create, TakenBack, Has, ProjectRows, Draft, Rows
  <2>2. CASE Ship(p) \/ Withdraw(p) \/ Resubmit(p)
    <3>1. projects[p] \in Project /\ ~ Has(p, {"rejected"})
      BY <2>2, RowTypes DEF Ship, Withdraw, Resubmit, Has
    <3>2. PICK status \in {"unreviewed", "unshipped"} :
            projects'[p] = [projects[p] EXCEPT !.status = status]
      BY <1>1, <2>2 DEF Ship, Withdraw, Resubmit, Enqueue, Rows
    <3>3. projects'[p] \in Project /\ projects'[p].status = status
      BY <3>1, <3>2 DEF Project, Statuses
    <3>4. QED
      BY <1>3, <3>1, <3>3 DEF TakenBack
  <2>3. CASE Delete(p)
    BY <1>1, <1>3, <2>3 DEF Delete, TakenBack, Has, Rows
  <2>4. QED
    BY <2>1, <2>2, <2>3
<1>4. QED
  BY <1>2, <1>3

LEMMA FirstReviewerStatus ==
    ASSUME ReviewTypeOK, ReviewTypeOK', FirstReviewer, NEW q \in Projects
    PROVE  projects'[q] = projects[q] \/ Decided(q)
<1>1. projects \in Rows /\ projects' \in Rows
  BY DEF ReviewTypeOK, Rows
<1>2. ASSUME NEW p \in Projects, NEW row \in Project,
             row.status \in Verdicts \cup {"fraud_pending"},
             projects' = [projects EXCEPT ![p] = row]
      PROVE  projects'[q] = projects[q] \/ Decided(q)
  BY <1>1, <1>2 DEF Decided, Rows
<1>3. ASSUME NEW p \in Projects, NEW h \in Deltas \cup {None}, FirstPass(p, h)
      PROVE  projects'[q] = projects[q] \/ Decided(q)
  <2> DEFINE hours == projects[p].hours + Given(h, 0)
             row == [projects[p] EXCEPT !.status = "fraud_pending", !.hours = hours]
  <2>1. projects[p] \in Project
    BY <1>3, RowTypes DEF FirstPass, Has
  <2>2. hours \in Int
    BY <2>1, InputsAssumption DEF Given, Project
  <2>3. projects' = [projects EXCEPT ![p] = row]
    BY <1>3 DEF FirstPass
  <2>4. row \in Project /\ row.status = "fraud_pending"
    <3> HIDE DEF hours
    <3>1. QED
      BY <2>1, <2>2 DEF Project, Statuses
  <2> HIDE DEF row
  <2>5. QED
    BY <1>2, <2>3, <2>4
<1>4. ASSUME NEW p \in Projects, NEW h \in Deltas \cup {None}, NEW verdict \in Verdicts,
             SendBack(p, verdict, h)
      PROVE  projects'[q] = projects[q] \/ Decided(q)
  <2>1. projects[p] \in Project
    BY <1>4, RowTypes DEF SendBack
  <2>2. SentBack(projects[p], verdict) \in Project
    BY <2>1, SentBackType
  <2>3. SentBack(projects[p], verdict).status = verdict
    BY <2>1 DEF SentBack, Project
  <2>4. projects' = [projects EXCEPT ![p] = SentBack(projects[p], verdict)]
    BY <1>4 DEF SendBack
  <2>5. QED
    BY <1>2, <2>2, <2>3, <2>4
<1>5. ASSUME NEW p \in Projects, NEW h \in Deltas, NEW s \in 1 .. Len(submissions[p]),
             EditHours(p, s, h)
      PROVE  projects'[q] = projects[q] \/ Decided(q)
  <2>1. CASE q # p
    BY <1>1, <1>5, <2>1 DEF EditHours, Rows
  <2>2. CASE q = p
    <3>1. projects[p] \in Project /\ projects[p].status = "fraud_pending"
      BY <1>5, RowTypes DEF EditHours, Has
    <3>2. submissions[p][s] \in Submission
      BY RowTypes
    <3> DEFINE hours == projects[p].hours - Given(submissions[p][s].hours, 0) + h
    <3>3. hours \in Int
      BY <3>1, <3>2, InputsAssumption, HoursTypes DEF Project
    <3>4. projects'[p] = [projects[p] EXCEPT !.hours = hours]
      BY <1>1, <1>5 DEF EditHours, Rows
    <3> HIDE DEF hours
    <3>5. projects'[p] \in Project /\ projects'[p].status = "fraud_pending"
      BY <3>1, <3>3, <3>4 DEF Project
    <3>6. QED
      BY <2>2, <3>5 DEF Decided
  <2>3. QED
    BY <2>1, <2>2
<1>6. QED
  BY <1>3, <1>4, <1>5 DEF FirstReviewer

LEMMA AuditorStatus ==
    ASSUME ReviewTypeOK, ReviewTypeOK', Auditor, NEW q \in Projects
    PROVE  \/ projects'[q] = projects[q] \/ Decided(q) \/ TakenBack(q)
           \/ \E h \in Finals \cup {None} : Authorize(q, h)
<1>1. projects \in Rows /\ projects' \in Rows
  BY DEF ReviewTypeOK, Rows
<1>2. CASE LoadQueue
  <2>1. \/ projects'[q] = projects[q]
        \/ /\ Has(q, {"unreviewed"})
           /\ projects'[q] = [projects[q] EXCEPT !.status = "fraud_pending"]
    BY <1>2 DEF LoadQueue
  <2>2. Has(q, {"unreviewed"}) => projects[q] \in Project
    BY RowTypes DEF Has
  <2>3. QED
    BY <2>1, <2>2 DEF Decided, Project, Statuses
<1>3. ASSUME NEW p \in Projects, NEW h \in Finals \cup {None}, Authorize(p, h)
      PROVE  projects'[q] = projects[q] \/ Authorize(q, h)
  <2>1. CASE q # p
    BY <1>1, <1>3, <2>1 DEF Authorize, Rows
  <2>2. QED
    BY <1>3, <2>1
<1>4. ASSUME NEW p \in Projects, Return(p)
      PROVE  projects'[q] = projects[q] \/ TakenBack(q)
  <2>1. CASE q # p
    BY <1>1, <1>4, <2>1 DEF Return, Rows
  <2>2. CASE q = p
    <3>1. ~ Has(p, {"rejected"})
      BY <1>4 DEF Return, Has
    <3>2. projects'[p] \in Project /\ projects'[p].status = "unreviewed"
      BY <1>1, <1>4, ReturnRow DEF Rows
    <3>3. QED
      BY <2>2, <3>1, <3>2 DEF TakenBack
  <2>3. QED
    BY <2>1, <2>2
<1>5. ASSUME NEW p \in Projects, NEW verdict \in Verdicts, AuditReject(p, verdict)
      PROVE  projects'[q] = projects[q] \/ Decided(q)
  <2>1. CASE q # p
    BY <1>1, <1>5, <2>1 DEF AuditReject, Rows
  <2>2. CASE q = p
    <3> DEFINE row == [projects[p] EXCEPT !.status = verdict, !.hours = 0]
    <3>1. projects[p] \in Project /\ verdict \in Statuses
      BY <1>5, RowTypes DEF AuditReject, Has, Verdicts, Statuses
    <3>2. row \in Project
      BY <3>1, 0 \in Int, ProjectUpdate, Zenon
    <3>3. row.status = verdict
      BY <3>1 DEF Project
    <3>4. projects'[p] = row
      BY <1>1, <1>5 DEF AuditReject, Rows
    <3> HIDE DEF row
    <3>5. QED
      BY <2>2, <3>2, <3>3, <3>4 DEF Decided
  <2>3. QED
    BY <2>1, <2>2
<1>6. QED
  BY <1>2, <1>3, <1>4, <1>5 DEF Auditor

LEMMA StaffStatus ==
    ASSUME ReviewTypeOK, ReviewTypeOK', Staff, NEW q \in Projects
    PROVE  projects'[q] = projects[q] \/ Decided(q)
<1>1. ASSUME NEW u \in Users
      PROVE  \/ SweptProjects(u)[q] = projects[q]
             \/ SweptProjects(u)[q] \in Project /\ SweptProjects(u)[q].status = "rejected"
  <2>1. CASE q \in Queued(u)
    <3>1. SweptProjects(u)[q] = Swept(q) /\ Swept(q) \in Project
      BY <2>1, SweepTypes DEF SweptProjects
    <3>2. projects[q] \in Project
      BY <2>1, RowTypes DEF Queued, Has
    <3>3. Swept(q).status = "rejected"
      BY <3>2 DEF Swept, Project
    <3>4. QED
      BY <3>1, <3>3
  <2>2. CASE q \notin Queued(u)
    BY <2>2 DEF SweptProjects
  <2>3. QED
    BY <2>1, <2>2
<1>2. ASSUME NEW u \in Users, Ban(u)
      PROVE  projects'[q] = projects[q] \/ Decided(q)
  BY <1>1, <1>2 DEF Ban, Decided, Verdicts
<1>3. ASSUME NEW p \in Projects, BanFromReview(p)
      PROVE  projects'[q] = projects[q] \/ Decided(q)
  <2> DEFINE rows == SweptProjects(OwnerOf[p])
  <2>1. OwnerOf[p] \in Users /\ rows \in Rows
    BY InputsAssumption, SweepTypes
  <2>2. projects' = [rows EXCEPT ![p].status = "rejected"]
    BY <1>3 DEF BanFromReview
  <2>3. CASE q # p
    <3>1. projects'[q] = rows[q]
      BY <2>1, <2>2, <2>3 DEF Rows
    <3>2. QED
      BY <1>1, <2>1, <3>1 DEF Decided, Verdicts
  <2>4. CASE q = p
    <3>1. rows[q] \in Project
      BY <1>1, <1>3, <2>1, <2>4, RowTypes DEF BanFromReview
    <3> HIDE DEF rows
    <3>2. projects'[q] = [rows[q] EXCEPT !.status = "rejected"]
      BY <2>1, <2>2, <2>4 DEF Rows
    <3>3. QED
      BY <3>1, <3>2 DEF Decided, Project, Statuses, Verdicts
  <2>5. QED
    BY <2>3, <2>4
<1>4. ASSUME NEW p \in Projects, NEW h \in Logged, ReviewDevlogs(p, h)
      PROVE  projects'[q] = projects[q]
  BY <1>4 DEF ReviewDevlogs
<1>5. QED
  BY <1>2, <1>3, <1>4 DEF Staff

LEMMA StepStatus ==
    ASSUME ReviewTypeOK, ReviewTypeOK', [ReviewNext]_vars, NEW q \in Projects
    PROVE  \/ projects'[q] = projects[q] \/ Decided(q) \/ TakenBack(q)
           \/ \E h \in Finals \cup {None} : Authorize(q, h)
<1>1. CASE UNCHANGED vars
  BY <1>1 DEF vars
<1>2. QED
  BY <1>1, BuilderStatus, FirstReviewerStatus, AuditorStatus, StaffStatus DEF ReviewNext

(* A rejected project stays with the reviewers: no step of its builder, of  *)
(* a return or of a load moves it, and it is never deleted.                 *)
THEOREM RejectionIsTerminal == ReviewSpec => RejectedIsTerminal
<1>1. ReviewTypeOK /\ ReviewTypeOK' /\ [ReviewNext]_vars =>
        [\A p \in Projects : Has(p, {"rejected"}) =>
            Has(p, {"rejected", "changes_needed", "fraud_pending"})']_vars
  <2> SUFFICES ASSUME ReviewTypeOK, ReviewTypeOK', [ReviewNext]_vars,
                      NEW p \in Projects, Has(p, {"rejected"})
               PROVE  Has(p, {"rejected", "changes_needed", "fraud_pending"})'
    OBVIOUS
  <2>1. ~ TakenBack(p)
    BY DEF TakenBack
  <2>2. \A h \in Finals \cup {None} : ~ Authorize(p, h)
    BY DEF Authorize, Has
  <2>3. CASE projects'[p] = projects[p]
    BY <2>3 DEF Has, ProjectRows
  <2>4. CASE Decided(p)
    BY <2>4, ReviewNullAssumption DEF Decided, Verdicts, Has, ProjectRows
  <2>5. QED
    BY <2>1, <2>2, <2>3, <2>4, StepStatus
<1>2. QED
  BY <1>1, ReviewTypeCorrect, PTL DEF ReviewSpec, RejectedIsTerminal

(* Whenever the audit approves a project that has hours, every full hour    *)
(* its builder is owed is on record as paid.                                *)
THEOREM ApprovalPays == ReviewSpec => ApprovalPaysInFull
<1>1. ASSUME ReviewTypeOK, ReviewTypeOK', NEW p \in Projects, NEW h \in Finals \cup {None},
             Authorize(p, h), projects'[p].hours > 0
      PROVE  10 * Granted(projects', OwnerOf[p]) + 10 > Owed(projects, OwnerOf[p])'
  <2> DEFINE u == OwnerOf[p]
             rows == Approved(p, h)
  <2>1. p \in ProjectRows /\ u \in Users
    BY <1>1, InputsAssumption DEF Authorize, Has
  <2>2. /\ rows \in Rows /\ projects \in Rows /\ projects' \in Rows
        /\ rows[p] \in Project /\ projects[p] \in Project
        /\ rows[p] = [projects[p] EXCEPT !.status = "approved", !.hours = Given(h, @)]
        /\ Paid(p, h) \in Nat
        /\ devlogHours' = devlogHours /\ devlogHours \in [Projects -> Nat]
    BY <1>1, <2>1, ApprovedType, RowTypes DEF Authorize, ReviewTypeOK, Rows
  <2>3. /\ projects'[p] = [rows[p] EXCEPT !.pipesGranted = @ + Paid(p, h)]
        /\ \A q \in Projects \ {p} : projects'[q] = rows[q]
    BY <1>1, <2>2 DEF Authorize, Approved, Paid, Rows
  <2>4. rows[p].status = "approved"
    BY <2>2 DEF Project
  <2>5. /\ projects'[p].status = "approved" /\ projects'[p].hours = rows[p].hours
        /\ projects'[p] \notin {Unused, Removed}
    <3>1. rows[p].pipesGranted + Paid(p, h) \in Nat
      <4> HIDE DEF rows
      <4>1. rows[p].pipesGranted \in Nat
        BY <2>2, Zenon DEF Project
      <4>2. QED
        BY <2>2, <4>1
    <3> DEFINE n == rows[p].pipesGranted + Paid(p, h)
    <3>2. projects'[p] = [rows[p] EXCEPT !.pipesGranted = n] /\ n \in Nat
      BY <2>3, <3>1
    <3> HIDE DEF n, rows
    <3>3. QED
      BY <2>2, <2>4, <3>2, ReviewNullAssumption DEF Project
  (* The row that was paid is counted before and after the payment.         *)
  <2>6. Counted(projects', u) = Counted(rows, u)
    <3>1. rows[p] \notin {Unused, Removed}
      BY <2>2, ReviewNullAssumption
    <3> HIDE DEF rows
    <3>2. QED
      BY <2>3, <2>4, <2>5, <3>1 DEF Counted
  <2>7. Column(projects', "hours") = Column(rows, "hours")
    <3>1. rows[p] \notin {Unused, Removed}
      BY <2>2, ReviewNullAssumption
    <3> HIDE DEF rows
    <3>2. QED
      BY <2>3, <2>5, <3>1 DEF Column
  <2>8. Owed(projects, u)' = Owed(rows, u)
    BY <2>2, <2>6, <2>7 DEF Owed, Sum, Counted, Column
  <2>9. Granted(rows, u) = Granted(projects, u)
    <3>1. rows[p].pipesGranted = projects[p].pipesGranted
      BY <2>2 DEF Project
    <3>2. PipesOn(rows, p) = PipesOn(projects, p)
      BY <2>2, <3>1, PipesOnType
    <3>3. \A q \in Projects \ {p} : PipesOn(rows, q) = PipesOn(projects, q)
      BY <2>2 DEF PipesOn, Column, Approved, Rows
    <3>4. QED
      BY <2>1, <2>2, <3>2, <3>3, GrantedSame
  <2>10. /\ Owed(rows, u) \in Int /\ Granted(projects, u) \in Nat
         /\ Granted(projects', u) = Granted(projects, u) + Paid(p, h)
    BY <1>1, <2>1, <2>2, OwedType, GrantedIsTotal, AuthorizedSums
  <2>11. Paid(p, h) = Due(rows, u)
    BY <1>1, <2>5 DEF Paid
  <2>12. Paid(p, h) >= Owed(rows, u) \div 10 - Granted(projects, u)
    BY <2>1, <2>2, <2>9, <2>11, DueType
  <2>13. 10 * (Owed(rows, u) \div 10) + 10 > Owed(rows, u) /\ Owed(rows, u) \div 10 \in Int
    BY <2>10
  <2>14. Granted(projects', u) >= Owed(rows, u) \div 10
    BY <2>2, <2>10, <2>12, <2>13
  <2> HIDE DEF rows, u
  <2>15. QED
    BY <2>2, <2>8, <2>10, <2>13, <2>14 DEF u
<1>2. ReviewTypeOK /\ ReviewTypeOK' /\ [ReviewNext]_vars =>
        [\A p \in Projects :
            Has(p, {"fraud_pending"}) /\ Has(p, {"approved"})' /\ projects'[p].hours > 0 =>
                10 * Granted(projects, OwnerOf[p])' + 10 > Owed(projects, OwnerOf[p])']_vars
  <2> SUFFICES ASSUME ReviewTypeOK, ReviewTypeOK', [ReviewNext]_vars, NEW p \in Projects,
                      Has(p, {"fraud_pending"}), Has(p, {"approved"})', projects'[p].hours > 0
               PROVE  10 * Granted(projects, OwnerOf[p])' + 10 > Owed(projects, OwnerOf[p])'
    OBVIOUS
  <2>1. projects'[p] # projects[p]
    BY DEF Has
  <2>2. ~ Decided(p) /\ ~ TakenBack(p)
    BY DEF Decided, TakenBack, Verdicts, Has, ProjectRows
  <2>3. PICK h \in Finals \cup {None} : Authorize(p, h)
    BY <2>1, <2>2, StepStatus
  <2>4. Granted(projects, OwnerOf[p])' = Granted(projects', OwnerOf[p])
    BY DEF Granted, Sum, Counted, Column
  <2>5. QED
    BY <1>1, <2>3, <2>4
<1>3. QED
  BY <1>2, ReviewTypeCorrect, PTL DEF ReviewSpec, ApprovalPaysInFull

-----------------------------------------------------------------------------
(* Sidekick.  A call that is not marked has seen what is still there: every *)
(* decision marks the others, and one that dies between two saves, or saves *)
(* what is stale, takes the history of the ship with it.                    *)

SkStatuses == {"unreviewed", "approved"} \cup Turned
SkShip == [status : SkStatuses, hours : Nat \cup {Null}, internal : Nat \cup {Null},
           reviews : 0 .. MaxReviews, before : Nat \cup {Null}]
SkProject == [status : {"unshipped", "fraud_pending"} \cup SkStatuses, hours : Nat, pipes : Nat]
SkCall == [stage : {"project", "open", "review", "audit", "saveProject", "saveShip"},
           kind : Kinds, ship : Nat, row : SkShip \cup {Null}, project : SkProject \cup {Null},
           hours : Int \cup {Null}, internal : Nat \cup {Null}, asked : Nat \cup {Null},
           moved : BOOLEAN]

(* What a call holds at its stage, when there are n ships.                  *)
SkHolds(q, n) ==
    /\ q \in SkCall /\ q.ship \in 1 .. n
    /\ q.stage = "project" /\ q.kind \in OfShip => q.row \in SkShip
    /\ q.hours # Null => q.stage = "audit" /\ q.asked # Null
    /\ q.stage \in {"saveProject", "saveShip"} =>
        /\ q.kind = "edit"
        /\ q.row \in SkShip /\ q.row.status = "unreviewed" /\ q.row.hours # Null
    /\ q.stage = "saveProject" => q.project \in SkProject /\ q.project.status = "fraud_pending"

SkRows(p, ss) ==
    /\ p \in SkProject
    /\ ss \in Seq(SkShip) /\ Len(ss) <= MaxSubmissions

SkCalls(cs, n) ==
    /\ DOMAIN cs = Calls
    /\ \A c \in Calls : cs[c] # Free => SkHolds(cs[c], n)

(* The newest ship has a first pass that awaits HQ.                         *)
Awaits(ss) == Len(ss) # 0 /\ ss[Len(ss)].before # Null

(* Then it is open.                                                         *)
AwaitsOpen(p, ss) == Awaits(ss) =>
    /\ p.status = "fraud_pending"
    /\ ss[Len(ss)].status = "unreviewed"

(* An edit that has fitted the hours of the project to the newest ship, and *)
(* is about to save the ship.                                               *)
Saving(q, n) == q.stage = "saveShip" /\ q.ship = n

SumsUp(p, ss, cs) ==
    Awaits(ss) /\ (\A c \in Calls : ~Saving(cs[c], Len(ss))) =>
        p.hours = ss[Len(ss)].before + Or(ss[Len(ss)].hours, 0)

LastIn(S) == IF S = {} THEN 0 ELSE CHOOSE s \in S : \A t \in S : t <= s
OpenIn(ss) == LastIn({s \in DOMAIN ss : ss[s].status = "unreviewed"})

(* What a call that is not marked knows; and what it knows of the newest    *)
(* ship while no other is about to save that.                               *)
Fresh(q) == q # Free /\ ~q.moved
SeesShips(q, ss) ==
    /\ q.stage = "review" => q.ship = OpenIn(ss)
    /\ q.stage = "project" /\ q.kind \in OfShip => q.row.hours = ss[q.ship].hours
    /\ q.stage = "saveShip" /\ Awaits(ss) => q.ship = Len(ss)
SeesHours(q, p, ss) ==
    Awaits(ss) /\ q.ship = Len(ss) =>
        /\ q.stage = "audit" /\ q.kind = "authorize" /\ q.hours # Null =>
                q.hours = ss[Len(ss)].before + q.asked
        /\ q.stage = "saveProject" => q.project.hours = ss[Len(ss)].before + q.row.hours
        /\ q.stage = "saveShip" => p.hours = ss[Len(ss)].before + q.row.hours

Informed(p, ss, cs) == \A c \in Calls : Fresh(cs[c]) =>
    /\ SeesShips(cs[c], ss)
    /\ (\A d \in Calls \ {c} : ~Saving(cs[d], Len(ss))) => SeesHours(cs[c], p, ss)

SkInv(p, ss, cs) ==
    /\ SkRows(p, ss) /\ SkCalls(cs, Len(ss))
    /\ AwaitsOpen(p, ss) /\ SumsUp(p, ss, cs) /\ Informed(p, ss, cs)
SidekickInv == SkInv(project, ships, calls)

(* The rows alone, when no call is between its two saves.                   *)
SoundRows(p, ss) ==
    /\ SkRows(p, ss) /\ AwaitsOpen(p, ss)
    /\ Awaits(ss) => p.hours = ss[Len(ss)].before + Or(ss[Len(ss)].hours, 0)

LEMMA SkShips ==
    ASSUME NEW p, NEW ss, SkRows(p, ss)
    PROVE  /\ Len(ss) \in Nat /\ DOMAIN ss = 1 .. Len(ss)
           /\ \A s \in 1 .. Len(ss) : ss[s] \in SkShip
  BY LenProperties, ElementOfSeq DEF SkRows

(* The open ship is the newest of those still open.                         *)
LEMMA OpenIsOpen ==
    ASSUME NEW p, NEW ss, SkRows(p, ss)
    PROVE  /\ OpenIn(ss) \in 0 .. Len(ss)
           /\ OpenIn(ss) # 0 => ss[OpenIn(ss)].status = "unreviewed"
           /\ Len(ss) # 0 /\ ss[Len(ss)].status = "unreviewed" => OpenIn(ss) = Len(ss)
<1> DEFINE open == {s \in DOMAIN ss : ss[s].status = "unreviewed"}
<1>1. Len(ss) \in Nat /\ open \subseteq 1 .. Len(ss)
  BY SkShips
<1>2. CASE open = {}
  <2>1. OpenIn(ss) = 0
    BY <1>2 DEF OpenIn, LastIn
  <2>2. Len(ss) # 0 => Len(ss) \notin open
    BY <1>2
  <2>3. QED
    BY <1>1, <2>1, <2>2, SkShips
<1>3. CASE open # {}
  <2>1. \E s \in open : \A t \in open : t <= s
    BY <1>1, <1>3, LastPosition
  <2>2. OpenIn(ss) \in open /\ \A t \in open : t <= OpenIn(ss)
    BY <1>3, <2>1 DEF OpenIn, LastIn
  <2>3. Len(ss) # 0 /\ ss[Len(ss)].status = "unreviewed" => Len(ss) \in open
    BY <1>1, SkShips
  <2>4. ss[OpenIn(ss)].status = "unreviewed" /\ OpenIn(ss) \in 1 .. Len(ss)
    BY <1>1, <2>2
  <2> HIDE DEF open
  <2>5. QED
    BY <1>1, <2>2, <2>3, <2>4
<1>4. QED
  BY <1>2, <1>3

LEMMA OpenShipIs == OpenShip = OpenIn(ships) /\ (OpenShip = OpenIn(ships))'
  BY DEF OpenShip, OpenIn, LastIn

(* Taking the history off ships leaves the rest of them.                    *)
LEMMA DoubtfulShips ==
    ASSUME SkRows(project, ships)
    PROVE  /\ Doubtful \in Seq(SkShip) /\ Len(Doubtful) = Len(ships)
           /\ \A s \in 1 .. Len(ships) : Doubtful[s].before = Null
           /\ \A s \in 1 .. Len(ships) : Doubtful[s].status = ships[s].status
           /\ \A s \in 1 .. Len(ships) : Doubtful[s].hours = ships[s].hours
           /\ OpenIn(Doubtful) = OpenIn(ships)
<1>1. /\ Len(ships) \in Nat /\ DOMAIN ships = 1 .. Len(ships)
      /\ \A s \in 1 .. Len(ships) : ships[s] \in SkShip
  BY SkShips
<1>2. Doubtful \in [1 .. Len(ships) -> SkShip]
  BY <1>1 DEF Doubtful, SkShip
<1>3. Doubtful \in Seq(SkShip) /\ Len(Doubtful) = Len(ships)
  BY <1>1, <1>2
<1>4. \A s \in 1 .. Len(ships) : /\ Doubtful[s].before = Null
                                 /\ Doubtful[s].status = ships[s].status
                                 /\ Doubtful[s].hours = ships[s].hours
  BY <1>1 DEF Doubtful, SkShip
<1>5. DOMAIN Doubtful = DOMAIN ships
  BY DEF Doubtful
<1>6. OpenIn(Doubtful) = OpenIn(ships)
  <2>1. {s \in DOMAIN Doubtful : Doubtful[s].status = "unreviewed"}
            = {s \in DOMAIN ships : ships[s].status = "unreviewed"}
    BY <1>1, <1>4, <1>5
  <2>2. QED
    BY <2>1 DEF OpenIn
<1>7. QED
  BY <1>3, <1>4, <1>6

(* Replacing one ship, or adding one.                                       *)
LEMMA OneShip ==
    ASSUME SkRows(project, ships), project' \in SkProject,
           NEW s \in 1 .. Len(ships), NEW row \in SkShip, ships' = [ships EXCEPT ![s] = row]
    PROVE  /\ SkRows(project', ships') /\ Len(ships') = Len(ships)
           /\ ships'[s] = row /\ \A t \in 1 .. Len(ships) : t # s => ships'[t] = ships[t]
  BY ExceptSeq DEF SkRows

-----------------------------------------------------------------------------
(* Each decision on the project, wherever it is taken.                      *)

Sound == SkRows(project, ships) /\ AwaitsOpen(project, ships)
SoundNext == SoundRows(project', ships') /\ Len(ships') \in Nat /\ Len(ships') >= Len(ships)

(* A first pass.  One of the newest ship is what awaits HQ from then on.    *)
LEMMA PassSound ==
    ASSUME Sound, NEW h \in Nat \cup {Null}, NEW i \in Nat \cup {Null}, Pass(h, i)
    PROVE  /\ SoundNext
           /\ Len(ships') = Len(ships)
           /\ PassAwaits' =>
                /\ OpenShip' = NewestShip' /\ Or(ships'[NewestShip'].hours, 0) = Or(h, 0)
                /\ project'.status = "fraud_pending" /\ project'.hours = project.hours + Or(h, 0)
                /\ project'.pipes = project.pipes /\ project.hours \in Nat
<1> DEFINE o == OpenShip
           n == Len(ships)
           given == Or(h, 0)
<1>0. given \in Nat
  BY DEF Or
<1>1. /\ project \in SkProject /\ n \in Nat
      /\ \A s \in 1 .. n : ships[s] \in SkShip
  BY SkShips DEF Sound, SkRows
<1>2. /\ o \in 0 .. n /\ (o # 0 => ships[o].status = "unreviewed")
      /\ (n # 0 /\ ships[n].status = "unreviewed" => o = n)
  BY OpenIsOpen, OpenShipIs DEF Sound
<1>3. /\ project'.status = "fraud_pending" /\ project'.hours = project.hours + given
      /\ project'.pipes = project.pipes /\ project.hours \in Nat /\ project' \in SkProject
  <2> DEFINE k == project.hours + given
  <2> HIDE DEF given
  <2>1. k \in Nat /\ project.hours \in Nat
    BY <1>0, <1>1 DEF SkProject
  <2>2. project' = [project EXCEPT !.status = "fraud_pending", !.hours = k]
    BY DEF Pass, given
  <2> HIDE DEF k
  <2>3. /\ project'.status = "fraud_pending" /\ project'.hours = k
        /\ project'.pipes = project.pipes /\ project' \in SkProject
    BY <1>1, <2>1, <2>2 DEF SkProject
  <2>4. QED
    BY <2>1, <2>3 DEF k
<1>4. ~ Awaits(ships)
  BY DEF Sound, AwaitsOpen, Pass, MayPass
<1>5. CASE o = 0
  <2>1. ships' = ships
    BY <1>5 DEF Pass
  <2>2. ~ Awaits(ships')
    BY <1>4, <2>1
  <2>3. SoundNext
    BY <1>1, <1>3, <2>1, <2>2 DEF Sound, SoundNext, SoundRows, SkRows, AwaitsOpen
  <2>4. QED
    BY <2>1, <2>2, <2>3 DEF PassAwaits, Awaits, NewestShip
<1>6. CASE o # 0
  <2> DEFINE k == ships[o].reviews + 1
             hours == Or(h, ships[o].hours)
             internal == Or(i, ships[o].internal)
             before == IF LeavesHours(h) THEN Null ELSE project.hours
             row == [ships[o] EXCEPT !.hours = hours, !.internal = internal, !.reviews = k,
                                     !.before = before]
  <2>1. ships[o] \in SkShip /\ k \in 0 .. MaxReviews
    BY <1>1, <1>2, <1>6, SidekickAssumption DEF Pass, MayPass, SkShip
  <2>2. /\ row \in SkShip /\ row.status = ships[o].status
        /\ row.hours = hours /\ row.before = before
    <3>1. /\ hours \in Nat \cup {Null} /\ internal \in Nat \cup {Null}
          /\ before \in Nat \cup {Null}
      BY <1>3, <2>1 DEF SkShip, Or
    <3> HIDE DEF k, o, hours, internal, before
    <3>2. QED
      BY <2>1, <3>1 DEF SkShip
  <2>3. ships' = [ships EXCEPT ![o] = row]
    <3>1. ships' = [ships EXCEPT ![o].hours = Or(h, @), ![o].internal = Or(i, @),
                        ![o].reviews = @ + 1, ![o].before = before]
      BY <1>6 DEF Pass
    <3> HIDE DEF o, before
    <3>2. QED
      BY <3>1
  <2>4. /\ SkRows(project', ships') /\ Len(ships') = n
        /\ ships'[o] = row /\ \A t \in 1 .. n : t # o => ships'[t] = ships[t]
    <3>1. o \in 1 .. n
      BY <1>1, <1>2, <1>6
    <3> HIDE DEF row, o
    <3>2. QED
      BY <3>1, <1>3, <2>2, <2>3, OneShip DEF Sound
  <2>5. Awaits(ships') => o = n
    <3>1. Awaits(ships') /\ o # n => ships'[n] = ships[n] /\ n # 0
      BY <1>1, <1>2, <2>4 DEF Awaits
    <3>2. QED
      BY <3>1, <2>4, <1>4 DEF Awaits
  <2>6. ships[o].status = "unreviewed"
    BY <1>2, <1>6
  <2>7. o = n => ships'[n].status = "unreviewed" /\ ships'[n].hours = hours /\ ships'[n].before = before
    BY <2>2, <2>4, <2>6
  (* The ship has the hours given, or none: it is not known what it had.    *)
  <2>8. Awaits(ships') => before = project.hours /\ Or(hours, 0) = given
    <3>1. Awaits(ships') => before # Null
      BY <2>4, <2>5, <2>7 DEF Awaits
    <3>2. before # Null => ~ LeavesHours(h) /\ before = project.hours
      OBVIOUS
    <3>3. ~ LeavesHours(h) => Or(hours, 0) = given
      BY DEF LeavesHours, Or
    <3>4. QED
      BY <3>1, <3>2, <3>3
  <2> HIDE DEF hours, before, given
  <2>9. SoundNext
    BY <1>1, <1>3, <2>4, <2>5, <2>7, <2>8 DEF SoundNext, SoundRows, AwaitsOpen
  <2>10. PassAwaits' => o = n /\ OpenIn(ships') = n
    BY <1>1, <2>4, <2>5, <2>7, OpenIsOpen DEF PassAwaits, NewestShip, Awaits
  <2>11. PassAwaits' => Or(ships'[n].hours, 0) = given
    BY <2>4, <2>7, <2>8, <2>10 DEF PassAwaits, Awaits, NewestShip
  <2>12. QED
    BY <1>3, <2>4, <2>9, <2>10, <2>11, OpenShipIs DEF NewestShip, given
<1>7. QED
  BY <1>5, <1>6

(* A verdict that turns the open ship down leaves nothing that awaits HQ.   *)
LEMMA TurnDownSound ==
    ASSUME Sound, NEW verdict \in Turned, NEW e \in Nat \cup {Null}, NEW i \in Nat \cup {Null},
           TurnDown(verdict, e, i)
    PROVE  SoundNext /\ Len(ships') = Len(ships) /\ ~ Awaits(ships') /\ project'.status = verdict
<1> DEFINE o == OpenShip
           n == Len(ships)
           h == IF project.status = "unreviewed" /\ project.pipes > 0 THEN project.hours ELSE 0
           pipes == IF project.status = "approved" THEN 0 ELSE project.pipes
<1>1. /\ project \in SkProject /\ n \in Nat
      /\ \A s \in 1 .. n : ships[s] \in SkShip
  BY SkShips DEF Sound, SkRows
<1>2. /\ o \in 0 .. n
      /\ (n # 0 /\ ships[n].status = "unreviewed" => o = n)
  BY OpenIsOpen, OpenShipIs DEF Sound
<1>3. project' \in SkProject /\ project'.status = verdict
  <2>1. h \in Nat /\ pipes \in Nat
    BY <1>1 DEF SkProject
  <2>2. project' = [project EXCEPT !.status = verdict, !.hours = h, !.pipes = pipes]
    BY DEF TurnDown
  <2> HIDE DEF h, pipes
  <2>3. QED
    BY <1>1, <2>1, <2>2 DEF SkProject, SkStatuses
<1>4. CASE o = 0
  <2>1. ships' = ships
    BY <1>4 DEF TurnDown
  <2>2. ~ Awaits(ships)
    BY <1>1, <1>2, <1>4 DEF Sound, AwaitsOpen, Awaits
  <2>3. QED
    BY <1>1, <1>3, <2>1, <2>2 DEF Sound, SoundNext, SoundRows, SkRows, AwaitsOpen
<1>5. CASE o # 0
  <2> DEFINE hours == Or(e, ships[o].hours)
             internal == Or(i, ships[o].internal)
             row == [ships[o] EXCEPT !.status = verdict, !.before = Null, !.hours = hours,
                                     !.internal = internal]
  <2>1. ships[o] \in SkShip /\ o \in 1 .. n
    BY <1>1, <1>2, <1>5
  <2>2. row \in SkShip /\ row.before = Null
    <3>1. hours \in Nat \cup {Null} /\ internal \in Nat \cup {Null}
      BY <2>1 DEF Or, SkShip
    <3> HIDE DEF o, hours, internal
    <3>2. QED
      BY <2>1, <3>1 DEF SkShip, SkStatuses
  <2>3. ships' = [ships EXCEPT ![o] = row]
    <3>1. ships' = [ships EXCEPT ![o].status = verdict, ![o].before = Null,
                        ![o].hours = Or(e, @), ![o].internal = Or(i, @)]
      BY <1>5 DEF TurnDown
    <3> HIDE DEF o
    <3>2. QED
      BY <3>1
  <2>4. /\ SkRows(project', ships') /\ Len(ships') = n
        /\ ships'[o] = row /\ \A t \in 1 .. n : t # o => ships'[t] = ships[t]
    <3> HIDE DEF row, o
    <3>1. QED
      BY <1>3, <2>1, <2>2, <2>3, OneShip DEF Sound
  <2>5. ~ Awaits(ships')
    <3>1. CASE o = n
      BY <2>2, <2>4, <3>1 DEF Awaits
    <3>2. CASE o # n
      <4>1. n # 0 => ships'[n] = ships[n]
        BY <1>1, <2>4, <3>2
      <4>2. QED
        BY <1>2, <2>4, <3>2, <4>1 DEF Sound, AwaitsOpen, Awaits
    <3>3. QED
      BY <3>1, <3>2
  <2>6. QED
    BY <1>1, <1>3, <2>4, <2>5 DEF SoundNext, SoundRows, AwaitsOpen
<1>6. QED
  BY <1>4, <1>5

(* Writing the newest ship without its history settles it.                  *)
LEMMA NewestSettled ==
    ASSUME Sound, project' \in SkProject, NEW row \in SkShip, row.before = Null,
           NewestShip # 0, ships' = [ships EXCEPT ![NewestShip] = row]
    PROVE  SoundNext /\ Len(ships') = Len(ships) /\ ~ Awaits(ships')
<1>1. Len(ships) \in Nat /\ NewestShip \in 1 .. Len(ships)
  BY SkShips DEF Sound, NewestShip
<1>2. SkRows(project', ships') /\ Len(ships') = Len(ships) /\ ships'[NewestShip] = row
  BY <1>1, OneShip DEF Sound
<1>3. ~ Awaits(ships')
  BY <1>2 DEF Awaits, NewestShip
<1>4. Len(ships') \in Nat /\ Len(ships') >= Len(ships)
  BY <1>1, <1>2
<1>5. SoundRows(project', ships')
  BY <1>2, <1>3, Zenon DEF SoundRows, AwaitsOpen
<1>6. QED
  BY <1>2, <1>3, <1>4, <1>5, Zenon DEF SoundNext

(* No ship: nothing awaits HQ.                                              *)
LEMMA NoShips ==
    ASSUME Sound, project' \in SkProject, ships' = ships,
           NewestShip = 0 \/ project.status # "fraud_pending"
    PROVE  SoundNext /\ Len(ships') = Len(ships) /\ ~ Awaits(ships')
<1>1. Len(ships) \in Nat /\ ~ Awaits(ships)
  BY SkShips DEF Sound, NewestShip, AwaitsOpen, Awaits
<1>2. QED
  BY <1>1 DEF Sound, SoundNext, SoundRows, SkRows, AwaitsOpen, Awaits

LEMMA DecideApproveSound ==
    ASSUME Sound, NEW h \in Int \cup {Null}, NEW i \in Nat \cup {Null}, DecideApprove(h, i)
    PROVE  /\ SoundNext /\ Len(ships') = Len(ships) /\ ~ Awaits(ships')
           /\ project'.status = "approved" /\ (h # Null => project'.hours = h)
<1> DEFINE n == NewestShip
           final == Or(h, project.hours)
           pipes == IF final > project.pipes THEN final ELSE project.pipes
           k == ships[n].reviews + 1
           hours == IF h = Null THEN ships[n].hours ELSE h
           internal == IF h = Null THEN ships[n].internal ELSE i
           row == [ships[n] EXCEPT !.before = Null, !.status = "approved", !.reviews = k,
                                   !.hours = hours, !.internal = internal]
<1>1. /\ project \in SkProject /\ n # 0 /\ n \in 1 .. Len(ships) /\ ships[n] \in SkShip
      /\ DOMAIN ships = 1 .. Len(ships)
  BY SkShips DEF Sound, SkRows, NewestShip, DecideApprove, MayDecideApprove
<1>2. h # Null => h \in Nat
  BY SidekickAssumption DEF DecideApprove, MayDecideApprove
<1>3. /\ project' \in SkProject /\ project'.status = "approved"
      /\ h # Null => project'.hours = h
  <2>1. final \in Nat /\ pipes \in Nat /\ (h # Null => final = h)
    BY <1>1, <1>2 DEF SkProject, Or
  <2>2. project' = [project EXCEPT !.status = "approved", !.hours = final, !.pipes = pipes]
    BY DEF DecideApprove
  <2> HIDE DEF final, pipes
  <2>3. project' \in SkProject /\ project'.status = "approved" /\ project'.hours = final
    BY <1>1, <2>1, <2>2 DEF SkProject, SkStatuses
  <2>4. QED
    BY <2>1, <2>3
<1>4. row \in SkShip /\ row.before = Null
  <2>1. k \in 0 .. MaxReviews
    BY <1>1, SidekickAssumption DEF DecideApprove, MayDecideApprove, SkShip
  <2>2. hours \in Nat \cup {Null} /\ internal \in Nat \cup {Null}
    BY <1>1, <1>2 DEF SkShip
  <2> HIDE DEF k, hours, internal, n
  <2>3. QED
    BY <1>1, <2>1, <2>2 DEF SkShip, SkStatuses
<1>5. ships' = [ships EXCEPT ![n] = row]
  <2>1. ships' = [Settled(n) EXCEPT ![n].status = "approved", ![n].reviews = @ + 1,
                    ![n].hours = IF h = Null THEN @ ELSE h,
                    ![n].internal = IF h = Null THEN @ ELSE i]
    BY DEF DecideApprove
  <2> HIDE DEF n
  <2>2. QED
    BY <1>1, <2>1 DEF Settled, SkShip
<1> HIDE DEF row
<1>6. QED
  BY <1>1, <1>3, <1>4, <1>5, NewestSettled

LEMMA DecideReturnSound ==
    ASSUME Sound, DecideReturn
    PROVE  /\ SoundNext /\ Len(ships') = Len(ships) /\ ~ Awaits(ships')
           /\ project'.status = "unreviewed"
<1> DEFINE n == NewestShip
           off == IF n = 0 THEN 0 ELSE Or(ships[n].hours, 0)
           h == IF off > 0 THEN Less(project.hours, off) ELSE project.hours
<1>1. /\ project \in SkProject /\ Len(ships) \in Nat /\ DOMAIN ships = 1 .. Len(ships)
      /\ \A s \in 1 .. Len(ships) : ships[s] \in SkShip
  BY SkShips DEF Sound, SkRows
<1>2. off \in Nat
  <2>1. n # 0 => ships[n] \in SkShip
    BY <1>1 DEF NewestShip
  <2> HIDE DEF n
  <2>2. QED
    BY <2>1 DEF Or, SkShip
<1>3. h \in Nat
  <2> HIDE DEF off
  <2>1. project.hours \in Nat
    BY <1>1 DEF SkProject
  <2>2. QED
    BY <1>2, <2>1 DEF Less
<1>4. project' \in SkProject /\ project'.status = "unreviewed"
  <2>1. project' = [project EXCEPT !.status = "unreviewed", !.hours = h]
    <3>1. CASE n = 0
      <4>1. ~ (Or(NewShip.hours, 0) > 0)
        BY DEF Or, NewShip
      <4>2. project' = [project EXCEPT !.status = "unreviewed", !.hours = project.hours]
        BY <3>1, <4>1, Zenon DEF DecideReturn
      <4>3. QED
        BY <3>1, <4>2
    <3>2. CASE n # 0
      <4>1. off > 0 => off = ships[n].hours
        BY <3>2 DEF Or
      <4>2. project' = [project EXCEPT !.status = "unreviewed",
                !.hours = IF off > 0 THEN Less(project.hours, ships[n].hours) ELSE project.hours]
        BY <3>2 DEF DecideReturn
      <4>3. QED
        BY <4>1, <4>2
    <3>3. QED
      BY <3>1, <3>2
  <2> HIDE DEF h
  <2>2. QED
    BY <1>1, <1>3, <2>1 DEF SkProject, SkStatuses
<1>5. CASE n = 0
  <2>1. ships' = ships
    BY <1>5 DEF DecideReturn
  <2>2. QED
    BY <1>4, <1>5, <2>1, NoShips
<1>6. CASE n # 0
  <2> DEFINE k == Less(ships[n].reviews, 1)
             row == [ships[n] EXCEPT !.before = Null, !.status = "unreviewed", !.reviews = k]
  <2>1. n \in 1 .. Len(ships) /\ ships[n] \in SkShip
    BY <1>1, <1>6 DEF NewestShip
  <2>2. row \in SkShip /\ row.before = Null
    <3>1. k \in 0 .. MaxReviews
      BY <2>1, SidekickAssumption DEF Less, SkShip
    <3> HIDE DEF k, n
    <3>2. QED
      BY <2>1, <3>1 DEF SkShip, SkStatuses
  <2>3. ships' = [ships EXCEPT ![n] = row]
    <3>1. ships' = [Settled(n) EXCEPT ![n].status = "unreviewed", ![n].reviews = Less(@, 1)]
      BY <1>6 DEF DecideReturn
    <3> HIDE DEF n
    <3>2. QED
      BY <1>1, <2>1, <3>1 DEF Settled, SkShip
  <2> HIDE DEF row
  <2>4. QED
    BY <1>4, <1>6, <2>2, <2>3, NewestSettled
<1>7. QED
  BY <1>5, <1>6

LEMMA DecideRejectSound ==
    ASSUME Sound, NEW verdict \in Turned, DecideReject(verdict)
    PROVE  /\ SoundNext /\ Len(ships') = Len(ships) /\ ~ Awaits(ships')
           /\ project'.status = verdict
<1> DEFINE n == NewestShip
<1>1. /\ project \in SkProject /\ Len(ships) \in Nat /\ DOMAIN ships = 1 .. Len(ships)
      /\ \A s \in 1 .. Len(ships) : ships[s] \in SkShip
  BY SkShips DEF Sound, SkRows
<1>2. project' \in SkProject /\ project'.status = verdict
  BY <1>1 DEF DecideReject, SkProject, SkStatuses
<1>3. CASE n = 0
  <2>1. ships' = ships
    BY <1>3 DEF DecideReject
  <2>2. QED
    BY <1>2, <1>3, <2>1, NoShips
<1>4. CASE n # 0
  <2> DEFINE hours == IF ships[n].status = verdict THEN ships[n].hours ELSE 0
             internal == IF ships[n].status = verdict THEN ships[n].internal ELSE 0
             row == [ships[n] EXCEPT !.before = Null, !.status = verdict, !.hours = hours,
                                     !.internal = internal]
  <2>1. n \in 1 .. Len(ships) /\ ships[n] \in SkShip
    BY <1>1, <1>4 DEF NewestShip
  <2>2. row \in SkShip /\ row.before = Null
    <3>1. hours \in Nat \cup {Null} /\ internal \in Nat \cup {Null}
      BY <2>1 DEF SkShip
    <3> HIDE DEF hours, internal, n
    <3>2. QED
      BY <2>1, <3>1 DEF SkShip, SkStatuses
  <2>3. ships' = [ships EXCEPT ![n] = row]
    <3>1. ships' = [Settled(n) EXCEPT ![n].status = verdict,
                        ![n].hours = IF ships[n].status = verdict THEN @ ELSE 0,
                        ![n].internal = IF ships[n].status = verdict THEN @ ELSE 0]
      BY <1>4 DEF DecideReject
    <3> HIDE DEF n
    <3>2. QED
      BY <1>1, <2>1, <3>1 DEF Settled, SkShip
  <2> HIDE DEF row
  <2>4. QED
    BY <1>2, <1>4, <2>2, <2>3, NewestSettled
<1>5. QED
  BY <1>3, <1>4

(* What the builder and the audit panel do besides.                         *)
LEMMA ShippedSound ==
    ASSUME Sound, ShipAgain \/ TakeBackShip \/ LoadUnreviewed
    PROVE  SoundNext /\ ~ Awaits(ships')
<1>1. /\ project \in SkProject /\ Len(ships) \in Nat /\ ships \in Seq(SkShip)
      /\ Len(ships) <= MaxSubmissions
  BY SkShips DEF Sound, SkRows
<1>2. CASE ShipAgain
  <2>1. project' \in SkProject
    BY <1>1, <1>2 DEF ShipAgain, SkProject, SkStatuses
  <2>2. NewShip \in SkShip /\ NewShip.before = Null
    BY SidekickAssumption DEF NewShip, SkShip, SkStatuses
  <2>3. /\ ships' \in Seq(SkShip) /\ Len(ships') = Len(ships) + 1
        /\ ships'[Len(ships')] = NewShip
    BY <1>1, <1>2, <2>2, AppendProperties DEF ShipAgain
  <2>4. Len(ships') <= MaxSubmissions
    BY <1>1, <1>2, <2>3, SidekickAssumption DEF ShipAgain
  <2>5. ~ Awaits(ships')
    BY <2>2, <2>3 DEF Awaits
  <2>6. QED
    BY <1>1, <2>1, <2>3, <2>4, <2>5 DEF SoundNext, SoundRows, SkRows, AwaitsOpen
<1>3. CASE TakeBackShip \/ LoadUnreviewed
  <2>1. project' \in SkProject
    BY <1>1, <1>3 DEF TakeBackShip, LoadUnreviewed, SkProject
  <2>2. ships' = ships /\ project.status # "fraud_pending"
    BY <1>3 DEF TakeBackShip, LoadUnreviewed
  <2>3. QED
    BY <2>1, <2>2, NoShips
<1>4. QED
  BY <1>2, <1>3

LEMMA EnteredHours == \A e \in Entered : e[1] \in Nat \cup {Null} /\ e[2] \in Nat \cup {Null}
  BY SidekickAssumption

LEMMA PanelSound ==
    ASSUME Sound, Panel
    PROVE  SoundNext
<1>1. ASSUME NEW e \in Entered, Pass(e[1], e[2])
      PROVE  SoundNext
  BY <1>1, EnteredHours, PassSound
<1>2. ASSUME NEW e \in Entered, DecideApprove(e[1], Or(e[2], e[1]))
      PROVE  SoundNext
  <2>1. /\ e[1] \in Int \cup {Null} /\ Or(e[2], e[1]) \in Nat \cup {Null}
    BY EnteredHours DEF Or
  <2>2. QED
    BY <1>2, <2>1, DecideApproveSound
<1>3. ASSUME NEW verdict \in Turned,
             DecideReject(verdict) \/ \E e \in Entered : TurnDown(verdict, e[1], e[2])
      PROVE  SoundNext
  BY <1>3, EnteredHours, TurnDownSound, DecideRejectSound
<1>4. QED
  BY <1>1, <1>2, <1>3, DecideReturnSound, ShippedSound DEF Panel

-----------------------------------------------------------------------------
(* What a decision leaves of the calls.                                     *)

LEMMA CallIsBusy ==
    ASSUME NEW q \in SkCall
    PROVE  q # Free /\ Free.stage = "free"
  BY DEF SkCall, Free

LEMMA MovedHolds ==
    ASSUME NEW n \in Nat, NEW m \in Nat, n <= m, NEW q, SkHolds(q, n)
    PROVE  /\ SkHolds([q EXCEPT !.moved = TRUE], m)
           /\ [q EXCEPT !.moved = TRUE].moved
           /\ [q EXCEPT !.moved = TRUE].stage = q.stage /\ [q EXCEPT !.moved = TRUE].ship = q.ship
<1> DEFINE r == [q EXCEPT !.moved = TRUE]
<1>1. /\ q \in SkCall /\ r \in SkCall /\ r.stage = q.stage /\ r.kind = q.kind
      /\ r.ship = q.ship /\ r.row = q.row /\ r.project = q.project /\ r.hours = q.hours
      /\ r.asked = q.asked /\ r.moved = TRUE
  BY DEF SkHolds, SkCall
<1>2. r.ship \in 1 .. m
  BY <1>1 DEF SkHolds
<1> HIDE DEF r
<1>3. SkHolds(r, m)
  BY <1>1, <1>2 DEF SkHolds
<1>4. QED
  BY <1>1, <1>3 DEF r

LEMMA LeavesWhat ==
    ASSUME NEW c, NEW call, Leaves(c, call), NEW d \in Calls
    PROVE  /\ DOMAIN calls' = Calls
           /\ d = c => calls'[d] = call
           /\ d # c /\ calls[d] # Free => calls'[d] = [calls[d] EXCEPT !.moved = TRUE]
           /\ d # c /\ calls[d] = Free => calls'[d] = Free
  BY Zenon DEF Leaves

(* After a decision a call is marked, or has ended, or goes on to approve.  *)
LEMMA AfterDecision ==
    ASSUME SidekickInv, SoundNext, DOMAIN calls' = Calls,
           \A d \in Calls :
              \/ calls'[d] = Free
              \/ calls[d] # Free /\ calls'[d] = [calls[d] EXCEPT !.moved = TRUE]
              \/ /\ SkHolds(calls'[d], Len(ships)) /\ calls'[d].stage = "audit"
                 /\ calls'[d].kind # "authorize"
    PROVE  SidekickInv'
<1> DEFINE n == Len(ships)
           m == Len(ships')
<1>1. n \in Nat /\ m \in Nat /\ n <= m /\ SkRows(project', ships')
  BY SkShips DEF SidekickInv, SkInv, SoundNext, SoundRows
<1>2. ASSUME NEW d \in Calls, calls'[d] # Free
      PROVE  /\ SkHolds(calls'[d], m)
             /\ calls'[d].moved \/ (calls'[d].stage = "audit" /\ calls'[d].kind # "authorize")
  <2>1. CASE calls[d] # Free /\ calls'[d] = [calls[d] EXCEPT !.moved = TRUE]
    <3>1. SkHolds(calls[d], n)
      BY <2>1 DEF SidekickInv, SkInv, SkCalls
    <3> HIDE DEF n, m
    <3>2. QED
      BY <1>1, <2>1, <3>1, MovedHolds
  <2>2. CASE SkHolds(calls'[d], n) /\ calls'[d].stage = "audit" /\ calls'[d].kind # "authorize"
    <3> DEFINE q == calls'[d]
    <3>1. q.ship \in 1 .. m
      BY <1>1, <2>2 DEF SkHolds
    <3>2. SkHolds(q, m)
      BY <2>2, <3>1 DEF SkHolds
    <3>3. QED
      BY <2>2, <3>2
  <2>3. QED
    BY <1>2, <2>1, <2>2
<1>3. SkCalls(calls', m)
  BY <1>2 DEF SkCalls
<1>4. SumsUp(project', ships', calls') /\ AwaitsOpen(project', ships')
  BY DEF SoundNext, SoundRows, SumsUp
<1>5. Informed(project', ships', calls')
  <2> SUFFICES ASSUME NEW c \in Calls, Fresh(calls'[c])
               PROVE  SeesShips(calls'[c], ships') /\ SeesHours(calls'[c], project', ships')
    BY DEF Informed
  <2>1. calls'[c].stage = "audit" /\ calls'[c].kind # "authorize"
    BY <1>2 DEF Fresh
  <2>2. QED
    BY <2>1 DEF SeesShips, SeesHours
<1>6. QED
  BY <1>1, <1>3, <1>4, <1>5 DEF SidekickInv, SkInv

LEMMA PanelInv ==
    ASSUME SidekickInv, Panel
    PROVE  SidekickInv'
<1>1. SoundNext
  BY PanelSound DEF SidekickInv, SkInv, Sound
<1>2. /\ DOMAIN calls' = Calls
      /\ \A d \in Calls : \/ calls'[d] = Free
                          \/ calls[d] # Free /\ calls'[d] = [calls[d] EXCEPT !.moved = TRUE]
  BY Zenon DEF Panel, Overtaken
<1>3. QED
  BY <1>1, <1>2, AfterDecision

LEMMA ReviewsInv ==
    ASSUME SidekickInv, NEW c \in Calls, Reviews(c)
    PROVE  SidekickInv'
<1> DEFINE q == calls[c]
           more == [q EXCEPT !.stage = "audit"]
<1>1. q # Free /\ SkHolds(q, Len(ships))
  BY DEF SidekickInv, SkInv, SkCalls, Reviews, Free
<1>2. SoundNext
  <2>1. Sound
    BY DEF SidekickInv, SkInv, Sound
  <2>2. \A h \in Assigned, o \in Overrides : h \in Nat /\ Or(o, h) \in Nat
    BY SidekickAssumption DEF Or
  <2>3. QED
    BY <2>1, <2>2, PassSound, TurnDownSound DEF Reviews
<1>3. q.kind = "approve" => SkHolds(more, Len(ships)) /\ more.stage = "audit" /\ more.kind # "authorize"
  <2> SUFFICES ASSUME q.kind = "approve"
               PROVE  SkHolds(more, Len(ships)) /\ more.stage = "audit" /\ more.kind # "authorize"
    OBVIOUS
  <2>1. /\ more \in SkCall /\ more.stage = "audit" /\ more.kind = q.kind
        /\ more.ship = q.ship /\ more.hours = q.hours /\ more.asked = q.asked
    BY <1>1 DEF SkHolds, SkCall
  <2>2. QED
    BY <1>1, <2>1 DEF SkHolds
<1>4. Leaves(c, Free) \/ (q.kind = "approve" /\ Leaves(c, more))
  BY Zenon DEF Reviews, Ends
<1> HIDE DEF q, more
<1>5. \A d \in Calls :
              \/ calls'[d] = Free
              \/ calls[d] # Free /\ calls'[d] = [calls[d] EXCEPT !.moved = TRUE]
              \/ /\ SkHolds(calls'[d], Len(ships)) /\ calls'[d].stage = "audit"
                 /\ calls'[d].kind # "authorize"
  <2> TAKE d \in Calls
  <2>1. PICK call : Leaves(c, call) /\ (call = Free \/ (q.kind = "approve" /\ call = more))
    BY <1>4
  <2>2. CASE d = c
    <3>1. calls'[d] = call
      BY <2>1, <2>2, LeavesWhat
    <3>2. QED
      BY <1>3, <2>1, <3>1
  <2>3. CASE d # c
    BY <2>1, <2>3, LeavesWhat
  <2>4. QED
    BY <2>2, <2>3
<1>6. QED
  BY <1>2, <1>4, <1>5, LeavesWhat, AfterDecision

LEMMA AuditsInv ==
    ASSUME SidekickInv, NEW c \in Calls, Audits(c)
    PROVE  SidekickInv'
<1>1. SkHolds(calls[c], Len(ships))
  BY DEF SidekickInv, SkInv, SkCalls, Audits, Free
<1>2. SoundNext
  <2>1. Sound
    BY DEF SidekickInv, SkInv, Sound
  <2>2. calls[c].hours \in Int \cup {Null} /\ calls[c].internal \in Nat \cup {Null}
    BY <1>1 DEF SkHolds, SkCall
  <2>3. QED
    BY <2>1, <2>2, DecideApproveSound, DecideReturnSound DEF Audits
<1>3. \A d \in Calls : \/ calls'[d] = Free
                       \/ calls[d] # Free /\ calls'[d] = [calls[d] EXCEPT !.moved = TRUE]
  BY LeavesWhat, Zenon DEF Audits, Ends
<1>4. QED
  BY <1>2, <1>3, LeavesWhat, AfterDecision DEF Audits, Ends

-----------------------------------------------------------------------------
(* Steps of a call that decide nothing.                                     *)

(* A call goes on, the rows stay: what the other calls know stays true.     *)
LEMMA GoesInv ==
    ASSUME SidekickInv, NEW c \in Calls, NEW call, Goes(c, call), UNCHANGED <<project, ships>>,
           calls[c] # Free => calls[c].stage # "saveShip",
           call # Free => /\ SkHolds(call, Len(ships)) /\ call.stage # "saveShip"
                          /\ ~call.moved => /\ SeesShips(call, ships)
                                            /\ (\A d \in Calls \ {c} : ~Saving(calls[d], Len(ships))) =>
                                                    SeesHours(call, project, ships)
    PROVE  SidekickInv'
<1>1. /\ SkRows(project', ships') /\ AwaitsOpen(project', ships')
      /\ DOMAIN calls = Calls
  BY DEF SidekickInv, SkInv, SkCalls
<1>2. /\ calls'[c] = call /\ DOMAIN calls' = Calls
      /\ \A d \in Calls : d # c => calls'[d] = calls[d]
  BY <1>1 DEF Goes
<1>3. SkCalls(calls', Len(ships'))
  BY <1>2 DEF SidekickInv, SkInv, SkCalls
<1>4. ~ Saving(calls[c], Len(ships)) /\ ~ Saving(calls'[c], Len(ships))
  BY <1>2 DEF Saving, Free
<1>5. SumsUp(project', ships', calls')
  BY <1>2, <1>4 DEF SidekickInv, SkInv, SumsUp
<1>6. Informed(project', ships', calls')
  <2> SUFFICES ASSUME NEW d \in Calls, Fresh(calls'[d])
               PROVE  /\ SeesShips(calls'[d], ships)
                      /\ (\A e \in Calls \ {d} : ~Saving(calls'[e], Len(ships))) =>
                            SeesHours(calls'[d], project, ships)
    BY DEF Informed
  <2>1. CASE d = c
    BY <1>2, <2>1 DEF Fresh
  <2>2. CASE d # c
    <3>1. Fresh(calls[d]) /\ calls'[d] = calls[d]
      BY <1>2, <2>2
    <3>2. (\A e \in Calls \ {d} : ~Saving(calls'[e], Len(ships))) =>
                \A e \in Calls \ {d} : ~Saving(calls[e], Len(ships))
      BY <1>2, <1>4
    <3>3. QED
      BY <3>1, <3>2 DEF SidekickInv, SkInv, Informed
  <2>3. QED
    BY <2>1, <2>2
<1>7. QED
  BY <1>1, <1>3, <1>5, <1>6 DEF SidekickInv, SkInv

LEMMA ReadShipInv ==
    ASSUME SidekickInv, NEW c \in Calls, ReadShip(c)
    PROVE  SidekickInv'
<1>1. PICK kind \in Kinds, s \in DOMAIN ships :
        Goes(c, [Free EXCEPT !.stage = "project", !.kind = kind, !.ship = s,
                             !.row = IF kind \in OfShip THEN ships[s] ELSE Null])
  BY DEF ReadShip
<1> DEFINE row == IF kind \in OfShip THEN ships[s] ELSE Null
           q == [Free EXCEPT !.stage = "project", !.kind = kind, !.ship = s, !.row = row]
<1>2. s \in 1 .. Len(ships) /\ ships[s] \in SkShip /\ Len(ships) \in Nat
  BY SkShips DEF SidekickInv, SkInv
<1>3. /\ q.stage = "project" /\ q.kind = kind /\ q.ship = s /\ q.row = row
      /\ q.project = Null /\ q.hours = Null /\ q.asked = Null /\ q.internal = Null
      /\ q.moved = FALSE
  BY DEF Free
<1>4. q \in SkCall
  <2>1. row \in SkShip \cup {Null} /\ s \in Nat
    BY <1>2
  <2> HIDE DEF row
  <2>2. QED
    BY <2>1 DEF Free, SkCall
<1> HIDE DEF q
<1>5. SkHolds(q, Len(ships))
  BY <1>2, <1>3, <1>4 DEF SkHolds
<1>6. SeesShips(q, ships) /\ SeesHours(q, project, ships)
  BY <1>3 DEF SeesShips, SeesHours
<1>7. Goes(c, q) /\ calls[c] = Free /\ UNCHANGED <<project, ships>>
  BY <1>1 DEF ReadShip, q
<1>8. QED
  BY <1>3, <1>5, <1>6, <1>7, GoesInv

LEMMA RequireOpenInv ==
    ASSUME SidekickInv, NEW c \in Calls, RequireOpenSubmission(c)
    PROVE  SidekickInv'
<1> DEFINE q == calls[c]
           next == [q EXCEPT !.stage = "review", !.moved = FALSE]
<1>1. q.stage = "open" /\ SkHolds(q, Len(ships)) /\ UNCHANGED <<project, ships>>
  BY DEF RequireOpenSubmission, SidekickInv, SkInv, SkCalls, Free
<1>2. CASE q.ship = OpenShip
  <2>1. /\ next \in SkCall /\ next.stage = "review" /\ next.ship = q.ship
        /\ next.hours = q.hours /\ next.asked = q.asked
    BY <1>1 DEF SkHolds, SkCall
  <2>2. Goes(c, next)
    BY <1>2 DEF RequireOpenSubmission
  <2> HIDE DEF next
  <2>3. SkHolds(next, Len(ships))
    BY <1>1, <2>1 DEF SkHolds
  <2>4. SeesShips(next, ships) /\ SeesHours(next, project, ships)
    BY <1>2, <2>1, OpenShipIs DEF SeesShips, SeesHours
  <2>5. QED
    BY <1>1, <2>1, <2>2, <2>3, <2>4, GoesInv
<1>3. CASE q.ship # OpenShip
  <2>1. Goes(c, Free)
    BY <1>3 DEF RequireOpenSubmission
  <2>2. QED
    BY <1>1, <2>1, GoesInv
<1>4. QED
  BY <1>2, <1>3

(* Reading the project: what an authorization or an edit works out of it is *)
(* right if the ship it read is as it was.                                  *)
LEMMA AuthorizeReadsInv ==
    ASSUME SidekickInv, NEW c \in Calls, calls[c].stage = "project",
           calls[c].kind \in {"authorize", "deauthorize"}, AuthorizeReads(c),
           UNCHANGED <<project, ships>>
    PROVE  SidekickInv'
<1> DEFINE p == calls[c]
           q == [p EXCEPT !.stage = "audit", !.row = Null]
<1>1. /\ SkHolds(p, Len(ships)) /\ p # Free /\ p.hours = Null
      /\ SkRows(project, ships) /\ project \in SkProject
  BY DEF SidekickInv, SkInv, SkCalls, SkRows, SkHolds, Free
<1>2. /\ q \in SkCall /\ q.stage = "audit" /\ q.kind = p.kind /\ q.ship = p.ship
      /\ q.hours = Null /\ q.moved = p.moved
  BY <1>1 DEF SkHolds, SkCall
<1>3. CASE Goes(c, Free)
  BY <1>1, <1>3, GoesInv
<1>4. CASE Goes(c, q)
  <2> HIDE DEF q, p
  <2>1. SkHolds(q, Len(ships))
    BY <1>1, <1>2 DEF SkHolds
  <2>2. SeesShips(q, ships) /\ SeesHours(q, project, ships)
    BY <1>2 DEF SeesShips, SeesHours
  <2>3. QED
    BY <1>2, <1>4, <2>1, <2>2, GoesInv DEF p
<1>5. ASSUME NEW h \in Assigned, NEW o \in Overrides, q.kind = "authorize",
             Goes(c, [q EXCEPT !.asked = Or(o, h), !.hours = Totalled(p, Or(o, h)),
                               !.internal = h])
      PROVE  SidekickInv'
  <2> DEFINE asked == Or(o, h)
             hours == Totalled(p, asked)
             next == [q EXCEPT !.asked = asked, !.hours = hours, !.internal = h]
             n == Len(ships)
  <2>1. asked \in Nat /\ h \in Nat /\ asked # Null
    BY SidekickAssumption DEF Or
  <2>2. p.row \in SkShip /\ project.hours \in Nat
    BY <1>1, <1>2, <1>5 DEF SkHolds, OfShip, SkProject
  <2>3. hours \in Int /\ hours = project.hours - Or(p.row.hours, 0) + asked
    <3>1. Or(p.row.hours, 0) \in Nat
      BY <2>2 DEF Or, SkShip
    <3> HIDE DEF asked, p, q
    <3>2. QED
      BY <1>2, <2>1, <2>2, <3>1 DEF Totalled
  <2>4. Goes(c, next)
    BY <1>5
  <2>5. /\ next \in SkCall /\ next.stage = "audit" /\ next.kind = p.kind /\ next.ship = p.ship
        /\ next.asked = asked /\ next.hours = hours /\ next.moved = p.moved
    <3> HIDE DEF asked, hours, p, q
    <3>1. QED
      BY <1>2, <2>1, <2>3 DEF SkCall
  <2>6. SkHolds(next, n)
    <3> HIDE DEF asked, hours, p, q, next
    <3>1. QED
      BY <1>1, <2>1, <2>5 DEF SkHolds
  <2>7. SeesShips(next, ships)
    <3> HIDE DEF next
    <3>1. QED
      BY <2>5 DEF SeesShips
  <2>8. ASSUME ~ next.moved, \A d \in Calls \ {c} : ~Saving(calls[d], n)
        PROVE  SeesHours(next, project, ships)
    <3>1. SUFFICES ASSUME Awaits(ships), p.ship = n
                   PROVE  hours = ships[n].before + asked
      <4> HIDE DEF next, hours, p, q, asked
      <4>1. QED
        BY <2>5, <3>1 DEF SeesHours
    <3>2. p.row.hours = ships[n].hours
      BY <1>1, <1>2, <1>5, <2>5, <2>8, <3>1
         DEF SidekickInv, SkInv, Informed, Fresh, SeesShips, OfShip
    <3>3. \A d \in Calls : ~Saving(calls[d], n)
      BY <2>8 DEF Saving
    <3> DEFINE had == Or(ships[n].hours, 0)
    <3>4. project.hours = ships[n].before + had
      BY <3>1, <3>3 DEF SidekickInv, SkInv, SumsUp
    <3>5. ships[n].before \in Nat /\ had \in Nat
      <4>1. n # 0 /\ n \in Nat /\ ships[n] \in SkShip
        BY <1>1, <3>1, SkShips DEF Awaits
      <4>2. QED
        BY <3>1, <4>1 DEF Awaits, SkShip, Or
    <3>6. Or(p.row.hours, 0) = had
      BY <3>2
    <3> HIDE DEF asked, hours, p, q, had
    <3>7. QED
      BY <2>1, <2>3, <3>4, <3>5, <3>6
  <2> HIDE DEF next, p, q, asked, hours
  <2>9. QED
    BY <2>4, <2>5, <2>6, <2>7, <2>8, GoesInv
<1>6. QED
  BY <1>3, <1>4, <1>5 DEF AuthorizeReads

LEMMA EditReadsInv ==
    ASSUME SidekickInv, NEW c \in Calls, calls[c].stage = "project",
           calls[c].kind = "edit", EditReads(c), UNCHANGED <<project, ships>>
    PROVE  SidekickInv'
<1> DEFINE q == calls[c]
           n == Len(ships)
<1>1. /\ SkHolds(q, n) /\ q # Free /\ q.hours = Null /\ q.row \in SkShip
      /\ SkRows(project, ships) /\ project \in SkProject
  BY DEF SidekickInv, SkInv, SkCalls, SkRows, SkHolds, Free, OfShip
<1>2. CASE Goes(c, Free)
  BY <1>1, <1>2, GoesInv
<1>3. ASSUME NEW h \in Assigned, project.status = "fraud_pending", q.row.status = "unreviewed",
             Exchanged(q, h).project.hours \in 0 .. MaxProjectHours, Goes(c, Exchanged(q, h))
      PROVE  SidekickInv'
  <2> DEFINE old == Or(q.row.hours, 0)
             new == IF q.row.internal # Null /\ q.row.hours \notin {Null, q.row.internal}
                    THEN old ELSE h
             hours == project.hours + new - old
             p == [project EXCEPT !.hours = hours]
             row == [q.row EXCEPT !.hours = new, !.internal = h]
             next == [q EXCEPT !.stage = "saveProject", !.project = p, !.row = row]
  <2>1. /\ h \in Nat /\ old \in Nat /\ new \in Nat /\ project.hours \in Nat
        /\ q.row.hours # Null => old = q.row.hours
    BY <1>1, SidekickAssumption DEF Or, SkShip, SkProject
  <2>2. Exchanged(q, h) = next
    BY DEF Exchanged
  <2>3. next.project = p
    BY <1>1 DEF SkHolds, SkCall
  <2>4. p.hours = hours /\ p.status = "fraud_pending"
    <3> HIDE DEF hours
    <3>1. QED
      BY <1>1, <1>3 DEF SkProject
  <2>5. hours \in Nat
    <3>1. hours \in 0 .. MaxProjectHours
      <4> HIDE DEF next, p, hours, q
      <4>1. QED
        BY <1>3, <2>2, <2>3, <2>4
    <3> HIDE DEF hours
    <3>2. QED
      BY <3>1, SidekickAssumption
  <2>6. p \in SkProject
    <3> HIDE DEF hours
    <3>1. QED
      BY <1>1, <2>5 DEF SkProject
  <2>7. row \in SkShip /\ row.status = "unreviewed" /\ row.hours = new
    <3> DEFINE was == q.row
    <3>1. was \in SkShip /\ was.status = "unreviewed"
      BY <1>1, <1>3
    <3> HIDE DEF new, was
    <3>2. [was EXCEPT !.hours = new, !.internal = h] \in SkShip
      BY <2>1, <3>1 DEF SkShip
    <3>3. /\ [was EXCEPT !.hours = new, !.internal = h].status = "unreviewed"
          /\ [was EXCEPT !.hours = new, !.internal = h].hours = new
      BY <2>1, <3>1 DEF SkShip
    <3>4. QED
      BY <3>2, <3>3 DEF was
  <2>8. /\ next \in SkCall /\ next.stage = "saveProject" /\ next.kind = "edit" /\ next.ship = q.ship
        /\ next.project = p /\ next.row = row /\ next.hours = Null /\ next.moved = q.moved
    <3>1. q \in SkCall /\ q.kind = "edit"
      BY <1>1 DEF SkHolds
    <3> HIDE DEF q, p, row
    <3>2. QED
      BY <1>1, <2>6, <2>7, <3>1 DEF SkCall
  <2>9. SkHolds(next, n)
    <3>1. new # Null
      BY <2>1, SidekickAssumption
    <3> HIDE DEF q, p, row, next, new
    <3>2. QED
      BY <1>1, <2>4, <2>6, <2>7, <2>8, <3>1 DEF SkHolds
  <2>10. SeesShips(next, ships)
    <3> HIDE DEF next
    <3>1. QED
      BY <2>8 DEF SeesShips
  <2>11. ASSUME ~ next.moved, \A d \in Calls \ {c} : ~Saving(calls[d], n)
         PROVE  SeesHours(next, project, ships)
    <3>1. SUFFICES ASSUME Awaits(ships), q.ship = n
                   PROVE  hours = ships[n].before + new
      <4> HIDE DEF next, hours, p, q, row, new
      <4>1. QED
        BY <2>4, <2>7, <2>8, <3>1 DEF SeesHours
    <3>2. q.row.hours = ships[n].hours
      BY <1>1, <2>8, <2>11, <3>1
         DEF SidekickInv, SkInv, Informed, Fresh, SeesShips, OfShip
    <3>3. \A d \in Calls : ~Saving(calls[d], n)
      BY <2>11 DEF Saving
    <3>4. project.hours = ships[n].before + old
      BY <3>1, <3>2, <3>3 DEF SidekickInv, SkInv, SumsUp
    <3>5. ships[n].before \in Nat
      <4>1. n # 0 /\ n \in Nat /\ ships[n] \in SkShip
        BY <1>1, <3>1, SkShips DEF Awaits
      <4>2. QED
        BY <3>1, <4>1 DEF Awaits, SkShip
    <3> HIDE DEF new, old
    <3>6. QED
      BY <2>1, <3>4, <3>5
  <2>12. Goes(c, next)
    BY <1>3, <2>2, Zenon
  <2> HIDE DEF next
  <2>13. QED
    BY <1>1, <2>8, <2>9, <2>10, <2>11, <2>12, GoesInv
<1>4. QED
  BY <1>2, <1>3 DEF EditReads

LEMMA ReadProjectInv ==
    ASSUME SidekickInv, NEW c \in Calls, ReadProject(c)
    PROVE  SidekickInv'
<1> DEFINE q == calls[c]
           next == [q EXCEPT !.stage = "open"]
<1>1. CASE q.kind \in {"approve", "reject"} /\ Goes(c, next)
  <2>1. q.stage = "project" /\ SkHolds(q, Len(ships)) /\ UNCHANGED <<project, ships>>
    BY DEF ReadProject, SidekickInv, SkInv, SkCalls, Free
  <2>2. /\ next \in SkCall /\ next.stage = "open" /\ next.ship = q.ship
        /\ next.hours = q.hours /\ next.hours = Null
    BY <2>1 DEF SkHolds, SkCall
  <2> HIDE DEF next
  <2>3. SkHolds(next, Len(ships))
    BY <2>1, <2>2 DEF SkHolds
  <2>4. SeesShips(next, ships) /\ SeesHours(next, project, ships)
    BY <2>2 DEF SeesShips, SeesHours
  <2>5. QED
    BY <1>1, <2>1, <2>2, <2>3, <2>4, GoesInv
<1>2. QED
  BY <1>1, AuthorizeReadsInv, EditReadsInv DEF ReadProject

-----------------------------------------------------------------------------
(* The two saves of an edit, and a call that ends before its time.          *)

(* Rows on which nothing is known to await HQ hold whatever the calls know. *)
LEMMA NothingAwaits ==
    ASSUME NEW p, NEW ss, ~ Awaits(ss), SkRows(p, ss), NEW cs, SkCalls(cs, Len(ss)),
           \A c \in Calls : Fresh(cs[c]) => SeesShips(cs[c], ss)
    PROVE  SkInv(p, ss, cs)
  BY DEF SkInv, AwaitsOpen, SumsUp, Informed, SeesHours

LEMMA GiveUpInv ==
    ASSUME SidekickInv, NEW c \in Calls, GiveUp(c)
    PROVE  SidekickInv'
<1>1. SkRows(project, ships) /\ DOMAIN calls = Calls
  BY DEF SidekickInv, SkInv, SkCalls
<1>2. CASE calls[c].stage # "saveShip"
  BY <1>2, GoesInv DEF GiveUp
<1>3. CASE calls[c].stage = "saveShip"
  <2>1. ships' = Doubtful /\ project' = project /\ calls' = [calls EXCEPT ![c] = Free]
    BY <1>3 DEF GiveUp, Goes
  <2>2. SkRows(project', ships') /\ Len(ships') = Len(ships) /\ ~ Awaits(ships')
    <3>1. Len(ships) \in Nat
      BY <1>1, SkShips
    <3>2. QED
      BY <1>1, <2>1, <3>1, DoubtfulShips DEF SkRows, Awaits
  <2>3. SkCalls(calls', Len(ships'))
    BY <1>1, <2>1, <2>2 DEF SidekickInv, SkInv, SkCalls
  <2>4. ASSUME NEW d \in Calls, Fresh(calls'[d])
        PROVE  SeesShips(calls'[d], ships')
    <3>1. d # c /\ calls'[d] = calls[d]
      BY <1>1, <2>1, <2>4 DEF Fresh
    <3>2. SeesShips(calls[d], ships) /\ SkHolds(calls[d], Len(ships))
      BY <2>4, <3>1 DEF SidekickInv, SkInv, Informed, SkCalls, Fresh
    <3>3. calls[d].ship \in 1 .. Len(ships)
      BY <3>2 DEF SkHolds
    <3>4. ships'[calls[d].ship].hours = ships[calls[d].ship].hours /\ OpenIn(ships') = OpenIn(ships)
      BY <1>1, <2>1, <3>3, DoubtfulShips
    <3>5. QED
      BY <2>2, <3>1, <3>2, <3>4 DEF SeesShips
  <2>5. SkInv(project', ships', calls')
    BY <2>2, <2>3, <2>4, NothingAwaits
  <2>6. QED
    BY <2>5 DEF SidekickInv
<1>4. QED
  BY <1>2, <1>3

(* The other calls after a step that marks them.                            *)
LEMMA OthersMoved ==
    ASSUME SidekickInv, NEW c \in Calls, NEW call, Leaves(c, call), Len(ships') = Len(ships),
           call # Free => SkHolds(call, Len(ships))
    PROVE  /\ SkCalls(calls', Len(ships')) /\ calls'[c] = call
           /\ \A d \in Calls \ {c} : ~ Fresh(calls'[d])
           /\ \A d \in Calls \ {c} : \A n : Saving(calls'[d], n) <=> Saving(calls[d], n)
<1>1. DOMAIN calls' = Calls /\ calls'[c] = call
  BY LeavesWhat
<1>2. ASSUME NEW d \in Calls \ {c}
      PROVE  /\ calls'[d] # Free => SkHolds(calls'[d], Len(ships)) /\ calls'[d].moved
             /\ \A n : Saving(calls'[d], n) <=> Saving(calls[d], n)
  <2>1. CASE calls[d] = Free
    BY <2>1, LeavesWhat
  <2>2. CASE calls[d] # Free
    <3>1. SkHolds(calls[d], Len(ships)) /\ Len(ships) \in Nat
      BY <2>2, SkShips DEF SidekickInv, SkInv, SkCalls
    <3>2. calls'[d] = [calls[d] EXCEPT !.moved = TRUE]
      BY <2>2, LeavesWhat
    <3>3. /\ SkHolds([calls[d] EXCEPT !.moved = TRUE], Len(ships))
          /\ [calls[d] EXCEPT !.moved = TRUE].moved
          /\ [calls[d] EXCEPT !.moved = TRUE].stage = calls[d].stage
          /\ [calls[d] EXCEPT !.moved = TRUE].ship = calls[d].ship
      BY <3>1, MovedHolds
    <3>4. QED
      BY <3>2, <3>3 DEF Saving
  <2>3. QED
    BY <2>1, <2>2
<1>3. SkCalls(calls', Len(ships'))
  BY <1>1, <1>2 DEF SkCalls
<1>4. QED
  BY <1>1, <1>2, <1>3 DEF Fresh

LEMMA SaveProjectInv ==
    ASSUME SidekickInv, NEW c \in Calls, SaveProject(c)
    PROVE  SidekickInv'
<1> DEFINE q == calls[c]
           next == [q EXCEPT !.stage = "saveShip", !.project = Null]
           n == Len(ships)
<1>1. /\ SkHolds(q, n) /\ q.stage = "saveProject" /\ SkRows(project, ships)
      /\ project' = q.project /\ Leaves(c, next)
  BY DEF SaveProject, SidekickInv, SkInv, SkCalls, Free
<1>2. project' \in SkProject /\ project'.status = "fraud_pending"
  BY <1>1 DEF SkHolds
<1>3. /\ next \in SkCall /\ next.stage = "saveShip" /\ next.kind = q.kind /\ next.ship = q.ship
      /\ next.row = q.row /\ next.hours = q.hours /\ next.asked = q.asked /\ next.moved = q.moved
  BY <1>1 DEF SkHolds, SkCall
<1>4. SkHolds(next, n) /\ next # Free
  <2> HIDE DEF q, next
  <2>1. QED
    BY <1>1, <1>3, CallIsBusy DEF SkHolds
<1> HIDE DEF next
<1>5. CASE q.moved \/ q.ship # NewestShip
  <2>1. ships' = Doubtful
    BY <1>5 DEF SaveProject
  <2>2. SkRows(project', ships') /\ Len(ships') = n /\ ~ Awaits(ships')
    <3>1. Len(ships) \in Nat
      BY <1>1, SkShips
    <3>2. QED
      BY <1>1, <1>2, <2>1, <3>1, DoubtfulShips DEF SkRows, Awaits
  <2>3. /\ SkCalls(calls', Len(ships')) /\ calls'[c] = next
        /\ \A d \in Calls \ {c} : ~ Fresh(calls'[d])
    BY <1>1, <1>4, <2>2, OthersMoved
  <2>4. ASSUME NEW d \in Calls, Fresh(calls'[d])
        PROVE  SeesShips(calls'[d], ships')
    BY <1>3, <2>2, <2>3, <2>4 DEF SeesShips
  <2>5. SkInv(project', ships', calls')
    BY <2>2, <2>3, <2>4, NothingAwaits
  <2>6. QED
    BY <2>5 DEF SidekickInv
<1>6. CASE ~ q.moved /\ q.ship = NewestShip
  <2>1. ships' = ships
    BY <1>6 DEF SaveProject
  <2>2. SkRows(project', ships') /\ AwaitsOpen(project', ships')
    BY <1>1, <1>2, <2>1 DEF SkRows, SidekickInv, SkInv, AwaitsOpen
  <2>3. /\ SkCalls(calls', Len(ships')) /\ calls'[c] = next
        /\ \A d \in Calls \ {c} : ~ Fresh(calls'[d])
        /\ \A d \in Calls \ {c} : Saving(calls'[d], n) <=> Saving(calls[d], n)
    BY <1>1, <1>4, <2>1, OthersMoved
  <2>4. Saving(calls'[c], n)
    BY <1>3, <1>6, <2>3 DEF Saving, NewestShip
  <2>5. SumsUp(project', ships', calls')
    BY <2>1, <2>4 DEF SumsUp
  <2>6. SeesShips(next, ships)
    BY <1>3, <1>6 DEF SeesShips, NewestShip
  <2>7. ASSUME \A d \in Calls \ {c} : ~Saving(calls'[d], n)
        PROVE  SeesHours(next, project', ships)
    <3>1. SeesHours(q, project, ships)
      <4>1. Fresh(q)
        BY <1>1, <1>6 DEF Fresh, Free
      <4>2. QED
        BY <2>3, <2>7, <4>1 DEF SidekickInv, SkInv, Informed
    <3>2. QED
      BY <1>1, <1>3, <3>1 DEF SeesHours
  <2>8. Informed(project', ships', calls')
    BY <2>1, <2>3, <2>6, <2>7 DEF Informed
  <2>9. QED
    BY <2>2, <2>3, <2>5, <2>8 DEF SidekickInv, SkInv
<1>7. QED
  BY <1>5, <1>6

LEMMA SaveShipInv ==
    ASSUME SidekickInv, NEW c \in Calls, SaveShip(c)
    PROVE  SidekickInv'
<1> DEFINE q == calls[c]
           n == Len(ships)
           s == q.ship
           before == IF q.moved THEN Null ELSE ships[s].before
           row == [ships[s] EXCEPT !.status = q.row.status, !.hours = q.row.hours,
                                   !.internal = q.row.internal, !.before = before]
<1>1. /\ SkHolds(q, n) /\ q.stage = "saveShip" /\ q # Free /\ SkRows(project, ships)
      /\ project' = project /\ project \in SkProject /\ Leaves(c, Free)
  BY DEF SaveShip, Ends, SidekickInv, SkInv, SkCalls, SkRows, Free
<1>2. /\ s \in 1 .. n /\ n \in Nat /\ ships[s] \in SkShip /\ DOMAIN ships = 1 .. n
      /\ q.row \in SkShip /\ q.row.status = "unreviewed" /\ q.row.hours # Null
  BY <1>1, SkShips DEF SkHolds
<1>3. /\ row \in SkShip /\ row.status = "unreviewed" /\ row.hours = q.row.hours
      /\ row.before = before
  <2>1. /\ before \in Nat \cup {Null} /\ q.row.status \in SkStatuses
        /\ q.row.hours \in Nat \cup {Null} /\ q.row.internal \in Nat \cup {Null}
    BY <1>2 DEF SkShip
  <2> HIDE DEF before, s
  <2>2. QED
    BY <1>2, <2>1 DEF SkShip
<1>4. ships' = [ships EXCEPT ![s] = row]
  <2>1. ships' = [ships EXCEPT ![s].status = q.row.status, ![s].hours = q.row.hours,
                               ![s].internal = q.row.internal,
                               ![s].before = IF q.moved THEN Null ELSE @]
    BY DEF SaveShip
  <2> HIDE DEF s, q
  <2>2. QED
    BY <1>2, <2>1
<1>5. /\ SkRows(project', ships') /\ Len(ships') = n
      /\ ships'[s] = row /\ \A t \in 1 .. n : t # s => ships'[t] = ships[t]
  <2> HIDE DEF row, s
  <2>1. QED
    BY <1>1, <1>2, <1>3, <1>4, OneShip
<1>6. /\ SkCalls(calls', Len(ships')) /\ calls'[c] = Free
      /\ \A d \in Calls \ {c} : ~ Fresh(calls'[d])
      /\ \A d \in Calls \ {c} : Saving(calls'[d], n) <=> Saving(calls[d], n)
  BY <1>1, <1>5, OthersMoved
<1>7. Informed(project', ships', calls')
  BY <1>6 DEF Informed, Fresh
<1> HIDE DEF row
<1>8. Awaits(ships') => Awaits(ships) /\ ships'[n].before = ships[n].before
  BY <1>2, <1>3, <1>5 DEF Awaits
<1>9. AwaitsOpen(project', ships')
  <2>1. CASE s = n
    BY <1>1, <1>2, <1>3, <1>5, <1>8, <2>1 DEF SidekickInv, SkInv, AwaitsOpen
  <2>2. CASE s # n
    BY <1>1, <1>2, <1>5, <1>8, <2>2 DEF SidekickInv, SkInv, AwaitsOpen, Awaits
  <2>3. QED
    BY <2>1, <2>2
<1>10. SumsUp(project', ships', calls')
  <2> SUFFICES ASSUME Awaits(ships'), \A d \in Calls : ~Saving(calls'[d], n)
               PROVE  project.hours = ships[n].before + Or(ships'[n].hours, 0)
    BY <1>1, <1>5, <1>8 DEF SumsUp
  <2>1. \A d \in Calls \ {c} : ~Saving(calls[d], n)
    BY <1>6
  (* The newest ship was fitted by this call: the project has its hours.    *)
  <2>2. CASE s = n
    <3>1. Fresh(q)
      BY <1>1, <1>3, <1>5, <2>2 DEF Fresh, Awaits
    <3>2. SeesHours(q, project, ships)
      BY <2>1, <3>1 DEF SidekickInv, SkInv, Informed
    <3>3. QED
      BY <1>1, <1>2, <1>3, <1>5, <1>8, <2>2, <3>2 DEF SeesHours, Or
  <2>3. CASE s # n
    <3>1. \A d \in Calls : ~Saving(calls[d], n)
      BY <2>1, <2>3 DEF Saving
    <3>2. ships'[n] = ships[n]
      BY <1>2, <1>5, <2>3
    <3>3. QED
      BY <1>8, <3>1, <3>2 DEF SidekickInv, SkInv, SumsUp
  <2>4. QED
    BY <2>2, <2>3
<1>11. QED
  BY <1>5, <1>6, <1>7, <1>9, <1>10 DEF SidekickInv, SkInv

-----------------------------------------------------------------------------
LEMMA SidekickInvInit == SidekickInit => SidekickInv
<1> SUFFICES ASSUME SidekickInit PROVE SidekickInv
  OBVIOUS
<1>1. <<>> \in Seq(SkShip) /\ Len(<<>>) = 0
  BY EmptySeq
<1>2. SkRows(project, ships)
  BY <1>1, SidekickAssumption DEF SidekickInit, SkRows, SkProject
<1>3. ~ Awaits(ships) /\ SkCalls(calls, Len(ships)) /\ \A c \in Calls : ~ Fresh(calls[c])
  BY <1>1 DEF SidekickInit, Awaits, SkCalls, Fresh
<1>4. QED
  BY <1>2, <1>3, NothingAwaits DEF SidekickInv

LEMMA SidekickStep ==
    ASSUME SidekickInv, [SidekickNext]_sidekickVars
    PROVE  SidekickInv'
<1>1. CASE UNCHANGED sidekickVars
  BY <1>1 DEF sidekickVars, SidekickInv
<1>2. CASE SidekickNext
  BY <1>2, PanelInv, ReadShipInv, ReadProjectInv, RequireOpenInv, ReviewsInv, AuditsInv,
     SaveProjectInv, SaveShipInv, GiveUpInv DEF SidekickNext
<1>3. QED
  BY <1>1, <1>2

(* However calls of Sidekick, panels and builders interleave, the hours of  *)
(* a ship that awaits HQ are in its project's, and a call that nobody       *)
(* overtook knows the rows as they are.                                     *)
THEOREM SidekickInvariant == SidekickSpec => []SidekickInv
<1>1. SidekickInv /\ [SidekickNext]_sidekickVars => SidekickInv'
  BY SidekickStep
<1>2. QED
  BY <1>1, SidekickInvInit, PTL DEF SidekickSpec

LEMMA SidekickTypes == SidekickInv => SidekickTypeOK
<1> SUFFICES ASSUME SidekickInv PROVE SidekickTypeOK
  OBVIOUS
<1>1. /\ project \in SkProject /\ Len(ships) \in Nat /\ Len(ships) <= MaxSubmissions
      /\ DOMAIN ships = 1 .. Len(ships)
      /\ \A s \in 1 .. Len(ships) : ships[s] \in SkShip
  BY SkShips DEF SidekickInv, SkInv, SkRows
<1>2. \A s \in DOMAIN ships :
        /\ ships[s].status \in {"unreviewed", "approved"} \cup Turned
        /\ ships[s].hours \in MaybeHours /\ ships[s].internal \in MaybeHours
        /\ ships[s].reviews \in 0 .. MaxReviews
        /\ ships[s].before \in MaybeHours
  BY <1>1 DEF SkShip, SkStatuses, MaybeHours
<1>3. \A c \in Calls :
        /\ calls[c].stage \in {"free", "project", "open", "review", "audit",
                               "saveProject", "saveShip"}
        /\ calls[c] # Free => calls[c].kind \in Kinds /\ calls[c].ship \in DOMAIN ships
  <2> TAKE c \in Calls
  <2>1. Free.stage = "free"
    BY DEF Free
  <2>2. calls[c] # Free => SkHolds(calls[c], Len(ships))
    BY DEF SidekickInv, SkInv, SkCalls
  <2>3. QED
    BY <1>1, <2>1, <2>2 DEF SkHolds, SkCall
<1>4. /\ project.status \in {"unshipped", "unreviewed", "fraud_pending", "approved"} \cup Turned
      /\ project.hours \in Int /\ project.pipes \in Nat
  BY <1>1 DEF SkProject, SkStatuses
<1>5. QED
  BY <1>1, <1>2, <1>3, <1>4 DEF SidekickTypeOK

-----------------------------------------------------------------------------
(* What the decisions promise.                                              *)

LEMMA SavingIsStage ==
    ASSUME \A c \in Calls : calls[c].stage # "saveShip", NEW n
    PROVE  \A c \in Calls : ~ Saving(calls[c], n)
  BY DEF Saving

LEMMA HoursAdd == SidekickInv => HoursAddUp
<1> SUFFICES ASSUME SidekickInv, PassAwaits, \A c \in Calls : calls[c].stage # "saveShip"
             PROVE  project.hours = ships[NewestShip].before + Or(ships[NewestShip].hours, 0)
  BY DEF HoursAddUp
<1>1. \A c \in Calls : ~ Saving(calls[c], Len(ships))
  BY SavingIsStage
<1>2. QED
  BY <1>1 DEF SidekickInv, SkInv, SumsUp, PassAwaits, NewestShip, Awaits

LEMMA NothingShown == SidekickInv => NothingPendingShown
<1> SUFFICES ASSUME SidekickInv, PassAwaits, project.status = "fraud_pending",
                    \A c \in Calls : calls[c].stage # "saveShip"
             PROVE  FoundHours = ships[NewestShip].before /\ ApprovalsShown(NewestShip) = 0
  BY DEF NothingPendingShown
<1> DEFINE ship == ships[NewestShip]
           hours == Or(ship.hours, 0)
<1>1. project.hours = ship.before + hours
  BY HoursAdd DEF HoursAddUp
<1>2. Awaits(ships) /\ SkRows(project, ships) /\ AwaitsOpen(project, ships)
  BY DEF SidekickInv, SkInv, PassAwaits, Awaits, NewestShip
<1>3. ship.status = "unreviewed" /\ ship.before # Null /\ NewestShip # 0
  BY <1>2 DEF AwaitsOpen, Awaits, NewestShip
<1>4. ship \in SkShip
  BY <1>2, <1>3, SkShips DEF NewestShip
<1>5. hours \in Nat /\ ship.before \in Nat
  BY <1>3, <1>4 DEF SkShip, Or
<1>6. OpenShip = NewestShip
  BY <1>2, <1>3, OpenIsOpen, OpenShipIs DEF NewestShip
<1>8. FoundHours = IF hours > 0 THEN Less(project.hours, hours) ELSE project.hours
  BY <1>3, <1>6 DEF FoundHours
<1> HIDE DEF ship, hours
<1>9. FoundHours = ship.before
  BY <1>1, <1>5, <1>8 DEF Less
<1>10. QED
  BY <1>3, <1>9 DEF ApprovalsShown, ship

LEMMA ReviewLands ==
    ASSUME SidekickInv, NEW c \in Calls, Reviews(c), ~ calls[c].moved
    PROVE  calls[c].ship = OpenShip
<1>1. Fresh(calls[c]) /\ calls[c].stage = "review"
  BY DEF Reviews, Fresh, Free
<1>2. SeesShips(calls[c], ships)
  BY <1>1 DEF SidekickInv, SkInv, Informed
<1>3. QED
  BY <1>1, <1>2, OpenShipIs DEF SeesShips

LEMMA AuditPays ==
    ASSUME SidekickInv, NEW c \in Calls, Audits(c), calls[c].kind = "authorize",
           calls[c].hours # Null, ~ calls[c].moved, calls[c].ship = NewestShip, PassAwaits,
           \A d \in Calls : calls[d].stage # "saveShip"
    PROVE  project'.hours = ships[NewestShip].before + calls[c].asked
<1> DEFINE q == calls[c]
<1>1. Fresh(q) /\ q.stage = "audit" /\ SkHolds(q, Len(ships))
  BY DEF Audits, Fresh, Free, SidekickInv, SkInv, SkCalls
<1>2. \A d \in Calls : ~ Saving(calls[d], Len(ships))
  BY SavingIsStage
<1>3. SeesHours(q, project, ships)
  BY <1>1, <1>2 DEF SidekickInv, SkInv, Informed
<1>4. q.hours = ships[NewestShip].before + q.asked
  BY <1>1, <1>3 DEF SeesHours, PassAwaits, Awaits, NewestShip
<1>5. q.hours \in Int \cup {Null} /\ q.internal \in Nat \cup {Null}
  BY <1>1 DEF SkHolds, SkCall
<1>6. DecideApprove(q.hours, q.internal)
  BY DEF Audits
<1>7. project'.hours = q.hours
  BY <1>5, <1>6, DecideApproveSound DEF SidekickInv, SkInv, Sound
<1>8. QED
  BY <1>4, <1>7

(* A step into the audit queue that leaves a pass of the newest ship        *)
(* awaiting HQ is a first pass.                                             *)
LEMMA OnlyPassAwaits ==
    ASSUME SidekickInv, SidekickNext, project.status = "unreviewed",
           project'.status = "fraud_pending", PassAwaits'
    PROVE  \E h, i \in Nat \cup {Null} : Pass(h, i)
<1>1. Sound /\ ~ Awaits(ships)
  BY DEF SidekickInv, SkInv, Sound, AwaitsOpen
<1>2. Awaits(ships')
  BY DEF PassAwaits, Awaits, NewestShip
<1>4. \A h \in Assigned, o \in Overrides : h \in Nat /\ Or(o, h) \in Nat
  BY SidekickAssumption DEF Or
<1>5. ASSUME Panel
      PROVE  \E e \in Entered : Pass(e[1], e[2])
  <2>1. \A e \in Entered : ~ DecideApprove(e[1], Or(e[2], e[1]))
    BY DEF DecideApprove, MayDecideApprove
  <2>2. ~ DecideReturn
    BY DEF DecideReturn
  <2>3. \A verdict \in Turned : /\ ~ DecideReject(verdict)
                                /\ \A e \in Entered : ~ TurnDown(verdict, e[1], e[2])
    BY <1>1, <1>2, EnteredHours, TurnDownSound DEF DecideReject
  <2>4. ~ ShipAgain /\ ~ TakeBackShip /\ ~ LoadUnreviewed
    BY <1>1, <1>2, ShippedSound
  <2>5. QED
    BY <1>5, <2>1, <2>2, <2>3, <2>4 DEF Panel
<1>6. ASSUME NEW c \in Calls, Reviews(c)
      PROVE  \E h \in Assigned, o \in Overrides : Pass(Or(o, h), h)
  BY <1>1, <1>2, <1>6, TurnDownSound DEF Reviews
<1>7. ASSUME NEW c \in Calls
      PROVE  /\ ~ Audits(c) /\ ~ SaveShip(c) /\ ~ GiveUp(c)
             /\ ~ ReadShip(c) /\ ~ ReadProject(c) /\ ~ RequireOpenSubmission(c)
  BY DEF Audits, DecideApprove, MayDecideApprove, DecideReturn, SaveShip, GiveUp, ReadShip,
         ReadProject, RequireOpenSubmission
<1>8. ASSUME NEW c \in Calls
      PROVE  ~ SaveProject(c)
  <2>1. SaveProject(c) => ships' = ships \/ ships' = Doubtful
    BY DEF SaveProject
  <2>2. ~ Awaits(Doubtful)
    <3>1. SkRows(project, ships) /\ Len(ships) \in Nat
      BY <1>1, SkShips DEF Sound
    <3>2. QED
      BY <3>1, DoubtfulShips DEF Awaits
  <2>3. QED
    BY <1>1, <1>2, <2>1, <2>2
<1>9. CASE Panel
  BY <1>5, <1>9, EnteredHours
<1>10. ASSUME NEW c \in Calls, Reviews(c)
       PROVE  \E h, i \in Nat \cup {Null} : Pass(h, i)
  BY <1>4, <1>6, <1>10
<1>11. QED
  BY <1>7, <1>8, <1>9, <1>10 DEF SidekickNext

LEMMA PassHidden ==
    ASSUME SidekickInv, SidekickNext, project.status = "unreviewed",
           project'.status = "fraud_pending", PassAwaits', NEW tracked \in Tracked
    PROVE  HoursShown(tracked)' = HoursShown(tracked)
<1>1. PICK h, i \in Nat \cup {Null} : Pass(h, i)
  BY OnlyPassAwaits
<1> DEFINE given == Or(h, 0)
<1>2. /\ OpenShip' = NewestShip' /\ Or(ships'[NewestShip'].hours, 0) = given
      /\ project'.hours = project.hours + given /\ project'.pipes = project.pipes
      /\ project.hours \in Nat
  BY <1>1, PassSound DEF SidekickInv, SkInv, Sound
<1>3. NewestShip' # 0 /\ given \in Nat
  BY DEF PassAwaits, Or
<1> HIDE DEF given
<1>4. FoundHours' = IF given > 0 THEN Less(project'.hours, given) ELSE project'.hours
  BY <1>2, <1>3 DEF FoundHours
<1>5. FoundHours' = project.hours
  BY <1>2, <1>3, <1>4 DEF Less
<1>6. FoundHours = project.hours
  BY DEF FoundHours
<1>7. Bucket' = Bucket
  BY DEF Bucket
<1>8. Earned(tracked)' = Earned(tracked)
  BY <1>2, <1>5, <1>6, <1>7 DEF Earned
<1>9. QED
  BY <1>7, <1>8 DEF HoursShown

(* Rows, ships and calls of Sidekick keep their types.                      *)
THEOREM SidekickTypeCorrect == SidekickSpec => []SidekickTypeOK
  BY SidekickInvariant, SidekickTypes, PTL

(* A decision sent from Sidekick is on what the reviewer saw, and pays what *)
(* the reviewer gave; the builder hears of it when it is final.             *)
THEOREM DecisionsStandForGood == SidekickSpec => DecisionsStand
<1>1. SidekickInv /\ [SidekickNext]_sidekickVars =>
        [\A c \in Calls : Reviews(c) /\ ~calls[c].moved => calls[c].ship = OpenShip]_sidekickVars
  BY ReviewLands
<1>2. SidekickInv /\ [SidekickNext]_sidekickVars => [\A c \in Calls :
        LET q == calls[c] IN
        Audits(c) /\ q.kind = "authorize" /\ q.hours # Null /\ ~q.moved /\ q.ship = NewestShip
                /\ PassAwaits /\ (\A d \in Calls : calls[d].stage # "saveShip") =>
            project'.hours = ships[NewestShip].before + q.asked]_sidekickVars
  BY AuditPays
<1>3. SidekickInv /\ [SidekickNext]_sidekickVars =>
        [project.status = "unreviewed" /\ project'.status = "fraud_pending" /\ PassAwaits' =>
            \A tracked \in Tracked : HoursShown(tracked)' = HoursShown(tracked)]_sidekickVars
  BY PassHidden DEF sidekickVars
<1>4. QED
  BY <1>1, <1>2, <1>3, HoursAdd, NothingShown, SidekickInvariant, PTL
     DEF SidekickSpec, DecisionsStand, HoursStand, LandsOnNamedShip, AuthorizedHours, PassIsHidden

(* Both parts of the decisions keep their types, whichever of them runs.    *)
THEOREM DecisionsTypeCorrect == DecisionsSpec => []DecisionsTypeOK
<1> DEFINE Both == ReviewTypeOK /\ SidekickInv
<1>1. DecisionsInit => Both
  BY ReviewTypeInit, SidekickInvInit DEF DecisionsInit
<1>2. ASSUME Both, [DecisionsNext]_<<vars, sidekickVars, focus>>
      PROVE  Both'
  <2>1. CASE UNCHANGED <<vars, sidekickVars, focus>>
    BY <1>2, <2>1, ReviewTypeStep, SidekickStep
  <2>2. CASE ReviewNext /\ UNCHANGED sidekickVars
    BY <1>2, <2>2, ReviewTypeStep, SidekickStep
  <2>3. CASE SidekickNext /\ UNCHANGED vars
    BY <1>2, <2>3, ReviewTypeStep, SidekickStep
  <2>4. QED
    BY <1>2, <2>1, <2>2, <2>3 DEF DecisionsNext
<1>3. Both => DecisionsTypeOK
  BY SidekickTypes DEF DecisionsTypeOK
<1>4. QED
  BY <1>1, <1>2, <1>3, PTL DEF DecisionsSpec
=============================================================================
