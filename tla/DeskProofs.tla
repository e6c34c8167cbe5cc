------------------------------ MODULE DeskProofs ------------------------------
(* Theorems of the three components of MCDesk: Desk, for any number of      *)
(* requests, hours and submissions; Claims, for any number of requests and  *)
(* reviewers; Bans, for any projects and orders.  Of Desk: until something  *)
(* is torn, one request at a time is between two of its writes; whoever     *)
(* else holds the row has read it before, and is stale; and what the purse  *)
(* and the record differ by is what that one request owes.                  *)
EXTENDS MCDesk, TLAPS

(***************************************************************************)
(* Desk.                                                                   *)
(***************************************************************************)

Hand == [stage: {"idle", "read", "submit", "revoke", "amend", "close", "sum", "record"},
         kind: Kinds \cup {None}, seen: DeskRow \cup {Gone, None}, row: DeskRow \cup {None},
         sub: 0 .. MaxSubmissions, due: 0 .. 2 * MaxDeskHours, stale: BOOLEAN]

Verdicts == {"changes_needed", "rejected"}
Audits == {"approve", "return"}

(* A request that is at work holds a row that its kind makes of the row it  *)
(* last saw.                                                                *)
AtWork(x) ==
    /\ x.kind \in Kinds /\ x.seen \in DeskRow /\ x.row \in DeskRow
    /\ x.stage = "read" =>
        /\ x.seen.status \in Acceptable(x.kind) /\ x.row \in Outcomes(x.kind, x.seen)
        /\ x.due = 0
    /\ x.stage = "submit" => x.kind \in {"ship", "resubmit"}
    /\ x.stage \in {"revoke", "amend"} => x.kind \in Verdicts
    /\ x.stage = "close" => x.kind \in Verdicts \cup Audits
    /\ x.stage \in {"sum", "record"} => x.kind = "approve"

Formed(x) == IF x.stage = "idle" THEN x = Empty ELSE AtWork(x)

WellFormed == \A r \in Requests : Formed(hand[r])

(* A row that was read and not saved over since is the row.                 *)
FreshReads ==
    \A r \in Requests : hand[r].stage = "read" /\ ~hand[r].stale => hand[r].seen = proj

(* What a request is about to change, or to record, of what was paid.       *)
Owed(x) == IF x.stage = "amend" THEN -x.due ELSE IF x.stage = "record" THEN x.due ELSE 0

(* A request between two of its writes.                                     *)
Fits(x) ==
    /\ ~x.stale /\ x.seen = proj /\ purse = proj.paid + Owed(x)
    /\ x.stage = "revoke" => x.row.paid = 0
    /\ x.stage = "amend" => x.row.paid = purse
    /\ x.stage \in {"revoke", "amend"} => x.row.status = x.kind
    /\ x.stage \in {"close", "sum", "record"} => x.row = proj
    /\ x.kind \in Verdicts => proj.status = x.kind
    /\ x.kind = "approve" => proj.status = "approved"

Midway(r) == hand[r].stage \notin {"idle", "read"}

OneMidway == \A q \in Requests : Midway(q) =>
    Fits(hand[q]) /\ \A r \in Requests \ {q} : hand[r].stage # "idle" => hand[r].stale

(* An audit that is not stale has the newest submission.                    *)
Numbered == \A r \in Requests :
    ~hand[r].stale /\ hand[r].stage # "idle" /\ hand[r].kind \in Audits => hand[r].sub = newest.n

(* When no request is between two writes, the books agree.                  *)
Agree == proj # Gone =>
    /\ purse = proj.paid
    /\ proj.status = "unreviewed" /\ newest.n > 0 => newest.open

AtRest == (\A r \in Requests : ~Midway(r)) => Agree

InTurn == OneMidway /\ Numbered /\ AtRest

(* The inductive invariant.                                                 *)
DeskInv == DeskTypeOK /\ WellFormed /\ FreshReads /\ (~torn => InTurn)

-----------------------------------------------------------------------------
LEMMA EmptyIs == Empty \in Hand /\ Empty.stage = "idle" /\ Formed(Empty) /\ ~Empty.stale
  BY DeskAssumption DEF Empty, Hand, Formed

LEMMA DeskTypes ==
    DeskTypeOK <=> /\ proj \in DeskRow \cup {Gone}
                   /\ newest \in [n: 0 .. MaxSubmissions, open: BOOLEAN]
                   /\ purse \in Int /\ torn \in BOOLEAN
                   /\ hand \in [Requests -> Hand]
  BY DEF DeskTypeOK, Hand

(* What a request makes of the row it read.                                 *)
LEMMA OutcomeIs ==
    ASSUME NEW kind \in Kinds, NEW row \in DeskRow, row.status \in Acceptable(kind),
           NEW y \in Outcomes(kind, row)
    PROVE  /\ y \in DeskRow /\ y.paid = row.paid
           /\ kind \in {"edit", "delete"} => y = row
           /\ kind = "ship" => row.status \in {"unshipped", "changes_needed"}
           /\ kind \in {"ship", "resubmit", "return"} => y.status = "unreviewed"
           /\ kind = "withdraw" => y.status = "unshipped" /\ row.status = "unreviewed"
           /\ kind = "pass" => y.status = "fraud_pending"
           /\ kind \in Verdicts => y.status = kind
           /\ kind = "approve" => y.status = "approved"
<1>1. /\ row.status \in DeskStatuses /\ row.hours \in 0 .. MaxDeskHours
      /\ row.paid \in 0 .. MaxDeskHours /\ MaxDeskHours \in Nat
  BY DeskAssumption DEF DeskRow
<1>2. \A s \in DeskStatuses : /\ [row EXCEPT !.status = s] \in DeskRow
                              /\ [row EXCEPT !.status = s].paid = row.paid
                              /\ [row EXCEPT !.status = s].status = s
  BY <1>1 DEF DeskRow
<1>3. \A s \in DeskStatuses, h \in 0 .. MaxDeskHours :
        /\ [row EXCEPT !.status = s, !.hours = h] \in DeskRow
        /\ [row EXCEPT !.status = s, !.hours = h].paid = row.paid
        /\ [row EXCEPT !.status = s, !.hours = h].status = s
  BY <1>1 DEF DeskRow
<1>4. CASE kind \in {"edit", "delete"}
  BY <1>4 DEF Outcomes, Verdicts
<1>5. CASE kind \in {"ship", "resubmit"}
  BY <1>2, <1>5 DEF Outcomes, Verdicts, DeskStatuses, Acceptable
<1>6. CASE kind = "withdraw"
  BY <1>2, <1>6 DEF Outcomes, Verdicts, DeskStatuses, Acceptable
<1>7. CASE kind = "pass"
  <2> DEFINE hours == {n \in {row.hours, row.hours + 1} : n \in 1 .. MaxDeskHours /\ n >= row.paid}
  <2>1. Outcomes(kind, row) = {[row EXCEPT !.status = "fraud_pending", !.hours = h] : h \in hours}
    BY <1>7 DEF Outcomes
  <2>2. hours \subseteq 0 .. MaxDeskHours
    BY <1>1
  <2> HIDE DEF hours
  <2>3. PICK h \in 0 .. MaxDeskHours : y = [row EXCEPT !.status = "fraud_pending", !.hours = h]
    BY <2>1, <2>2
  <2>4. QED
    BY <1>3, <1>7, <2>3 DEF Verdicts, DeskStatuses
<1>8. CASE kind \in Verdicts
  BY <1>2, <1>8 DEF Outcomes, Verdicts, DeskStatuses
<1>9. CASE kind = "approve"
  <2> DEFINE hours == row.paid .. MaxDeskHours
  <2>1. Outcomes(kind, row) = {[row EXCEPT !.status = "approved", !.hours = h] : h \in hours}
    BY <1>9 DEF Outcomes
  <2>2. hours \subseteq 0 .. MaxDeskHours
    BY <1>1
  <2> HIDE DEF hours
  <2>3. PICK h \in 0 .. MaxDeskHours : y = [row EXCEPT !.status = "approved", !.hours = h]
    BY <2>1, <2>2
  <2>4. QED
    BY <1>3, <1>9, <2>3 DEF Verdicts, DeskStatuses
<1>10. CASE kind = "return"
  <2> DEFINE hours == 0 .. row.hours
  <2>1. Outcomes(kind, row) = {[row EXCEPT !.status = "unreviewed", !.hours = h] : h \in hours}
    BY <1>10 DEF Outcomes
  <2>2. hours \subseteq 0 .. MaxDeskHours
    BY <1>1
  <2> HIDE DEF hours
  <2>3. PICK h \in 0 .. MaxDeskHours : y = [row EXCEPT !.status = "unreviewed", !.hours = h]
    BY <2>1, <2>2
  <2>4. QED
    BY <1>3, <1>10, <2>3 DEF Verdicts, DeskStatuses
<1>11. QED
  BY <1>4, <1>5, <1>6, <1>7, <1>8, <1>9, <1>10 DEF Kinds, BuilderKinds, StaffKinds, Verdicts

(* A save over it makes a request stale, and changes nothing else of it.    *)
Outdated(q) ==
    /\ hand'[q].stage = hand[q].stage /\ hand'[q].kind = hand[q].kind
    /\ hand'[q].seen = hand[q].seen /\ hand'[q].row = hand[q].row
    /\ hand'[q].sub = hand[q].sub /\ hand'[q].due = hand[q].due
    /\ hand[q].stage # "idle" => hand'[q].stale
    /\ Formed(hand[q]) => Formed(hand'[q])

LEMMA OvertakeEffect ==
    ASSUME DeskTypeOK, WellFormed, NEW r \in Requests, NEW next \in Hand, Overtake(r, next)
    PROVE  /\ hand' \in [Requests -> Hand] /\ hand'[r] = next
           /\ \A q \in Requests \ {r} : Outdated(q)
<1>1. hand \in [Requests -> Hand]
  BY DeskTypes
<1>2. ASSUME NEW q \in Requests \ {r}, hand[q] = Empty, hand'[q] = Empty
      PROVE  hand'[q] \in Hand /\ Outdated(q)
  BY <1>2, EmptyIs DEF Outdated
<1>3. ASSUME NEW q \in Requests \ {r}, hand[q] # Empty, hand'[q] = [hand[q] EXCEPT !.stale = TRUE]
      PROVE  hand'[q] \in Hand /\ Outdated(q)
  <2>1. hand[q] \in Hand /\ hand[q].stage # "idle"
    BY <1>1, <1>3 DEF WellFormed, Formed
  <2>2. /\ hand'[q] \in Hand /\ hand'[q].stale
        /\ hand'[q].stage = hand[q].stage /\ hand'[q].kind = hand[q].kind
        /\ hand'[q].seen = hand[q].seen /\ hand'[q].row = hand[q].row
        /\ hand'[q].sub = hand[q].sub /\ hand'[q].due = hand[q].due
    BY <1>3, <2>1 DEF Hand
  <2>3. AtWork(hand[q]) => AtWork(hand'[q])
    BY <2>2 DEF AtWork
  <2>4. QED
    BY <2>1, <2>2, <2>3 DEF Outdated, Formed
<1>4. QED
  BY <1>1, <1>2, <1>3 DEF Overtake

LEMMA DoneEffect ==
    ASSUME DeskTypeOK, NEW r \in Requests, Done(r)
    PROVE  /\ hand' \in [Requests -> Hand] /\ hand'[r] = Empty
           /\ \A q \in Requests \ {r} : hand'[q] = hand[q]
<1>1. hand \in [Requests -> Hand]
  BY DeskTypes
<1>2. QED
  BY <1>1, EmptyIs DEF Done, Turn

-----------------------------------------------------------------------------
(* The shapes of a step, and what each keeps.                               *)

(* The other requests go on as they were, or overtaken.                     *)
Others(r) == \A q \in Requests \ {r} : hand'[q] = hand[q] \/ Outdated(q)
Overtaken(r) == \A q \in Requests \ {r} : hand'[q].stage = hand[q].stage
                                         /\ (hand[q].stage # "idle" => hand'[q].stale)

LEMMA FormedKept ==
    ASSUME WellFormed, NEW r \in Requests, Others(r), Formed(hand'[r])
    PROVE  WellFormed'
  BY DEF WellFormed, Others, Outdated

LEMMA FreshKept ==
    ASSUME FreshReads, NEW r \in Requests, Others(r),
           proj' = proj \/ Overtaken(r),
           hand'[r].stage = "read" /\ ~hand'[r].stale => hand'[r].seen = proj'
    PROVE  FreshReads'
<1> SUFFICES ASSUME NEW q \in Requests \ {r}, hand'[q].stage = "read", ~hand'[q].stale
             PROVE  hand'[q].seen = proj'
  BY DEF FreshReads
<1>1. hand'[q] = hand[q] /\ proj' = proj
  BY DEF Others, Outdated, Overtaken
<1>2. QED
  BY <1>1 DEF FreshReads

(* A request that is between its writes, or is not stale, is the only one.  *)
Free(r) == \A q \in Requests \ {r} : ~Midway(q)

LEMMA OnlyOne ==
    ASSUME InTurn, NEW r \in Requests, hand[r].stage # "idle", Midway(r) \/ ~hand[r].stale
    PROVE  /\ Free(r)
           /\ Midway(r) => /\ Fits(hand[r])
                          /\ \A q \in Requests \ {r} : hand[q].stage # "idle" => hand[q].stale
           /\ ~Midway(r) => Agree
  BY DEF InTurn, OneMidway, Free, Fits, AtRest

(* The step ends the request's writes.                                      *)
LEMMA RestAfter ==
    ASSUME InTurn, NEW r \in Requests, Free(r), Others(r), ~Midway(r)',
           hand'[r].stage = "idle", Agree',
           newest' = newest \/ Overtaken(r)
    PROVE  InTurn'
<1>1. \A q \in Requests : ~Midway(q)'
  BY DEF Free, Others, Outdated, Midway
<1>2. OneMidway' /\ AtRest'
  BY <1>1 DEF OneMidway, AtRest
<1>3. ASSUME NEW q \in Requests, ~hand'[q].stale, hand'[q].stage # "idle", hand'[q].kind \in Audits
      PROVE  hand'[q].sub = newest'.n
  <2>1. q # r /\ hand'[q] = hand[q] /\ newest' = newest
    BY <1>3 DEF Others, Outdated, Overtaken
  <2>2. QED
    BY <1>3, <2>1 DEF InTurn, Numbered
<1>4. QED
  BY <1>2, <1>3 DEF InTurn, Numbered

(* The step leaves the request between two writes.                          *)
LEMMA MidwayAfter ==
    ASSUME InTurn, NEW r \in Requests, Free(r), Overtaken(r), Midway(r)', Fits(hand[r])',
           hand'[r].kind \in Audits => hand'[r].sub = newest'.n
    PROVE  InTurn'
<1>1. \A q \in Requests \ {r} : ~Midway(q)' /\ (hand'[q].stage # "idle" => hand'[q].stale)
  BY DEF Free, Overtaken, Midway
<1>2. QED
  BY <1>1 DEF InTurn, OneMidway, AtRest, Numbered

(* The step is nobody's write.                                              *)
LEMMA NothingWritten ==
    ASSUME InTurn, NEW r \in Requests, ~Midway(r), ~Midway(r)',
           \A q \in Requests \ {r} : hand'[q] = hand[q],
           UNCHANGED <<proj, newest, purse>>,
           hand'[r].stage # "idle" =>
                Free(r) /\ (hand'[r].kind \in Audits => hand'[r].sub = newest.n)
    PROVE  InTurn'
<1>1. \A q \in Requests : Midway(q)' <=> Midway(q)
  BY DEF Midway
<1>2. OneMidway'
  <2> SUFFICES ASSUME NEW q \in Requests, Midway(q)'
               PROVE  /\ Fits(hand[q])'
                      /\ \A z \in Requests \ {q} : hand'[z].stage # "idle" => hand'[z].stale
    BY DEF OneMidway
  <2>1. Midway(q) /\ q # r /\ hand'[q] = hand[q]
    BY <1>1
  <2>2. Fits(hand[q]) /\ \A z \in Requests \ {q} : hand[z].stage # "idle" => hand[z].stale
    BY <2>1 DEF InTurn, OneMidway
  <2>3. Fits(hand[q])'
    BY <2>1, <2>2 DEF Fits, Owed
  <2>4. hand'[r].stage = "idle"
    BY <2>1 DEF Free
  <2>5. QED
    BY <2>2, <2>3, <2>4
<1>3. AtRest'
  BY <1>1 DEF InTurn, AtRest, Agree
<1>4. Numbered'
  BY DEF InTurn, Numbered
<1>5. QED
  BY <1>2, <1>3, <1>4 DEF InTurn

-----------------------------------------------------------------------------
(* What a decision's first save goes on with.                               *)
LEMMA DecidedIs ==
    ASSUME NEW x \in Hand, AtWork(x), x.stage = "read", x.kind # "delete"
    PROVE  \/ Decided(x) = Empty /\ x.kind \in {"edit", "withdraw", "pass"}
           \/ /\ Decided(x) \in Hand /\ AtWork(Decided(x))
              /\ Decided(x).stage \in {"submit", "revoke", "amend", "close"}
              /\ Decided(x).kind = x.kind /\ Decided(x).seen = x.row /\ Decided(x).sub = x.sub
              /\ Decided(x).due = 0 /\ Decided(x).stale = x.stale
              /\ Decided(x).stage = "revoke" => Decided(x).row.paid = 0
              /\ Decided(x).stage = "amend" => Decided(x).row.paid = x.row.paid
              /\ Decided(x).stage \in {"revoke", "amend"} => Decided(x).row.status = x.kind
              /\ Decided(x).stage = "close" => Decided(x).row = x.row
<1>1. /\ x.kind \in Kinds /\ x.seen \in DeskRow /\ x.row \in DeskRow /\ x.due = 0
      /\ x.row.paid = x.seen.paid /\ (x.kind \in Verdicts => x.row.status = x.kind)
  BY OutcomeIs DEF AtWork
<1>2. CASE NextStage(x.kind, x.seen) = "idle"
  BY <1>1, <1>2 DEF Decided, NextStage, Kinds, BuilderKinds, StaffKinds
<1>3. CASE NextStage(x.kind, x.seen) # "idle"
  <2> DEFINE stage == NextStage(x.kind, x.seen)
             amended == Amended(x)
  <2>1. /\ stage \in {"submit", "revoke", "amend", "close"}
        /\ stage = "submit" => x.kind \in {"ship", "resubmit"}
        /\ stage \in {"revoke", "amend"} => x.kind \in Verdicts
        /\ stage = "revoke" => x.seen.status = "approved"
        /\ stage = "amend" => ~(x.seen.status = "approved" /\ x.seen.paid > 0)
        /\ stage = "close" => x.kind \in Audits
    BY <1>1, <1>3 DEF NextStage, Kinds, BuilderKinds, StaffKinds, Verdicts, Audits
  <2>2. /\ x.row.hours \in 0 .. MaxDeskHours /\ x.row.paid \in 0 .. MaxDeskHours
        /\ x.row.status \in DeskStatuses /\ x.seen.paid \in 0 .. MaxDeskHours
        /\ 0 \in 0 .. MaxDeskHours /\ MaxDeskHours \in Nat
    BY <1>1, DeskAssumption DEF DeskRow
  <2>3. \A z \in {x.row, [x.row EXCEPT !.hours = 0, !.paid = 0], [x.row EXCEPT !.hours = 0]} :
            z \in DeskRow /\ z.status = x.row.status /\ z.paid \in {x.row.paid, 0}
    BY <1>1, <2>2 DEF DeskRow
  <2>4. amended \in DeskRow /\ amended.status = x.row.status
    BY <2>3 DEF Amended
  <2>5. x.kind \in Verdicts /\ x.seen.status = "approved" => amended.paid = 0
    BY <1>1, <2>2 DEF Amended, Verdicts, DeskRow
  <2>6. ~(x.kind \in Verdicts /\ x.seen.status = "approved") => amended.paid = x.row.paid
    BY <1>1, <2>2 DEF Amended, Verdicts, DeskRow
  <2>7. x.kind \notin Verdicts => amended = x.row
    BY DEF Amended, Verdicts
  <2>8. stage = "amend" => amended.paid = x.row.paid
    BY <1>1, <2>1, <2>2, <2>5, <2>6
  <2>9. Decided(x) = [x EXCEPT !.stage = stage, !.row = amended, !.seen = x.row]
    BY <1>3 DEF Decided
  <2> HIDE DEF stage, amended
  <2>10. /\ Decided(x) \in Hand
         /\ Decided(x).stage = stage /\ Decided(x).row = amended /\ Decided(x).seen = x.row
         /\ Decided(x).kind = x.kind /\ Decided(x).sub = x.sub /\ Decided(x).due = 0
         /\ Decided(x).stale = x.stale
    BY <1>1, <2>1, <2>4, <2>9 DEF Hand
  <2>11. AtWork(Decided(x))
    BY <1>1, <2>1, <2>4, <2>10 DEF AtWork
  <2>12. stage = "close" => amended = x.row
    BY <2>1, <2>7 DEF Verdicts, Audits
  <2>13. QED
    BY <1>1, <2>1, <2>4, <2>5, <2>8, <2>10, <2>11, <2>12
<1>4. QED
  BY <1>2, <1>3

-----------------------------------------------------------------------------
(* The invariant, one action at a time.                                     *)

LEMMA ReadKeeps ==
    ASSUME DeskInv, NEW r \in Requests, NEW kind \in Kinds, ReadRow(r, kind)
    PROVE  DeskInv'
<1>1. /\ DeskTypeOK /\ hand \in [Requests -> Hand] /\ proj \in DeskRow
      /\ hand[r].stage = "idle" /\ proj.status \in Acceptable(kind)
      /\ newest.n \in 0 .. MaxSubmissions /\ MaxSubmissions \in Nat /\ MaxDeskHours \in Nat
  BY EmptyIs, DeskTypes, DeskAssumption DEF DeskInv, ReadRow
<1>2. PICK row \in Outcomes(kind, proj) : hand' = Turn(hand, r,
            [stage |-> "read", kind |-> kind, seen |-> proj, row |-> row,
             sub |-> SubmissionFor(kind), due |-> 0, stale |-> FALSE])
  BY DEF ReadRow
<1>3. row \in DeskRow
  BY <1>1, OutcomeIs
<1>4. SubmissionFor(kind) \in 0 .. MaxSubmissions /\ (kind \in Audits => SubmissionFor(kind) = newest.n)
  BY <1>1 DEF SubmissionFor, Audits
<1> DEFINE new == [stage |-> "read", kind |-> kind, seen |-> proj, row |-> row,
                   sub |-> SubmissionFor(kind), due |-> 0, stale |-> FALSE]
<1>5. new \in Hand /\ AtWork(new)
  BY <1>1, <1>3, <1>4 DEF Hand, AtWork
<1>6. /\ new.stage = "read" /\ new.seen = proj /\ new.kind = kind /\ new.sub = SubmissionFor(kind)
  OBVIOUS
<1>7. hand' = [hand EXCEPT ![r] = new]
  BY <1>2 DEF Turn
<1> HIDE DEF new
<1>8. /\ hand' \in [Requests -> Hand] /\ hand'[r] = new
      /\ \A q \in Requests \ {r} : hand'[q] = hand[q]
      /\ UNCHANGED <<proj, newest, purse>> /\ torn' = (torn \/ HalfWay # {})
  BY <1>1, <1>5, <1>7 DEF ReadRow
<1>9. DeskTypeOK'
  BY <1>1, <1>8, DeskTypes DEF DeskTypeOK, Hand
<1>10. WellFormed' /\ FreshReads'
  BY <1>5, <1>6, <1>8, FormedKept, FreshKept DEF DeskInv, Formed, Others
<1>11. ASSUME ~torn' PROVE InTurn'
  <2>1. InTurn /\ Free(r)
    BY <1>8, <1>11 DEF DeskInv, HalfWay, Free, Midway
  <2>2. ~Midway(r) /\ ~Midway(r)'
    BY <1>1, <1>6, <1>8 DEF Midway
  <2>3. QED
    BY <1>4, <1>6, <1>8, <2>1, <2>2, NothingWritten
<1>12. QED
  BY <1>9, <1>10, <1>11 DEF DeskInv

LEMMA GiveUpKeeps ==
    ASSUME DeskInv, NEW r \in Requests, GiveUpRequest(r)
    PROVE  DeskInv'
<1>1. /\ hand' \in [Requests -> Hand] /\ hand'[r] = Empty /\ hand[r].stage = "read"
      /\ \A q \in Requests \ {r} : hand'[q] = hand[q]
      /\ UNCHANGED <<proj, newest, purse, torn>>
  BY DoneEffect DEF DeskInv, GiveUpRequest
<1>2. DeskTypeOK'
  BY <1>1, DeskTypes DEF DeskInv, DeskTypeOK, Hand
<1>3. WellFormed' /\ FreshReads'
  BY <1>1, EmptyIs, FormedKept, FreshKept DEF DeskInv, Others
<1>4. ASSUME ~torn PROVE InTurn'
  BY <1>1, <1>4, EmptyIs, NothingWritten DEF DeskInv, Midway
<1>5. QED
  BY <1>1, <1>2, <1>3, <1>4 DEF DeskInv

LEMMA RemoveKeeps ==
    ASSUME DeskInv, NEW r \in Requests, RemoveRow(r)
    PROVE  DeskInv'
<1>1. /\ hand' \in [Requests -> Hand] /\ hand'[r] = Empty /\ hand[r].stage = "read"
      /\ \A q \in Requests \ {r} : Outdated(q)
  BY EmptyIs, OvertakeEffect DEF DeskInv, RemoveRow
<1>2. /\ proj' = Gone /\ newest' = [n |-> 0, open |-> FALSE] /\ purse' = purse
      /\ torn' = (torn \/ hand[r].stale)
  BY DEF RemoveRow
<1>3. Others(r) /\ Overtaken(r)
  BY <1>1 DEF Others, Overtaken, Outdated
<1>4. DeskTypeOK'
  <2>1. newest' \in [n: 0 .. MaxSubmissions, open: BOOLEAN]
    BY <1>2, DeskAssumption
  <2>2. torn' \in BOOLEAN
    BY <1>2
  <2>3. QED
    BY <1>1, <1>2, <2>1, <2>2 DEF DeskInv, DeskTypeOK, Hand
<1>5. WellFormed' /\ FreshReads'
  BY <1>1, <1>3, EmptyIs, FormedKept, FreshKept DEF DeskInv
<1>6. ASSUME ~torn' PROVE InTurn'
  <2>1. InTurn /\ ~hand[r].stale
    BY <1>2, <1>6 DEF DeskInv
  <2>2. Free(r)
    BY <1>1, <2>1, OnlyOne
  <2>3. Agree'
    BY <1>2 DEF Agree
  <2>4. QED
    BY <1>1, <1>3, <2>1, <2>2, <2>3, EmptyIs, RestAfter DEF Midway
<1>7. QED
  BY <1>4, <1>5, <1>6 DEF DeskInv

LEMMA DecisionKeeps ==
    ASSUME DeskInv, NEW r \in Requests, SaveDecision(r)
    PROVE  DeskInv'
<1> DEFINE x == hand[r]
           next == Decided(hand[r])
<1>1. /\ DeskTypeOK /\ x \in Hand /\ x.stage = "read" /\ x.kind # "delete" /\ AtWork(x)
      /\ hand \in [Requests -> Hand] /\ torn \in BOOLEAN
  BY DeskTypes DEF DeskInv, SaveDecision, WellFormed, Formed
<1>2. /\ proj' = x.row /\ x.row \in DeskRow /\ UNCHANGED <<newest, purse>>
      /\ torn' = (torn \/ (x.stale /\ (x.row # proj \/ next # Empty)))
  BY <1>1 DEF SaveDecision, SaveRow, AtWork
<1>3. next \in Hand /\ Formed(next)
  BY <1>1, DecidedIs, EmptyIs DEF Formed
<1>4. CASE x.row = proj /\ next = Empty
  <2>1. /\ hand' \in [Requests -> Hand] /\ hand'[r] = Empty
        /\ \A q \in Requests \ {r} : hand'[q] = hand[q]
    BY <1>1, <1>3, <1>4 DEF SaveDecision, SaveRow, Turn
  <2>2. proj' = proj /\ torn' = torn
    BY <1>1, <1>2, <1>4
  <2>3. DeskTypeOK'
    BY <1>1, <1>2, <2>1, <2>2, DeskTypes DEF DeskTypeOK, Hand
  <2>4. WellFormed' /\ FreshReads'
    BY <2>1, <2>2, EmptyIs, FormedKept, FreshKept DEF DeskInv, Others
  <2>5. ASSUME ~torn PROVE InTurn'
    BY <1>1, <1>2, <2>1, <2>2, <2>5, EmptyIs, NothingWritten DEF DeskInv, Midway
  <2>6. QED
    BY <2>2, <2>3, <2>4, <2>5 DEF DeskInv
<1>5. CASE ~(x.row = proj /\ next = Empty)
  <2>1. /\ hand' \in [Requests -> Hand] /\ hand'[r] = next
        /\ \A q \in Requests \ {r} : Outdated(q)
    BY <1>1, <1>3, <1>5, OvertakeEffect DEF DeskInv, SaveDecision, SaveRow
  <2>2. Others(r) /\ Overtaken(r)
    BY <2>1 DEF Others, Overtaken, Outdated
  <2>3. DeskTypeOK'
    <3>1. torn' \in BOOLEAN
      BY <1>1, <1>2
    <3>2. QED
      BY <1>1, <1>2, <2>1, <3>1, DeskTypes DEF DeskTypeOK, Hand
  <2>4. next.stage # "read"
    BY <1>1, DecidedIs, EmptyIs
  <2>5. WellFormed' /\ FreshReads'
    BY <1>3, <2>1, <2>2, <2>4, FormedKept, FreshKept DEF DeskInv
  <2>6. ASSUME ~torn' PROVE InTurn'
    <3>1. InTurn /\ ~x.stale
      BY <1>2, <1>5, <2>6 DEF DeskInv
    <3>2. Free(r) /\ Agree /\ x.seen = proj
      BY <1>1, <3>1, OnlyOne DEF Midway, DeskInv, FreshReads
    <3>3. /\ proj \in DeskRow /\ proj # Gone /\ x.row.paid = proj.paid /\ purse = proj.paid
          /\ proj' # Gone /\ purse \in Int
      BY <1>1, <1>2, <3>2, OutcomeIs, DeskAssumption DEF AtWork, Agree, DeskTypeOK
    <3>4. CASE next = Empty
      <4>1. x.kind \in {"edit", "withdraw", "pass"}
        BY <1>1, <3>4, DecidedIs, EmptyIs
      <4>2. x.row = proj \/ x.row.status # "unreviewed"
        BY <1>1, <3>2, <4>1, OutcomeIs DEF AtWork
      <4>3. Agree'
        BY <1>2, <3>2, <3>3, <4>2 DEF Agree
      <4>4. QED
        BY <2>1, <2>2, <3>1, <3>2, <3>4, <4>3, EmptyIs, RestAfter DEF Midway
    <3>5. CASE next # Empty
      <4>1. /\ next.stage \in {"submit", "revoke", "amend", "close"}
            /\ next.kind = x.kind /\ next.seen = x.row /\ next.sub = x.sub
            /\ next.due = 0 /\ next.stale = x.stale
            /\ next.stage = "revoke" => next.row.paid = 0
            /\ next.stage = "amend" => next.row.paid = x.row.paid
            /\ next.stage \in {"revoke", "amend"} => next.row.status = x.kind
            /\ next.stage = "close" => next.row = x.row
        BY <1>1, <3>5, DecidedIs
      <4>2. /\ x.kind \in Verdicts => x.row.status = x.kind
            /\ x.kind = "approve" => x.row.status = "approved"
        BY <1>1, OutcomeIs DEF AtWork
      <4>3. purse' = proj'.paid + Owed(next)
        BY <1>2, <3>3, <4>1 DEF Owed
      <4>4. Fits(hand[r])'
        BY <1>2, <2>1, <3>1, <3>3, <4>1, <4>2, <4>3 DEF Fits, Owed
      <4>5. Midway(r)' /\ (x.kind \in Audits => hand'[r].sub = newest'.n)
        BY <1>1, <1>2, <2>1, <3>1, <4>1 DEF Midway, InTurn, Numbered
      <4>6. QED
        BY <2>1, <2>2, <3>1, <3>2, <4>1, <4>4, <4>5, MidwayAfter
    <3>6. QED
      BY <3>4, <3>5
  <2>7. QED
    BY <2>3, <2>5, <2>6 DEF DeskInv
<1>6. QED
  BY <1>4, <1>5

(* A request between two writes has the row it last saw, and the others     *)
(* have read theirs before.                                                 *)
LEMMA MidwayHas ==
    ASSUME DeskInv, NEW r \in Requests, Midway(r)
    PROVE  /\ hand[r] \in Hand /\ AtWork(hand[r])
           /\ ~torn => /\ InTurn /\ Free(r) /\ Fits(hand[r])
                       /\ proj \in DeskRow /\ proj # Gone /\ proj.paid \in 0 .. MaxDeskHours
                       /\ \A q \in Requests \ {r} : hand[q].stage # "idle" => hand[q].stale
<1>1. hand[r] \in Hand /\ AtWork(hand[r]) /\ hand[r].stage # "idle"
  BY DeskTypes DEF DeskInv, WellFormed, Formed, Midway
<1>2. ASSUME ~torn
      PROVE  /\ InTurn /\ Free(r) /\ Fits(hand[r])
             /\ \A q \in Requests \ {r} : hand[q].stage # "idle" => hand[q].stale
  BY <1>1, <1>2, OnlyOne DEF DeskInv
<1>3. ASSUME ~torn PROVE proj \in DeskRow
  BY <1>1, <1>2, <1>3 DEF Fits, AtWork
<1>4. QED
  BY <1>1, <1>2, <1>3, DeskAssumption DEF DeskRow

LEMMA InsertKeeps ==
    ASSUME DeskInv, NEW r \in Requests, InsertSubmission(r)
    PROVE  DeskInv'
<1>1. /\ hand' \in [Requests -> Hand] /\ hand'[r] = Empty /\ hand[r].stage = "submit"
      /\ \A q \in Requests \ {r} : hand'[q] = hand[q]
      /\ UNCHANGED <<proj, purse, torn>>
  BY DoneEffect DEF DeskInv, InsertSubmission
<1>2. /\ newest' = IF proj = Gone THEN newest ELSE [n |-> newest.n + 1, open |-> TRUE]
      /\ newest.n < MaxSubmissions
  BY DEF InsertSubmission
<1>3. DeskTypeOK'
  <2>1. newest.n \in Nat /\ MaxSubmissions \in Nat /\ newest \in [n: 0 .. MaxSubmissions, open: BOOLEAN]
    BY DeskAssumption DEF DeskInv, DeskTypeOK
  <2>2. newest.n + 1 \in 0 .. MaxSubmissions
    BY <1>2, <2>1
  <2>3. newest' \in [n: 0 .. MaxSubmissions, open: BOOLEAN]
    BY <1>2, <2>1, <2>2
  <2>4. QED
    BY <1>1, <2>3, DeskTypes DEF DeskInv, DeskTypeOK, Hand
<1>4. WellFormed' /\ FreshReads'
  BY <1>1, EmptyIs, FormedKept, FreshKept DEF DeskInv, Others
<1>5. ASSUME ~torn PROVE InTurn'
  <2>1. /\ InTurn /\ Free(r) /\ Fits(hand[r]) /\ proj # Gone
        /\ \A q \in Requests \ {r} : hand[q].stage # "idle" => hand[q].stale
        /\ proj.paid \in Int
    BY <1>1, <1>5, MidwayHas DEF Midway
  <2>2. Others(r) /\ Overtaken(r)
    BY <1>1, <2>1 DEF Others, Overtaken
  <2>3. purse = proj.paid
    BY <1>1, <2>1 DEF Fits, Owed
  <2>4. Agree'
    BY <1>1, <1>2, <2>1, <2>3 DEF Agree
  <2>5. QED
    BY <1>1, <2>1, <2>2, <2>4, EmptyIs, RestAfter DEF Midway
<1>6. QED
  BY <1>1, <1>3, <1>4, <1>5 DEF DeskInv

LEMMA RevokeKeeps ==
    ASSUME DeskInv, NEW r \in Requests, Revoke(r)
    PROVE  DeskInv'
<1>1. /\ hand[r].stage = "revoke" /\ hand[r] \in Hand /\ AtWork(hand[r])
      /\ hand \in [Requests -> Hand] /\ Midway(r)
      /\ UNCHANGED <<proj, newest, torn>> /\ purse' = purse - hand[r].seen.paid
  BY MidwayHas, DeskTypes DEF DeskInv, Revoke, Midway
<1>2. hand[r].seen.paid \in 0 .. MaxDeskHours /\ MaxDeskHours \in Nat
  BY <1>1, DeskAssumption DEF AtWork, DeskRow
<1> DEFINE next == [hand[r] EXCEPT !.stage = "amend", !.due = hand[r].seen.paid]
<1>3. hand' = [hand EXCEPT ![r] = next]
  BY DEF Revoke
<1>4. hand[r].seen.paid \in 0 .. 2 * MaxDeskHours
  BY <1>2
<1>5. /\ next \in Hand /\ next.stage = "amend" /\ next.due = hand[r].seen.paid
      /\ next.kind = hand[r].kind /\ next.seen = hand[r].seen /\ next.row = hand[r].row
      /\ next.sub = hand[r].sub /\ next.stale = hand[r].stale
  BY <1>1, <1>4 DEF Hand
<1> HIDE DEF next
<1>6. /\ hand' \in [Requests -> Hand] /\ hand'[r] = next
      /\ \A q \in Requests \ {r} : hand'[q] = hand[q]
  BY <1>1, <1>3, <1>5
<1>7. Formed(next)
  BY <1>1, <1>5 DEF Formed, AtWork
<1>8. DeskTypeOK'
  <2>1. purse' \in Int
    BY <1>1, <1>2 DEF DeskInv, DeskTypeOK
  <2>2. QED
    BY <1>1, <1>6, <2>1, DeskTypes DEF DeskInv, DeskTypeOK, Hand
<1>9. WellFormed' /\ FreshReads'
  BY <1>1, <1>5, <1>6, <1>7, FormedKept, FreshKept DEF DeskInv, Others
<1>10. ASSUME ~torn PROVE InTurn'
  <2>1. /\ InTurn /\ Free(r) /\ Fits(hand[r])
        /\ \A q \in Requests \ {r} : hand[q].stage # "idle" => hand[q].stale
        /\ proj.paid \in Int
    BY <1>1, <1>10, MidwayHas
  <2>2. Overtaken(r)
    BY <1>6, <2>1 DEF Overtaken
  <2>3. purse = proj.paid /\ hand[r].seen = proj /\ hand[r].row.paid = 0
    BY <1>1, <2>1 DEF Fits, Owed
  <2>4. Owed(next) = -proj.paid /\ purse' = 0
    BY <1>1, <1>5, <2>1, <2>3 DEF Owed
  <2>5. proj.paid + Owed(next) = 0
    BY <2>1, <2>4
  <2>6. Fits(hand[r])'
    BY <1>1, <1>5, <1>6, <2>1, <2>3, <2>4, <2>5 DEF Fits, Owed
  <2>7. QED
    BY <1>1, <1>5, <1>6, <2>1, <2>2, <2>6, MidwayAfter DEF Midway, InTurn, Numbered, Fits
<1>11. QED
  BY <1>1, <1>8, <1>9, <1>10 DEF DeskInv

LEMMA AmendKeeps ==
    ASSUME DeskInv, NEW r \in Requests, Amend(r)
    PROVE  DeskInv'
<1> DEFINE next == [hand[r] EXCEPT !.stage = "close", !.seen = hand[r].row, !.due = 0]
<1>1. /\ hand[r].stage = "amend" /\ hand[r] \in Hand /\ AtWork(hand[r])
      /\ hand \in [Requests -> Hand] /\ Midway(r) /\ UNCHANGED <<newest, purse>>
      /\ SaveRow(r, hand[r].row, next) /\ torn \in BOOLEAN
  BY MidwayHas, DeskTypes DEF DeskInv, Amend, Midway
<1>2. 0 \in 0 .. 2 * MaxDeskHours
  BY DeskAssumption
<1>3. /\ next \in Hand /\ next.stage = "close" /\ next.due = 0
      /\ next.kind = hand[r].kind /\ next.seen = hand[r].row /\ next.row = hand[r].row
      /\ next.sub = hand[r].sub /\ next.stale = hand[r].stale
  BY <1>1, <1>2 DEF Hand, AtWork
<1> HIDE DEF next
<1>4. Formed(next) /\ next # Empty
  BY <1>1, <1>3, EmptyIs DEF Formed, AtWork
<1>5. /\ proj' = hand[r].row /\ torn' = (torn \/ hand[r].stale) /\ Overtake(r, next)
  BY <1>1, <1>4 DEF SaveRow
<1>6. /\ hand' \in [Requests -> Hand] /\ hand'[r] = next
      /\ \A q \in Requests \ {r} : Outdated(q)
  BY <1>3, <1>5, OvertakeEffect DEF DeskInv
<1>7. Others(r) /\ Overtaken(r)
  BY <1>6 DEF Others, Overtaken, Outdated
<1>8. DeskTypeOK'
  <2>1. torn' \in BOOLEAN
    BY <1>1, <1>5
  <2>2. proj' \in DeskRow
    BY <1>1, <1>5 DEF AtWork
  <2>3. QED
    BY <1>1, <1>6, <2>1, <2>2, DeskTypes DEF DeskInv, DeskTypeOK, Hand
<1>9. WellFormed' /\ FreshReads'
  BY <1>3, <1>4, <1>6, <1>7, FormedKept, FreshKept DEF DeskInv
<1>10. ASSUME ~torn' PROVE InTurn'
  <2>1. /\ ~torn /\ InTurn /\ Free(r) /\ Fits(hand[r])
    BY <1>1, <1>5, <1>10, MidwayHas
  <2>2. purse' = proj'.paid + Owed(next)
    <3>1. proj'.paid = purse /\ purse' = purse /\ purse \in Int
      BY <1>1, <1>5, <2>1 DEF Fits, DeskInv, DeskTypeOK
    <3>2. Owed(next) = 0
      BY <1>3 DEF Owed
    <3>3. QED
      BY <3>1, <3>2
  <2>3. Fits(hand[r])'
    BY <1>1, <1>3, <1>5, <1>6, <2>1, <2>2 DEF Fits, Owed, AtWork, Verdicts
  <2>4. Midway(r)' /\ (hand'[r].kind \in Audits => hand'[r].sub = newest'.n)
    BY <1>1, <1>3, <1>6 DEF Midway, AtWork, Audits, Verdicts
  <2>5. QED
    BY <1>7, <2>1, <2>3, <2>4, MidwayAfter
<1>11. QED
  BY <1>8, <1>9, <1>10 DEF DeskInv

LEMMA CloseKeeps ==
    ASSUME DeskInv, NEW r \in Requests, CloseSubmission(r)
    PROVE  DeskInv'
<1>1. /\ hand[r].stage = "close" /\ hand[r] \in Hand /\ AtWork(hand[r])
      /\ hand \in [Requests -> Hand] /\ Midway(r) /\ UNCHANGED <<proj, purse, torn>>
  BY MidwayHas, DeskTypes DEF DeskInv, CloseSubmission, Midway
<1>2. /\ newest' \in [n: 0 .. MaxSubmissions, open: BOOLEAN] /\ newest'.n = newest.n
      /\ hand[r].sub = newest.n => newest'.open = (newest.n # 0 /\ hand[r].kind = "return")
  <2>1. newest \in [n: 0 .. MaxSubmissions, open: BOOLEAN]
    BY DEF DeskInv, DeskTypeOK
  <2>2. QED
    BY <2>1 DEF CloseSubmission
<1> DEFINE next == [hand[r] EXCEPT !.stage = "sum"]
<1>3. /\ next \in Hand /\ next.stage = "sum" /\ next.due = hand[r].due
      /\ next.kind = hand[r].kind /\ next.seen = hand[r].seen /\ next.row = hand[r].row
      /\ next.sub = hand[r].sub /\ next.stale = hand[r].stale
  BY <1>1 DEF Hand
<1>4. \/ Done(r)
      \/ hand[r].kind = "approve" /\ hand' = [hand EXCEPT ![r] = next]
  BY DEF CloseSubmission
<1> HIDE DEF next
<1>5. /\ hand' \in [Requests -> Hand]
      /\ hand'[r] = Empty \/ (hand'[r] = next /\ hand[r].kind = "approve")
      /\ \A q \in Requests \ {r} : hand'[q] = hand[q]
  <2>1. CASE Done(r)
    BY <2>1, DoneEffect DEF DeskInv
  <2>2. CASE hand[r].kind = "approve" /\ hand' = [hand EXCEPT ![r] = next]
    BY <1>1, <1>3, <2>2
  <2>3. QED
    BY <1>4, <2>1, <2>2
<1>6. Formed(hand'[r]) /\ hand'[r].stage # "read"
  BY <1>1, <1>3, <1>5, EmptyIs DEF Formed, AtWork
<1>7. DeskTypeOK'
  BY <1>1, <1>2, <1>5, DeskTypes DEF DeskInv, DeskTypeOK, Hand
<1>8. WellFormed' /\ FreshReads'
  BY <1>1, <1>5, <1>6, FormedKept, FreshKept DEF DeskInv, Others
<1>9. ASSUME ~torn PROVE InTurn'
  <2>1. /\ InTurn /\ Free(r) /\ Fits(hand[r]) /\ proj # Gone /\ proj.paid \in Int
        /\ \A q \in Requests \ {r} : hand[q].stage # "idle" => hand[q].stale
    BY <1>1, <1>9, MidwayHas
  <2>2. Overtaken(r) /\ Others(r)
    BY <1>5, <2>1 DEF Overtaken, Others
  <2>3. purse = proj.paid /\ hand[r].row = proj
    BY <1>1, <2>1 DEF Fits, Owed
  <2>4. CASE hand'[r] = Empty
    <3>1. hand[r].kind \in Audits => hand[r].sub = newest.n
      BY <1>1, <2>1 DEF InTurn, Numbered, Fits
    <3>2. proj.status = "unreviewed" => hand[r].kind = "return"
      BY <1>1, <2>1 DEF Fits, AtWork, Verdicts, Audits
    <3>3. proj.status = "unreviewed" /\ newest.n > 0 => newest'.open
      BY <1>2, <3>1, <3>2 DEF Audits
    <3>4. Agree'
      BY <1>1, <1>2, <2>3, <3>3 DEF Agree
    <3>5. QED
      BY <2>1, <2>2, <2>4, <3>4, EmptyIs, RestAfter DEF Midway
  <2>5. CASE hand'[r] = next /\ hand[r].kind = "approve"
    <3>1. Fits(hand[r])'
      BY <1>1, <1>3, <2>1, <2>3, <2>5 DEF Fits, Owed
    <3>2. Midway(r)' /\ hand'[r].sub = newest'.n
      BY <1>1, <1>2, <1>3, <2>1, <2>5 DEF Midway, InTurn, Numbered, Fits, Audits
    <3>3. QED
      BY <2>1, <2>2, <3>1, <3>2, MidwayAfter
  <2>6. QED
    BY <1>5, <2>4, <2>5
<1>10. QED
  BY <1>1, <1>7, <1>8, <1>9 DEF DeskInv

LEMMA SumKeeps ==
    ASSUME DeskInv, NEW r \in Requests, SumUp(r)
    PROVE  DeskInv'
<1> DEFINE counted == proj # Gone /\ (proj.status = "approved" \/ proj.paid > 0)
           due == IF counted THEN Max0(proj.hours - proj.paid) ELSE 0
           next == [hand[r] EXCEPT !.stage = "record", !.due = due]
<1>1. /\ hand[r].stage = "sum" /\ hand[r] \in Hand /\ AtWork(hand[r])
      /\ hand \in [Requests -> Hand] /\ Midway(r) /\ UNCHANGED <<proj, newest, torn>>
  BY MidwayHas, DeskTypes DEF DeskInv, SumUp, Midway
<1>2. due \in 0 .. 2 * MaxDeskHours
  <2>1. counted => proj.hours \in 0 .. MaxDeskHours /\ proj.paid \in 0 .. MaxDeskHours
    BY DEF DeskInv, DeskTypeOK, DeskRow
  <2>2. QED
    BY <2>1, DeskAssumption DEF Max0
<1>3. \/ Done(r) /\ purse' = purse
      \/ purse' = purse + due /\ hand' = [hand EXCEPT ![r] = next]
  BY DEF SumUp
<1> HIDE DEF due
<1>4. /\ next \in Hand /\ next.stage = "record" /\ next.due = due
      /\ next.kind = hand[r].kind /\ next.seen = hand[r].seen /\ next.row = hand[r].row
      /\ next.sub = hand[r].sub /\ next.stale = hand[r].stale
  BY <1>1, <1>2 DEF Hand
<1> HIDE DEF next
<1>5. /\ hand' \in [Requests -> Hand]
      /\ (hand'[r] = Empty /\ purse' = purse) \/ (hand'[r] = next /\ purse' = purse + due)
      /\ \A q \in Requests \ {r} : hand'[q] = hand[q]
  <2>1. CASE Done(r) /\ purse' = purse
    BY <2>1, DoneEffect DEF DeskInv
  <2>2. CASE purse' = purse + due /\ hand' = [hand EXCEPT ![r] = next]
    BY <1>1, <1>4, <2>2
  <2>3. QED
    BY <1>3, <2>1, <2>2
<1>6. Formed(hand'[r]) /\ hand'[r].stage # "read"
  BY <1>1, <1>4, <1>5, EmptyIs DEF Formed, AtWork
<1>7. DeskTypeOK'
  <2>1. purse' \in Int
    BY <1>2, <1>5 DEF DeskInv, DeskTypeOK
  <2>2. QED
    BY <1>1, <1>5, <2>1, DeskTypes DEF DeskInv, DeskTypeOK, Hand
<1>8. WellFormed' /\ FreshReads'
  BY <1>1, <1>5, <1>6, FormedKept, FreshKept DEF DeskInv, Others
<1>9. ASSUME ~torn PROVE InTurn'
  <2>1. /\ InTurn /\ Free(r) /\ Fits(hand[r]) /\ proj # Gone /\ proj.paid \in Int
        /\ \A q \in Requests \ {r} : hand[q].stage # "idle" => hand[q].stale
    BY <1>1, <1>9, MidwayHas
  <2>2. Overtaken(r) /\ Others(r)
    BY <1>5, <2>1 DEF Overtaken, Others
  <2>3. purse = proj.paid /\ hand[r].row = proj /\ proj.status = "approved"
    BY <1>1, <2>1 DEF Fits, Owed, AtWork
  <2>4. CASE hand'[r] = Empty /\ purse' = purse
    <3>1. Agree'
      BY <1>1, <2>3, <2>4 DEF Agree
    <3>2. QED
      BY <1>1, <2>1, <2>2, <2>4, <3>1, EmptyIs, RestAfter DEF Midway
  <2>5. CASE hand'[r] = next /\ purse' = purse + due
    <3>1. purse' = proj'.paid + Owed(next)
      BY <1>1, <1>4, <2>3, <2>5 DEF Owed
    <3>2. Fits(hand[r])'
      BY <1>1, <1>4, <2>1, <2>3, <2>5, <3>1 DEF Fits, Owed
    <3>3. Midway(r)' /\ (hand'[r].kind \in Audits => hand'[r].sub = newest'.n)
      BY <1>1, <1>4, <2>1, <2>5 DEF Midway, InTurn, Numbered, Fits
    <3>4. QED
      BY <2>1, <2>2, <3>2, <3>3, MidwayAfter
  <2>6. QED
    BY <1>5, <2>4, <2>5
<1>10. QED
  BY <1>1, <1>7, <1>8, <1>9 DEF DeskInv

LEMMA RecordKeeps ==
    ASSUME DeskInv, NEW r \in Requests, RecordPayment(r)
    PROVE  DeskInv'
<1> DEFINE x == hand[r]
           paid == [x.row EXCEPT !.paid = @ + x.due]
<1>1. /\ x.stage = "record" /\ x \in Hand /\ AtWork(x) /\ Midway(r)
      /\ x.row.paid + x.due <= MaxDeskHours
      /\ SaveRow(r, paid, Empty) /\ UNCHANGED <<newest, purse>> /\ torn \in BOOLEAN
  BY MidwayHas, DeskTypes DEF DeskInv, RecordPayment, Midway
<1>2. /\ paid \in DeskRow /\ paid.paid = x.row.paid + x.due /\ paid.status = x.row.status
  <2>1. /\ x.row \in DeskRow /\ x.row.paid \in 0 .. MaxDeskHours
        /\ x.due \in 0 .. 2 * MaxDeskHours /\ MaxDeskHours \in Nat
    BY <1>1, DeskAssumption DEF AtWork, DeskRow, Hand
  <2>2. x.row.paid + x.due \in 0 .. MaxDeskHours
    BY <1>1, <2>1
  <2>3. QED
    BY <2>1, <2>2 DEF DeskRow
<1> HIDE DEF paid
<1>3. /\ proj' = paid /\ torn' \in BOOLEAN /\ (~torn' => ~torn)
      /\ (proj' = proj /\ Done(r)) \/ Overtake(r, Empty)
  BY <1>1 DEF SaveRow, Done
<1>4. /\ hand' \in [Requests -> Hand] /\ hand'[r] = Empty /\ Others(r)
      /\ proj' = proj \/ Overtaken(r)
  <2>1. CASE proj' = proj /\ Done(r)
    BY <2>1, DoneEffect DEF DeskInv, Others
  <2>2. CASE Overtake(r, Empty)
    BY <2>2, OvertakeEffect, EmptyIs DEF DeskInv, Others, Overtaken, Outdated
  <2>3. QED
    BY <1>3, <2>1, <2>2
<1>5. DeskTypeOK'
  BY <1>1, <1>2, <1>3, <1>4, DeskTypes DEF DeskInv, DeskTypeOK, Hand
<1>6. WellFormed' /\ FreshReads'
  BY <1>4, EmptyIs, FormedKept, FreshKept DEF DeskInv
<1>7. ASSUME ~torn' PROVE InTurn'
  <2>1. InTurn /\ Free(r) /\ Fits(x)
    BY <1>1, <1>3, <1>7, MidwayHas
  <2>2. purse = x.row.paid + x.due /\ x.row.status = "approved"
    BY <1>1, <2>1 DEF Fits, Owed, AtWork
  <2>3. Agree'
    BY <1>1, <1>2, <1>3, <2>2 DEF Agree
  <2>4. QED
    BY <1>1, <1>4, <2>1, <2>3, EmptyIs, RestAfter DEF Midway
<1>8. QED
  BY <1>5, <1>6, <1>7 DEF DeskInv

LEMMA CrashKeeps ==
    ASSUME DeskInv, DeskCrash
    PROVE  DeskInv'
<1>1. /\ hand' = [r \in Requests |-> Empty] /\ UNCHANGED <<proj, newest, purse>>
      /\ torn' = (torn \/ HalfWay # {}) /\ torn \in BOOLEAN
  BY DEF DeskCrash, DeskInv, DeskTypeOK
<1>2. DeskTypeOK'
  BY <1>1, EmptyIs, DeskTypes DEF DeskInv, DeskTypeOK, Hand
<1>3. WellFormed' /\ FreshReads' /\ OneMidway' /\ Numbered'
  BY <1>1, EmptyIs DEF WellFormed, FreshReads, OneMidway, Numbered, Midway
<1>4. ASSUME ~torn' PROVE AtRest'
  <2>1. ~torn /\ \A r \in Requests : ~Midway(r)
    BY <1>1, <1>4 DEF HalfWay, Midway
  <2>2. Agree
    BY <2>1 DEF DeskInv, InTurn, AtRest
  <2>3. QED
    BY <1>1, <2>2 DEF AtRest, Agree
<1>5. QED
  BY <1>2, <1>3, <1>4 DEF DeskInv, InTurn

LEMMA StutterKeeps ==
    ASSUME DeskInv, UNCHANGED deskVars
    PROVE  DeskInv'
<1>1. UNCHANGED <<proj, newest, purse, hand, torn>>
  BY DEF deskVars
<1>2. DeskTypeOK' /\ WellFormed' /\ FreshReads'
  BY <1>1 DEF DeskInv, DeskTypeOK, WellFormed, FreshReads
<1>3. InTurn => InTurn'
  BY <1>1 DEF InTurn, OneMidway, Numbered, AtRest, Agree, Fits, Owed, Midway
<1>4. QED
  BY <1>1, <1>2, <1>3 DEF DeskInv

-----------------------------------------------------------------------------
LEMMA DeskInvInit == DeskInit => DeskInv
<1> SUFFICES ASSUME DeskInit PROVE DeskInv
  OBVIOUS
<1>1. MaxDeskHours \in Nat /\ MaxSubmissions \in Nat
  BY DeskAssumption
<1>2. DeskTypeOK
  <2>1. proj \in DeskRow
    <3>1. 0 \in 0 .. MaxDeskHours /\ "unshipped" \in DeskStatuses
      BY <1>1 DEF DeskStatuses
    <3>2. QED
      BY <3>1 DEF DeskInit, DeskRow
  <2>2. newest \in [n: 0 .. MaxSubmissions, open: BOOLEAN] /\ purse \in Int /\ torn \in BOOLEAN
    <3>1. 0 \in 0 .. MaxSubmissions /\ FALSE \in BOOLEAN
      BY <1>1
    <3>2. newest = [n |-> 0, open |-> FALSE] /\ purse = 0 /\ torn = FALSE
      BY DEF DeskInit
    <3>3. [n |-> 0, open |-> FALSE] \in [n: 0 .. MaxSubmissions, open: BOOLEAN]
      BY <3>1, Zenon
    <3>4. newest \in [n: 0 .. MaxSubmissions, open: BOOLEAN]
      BY <3>2, <3>3, Zenon
    <3>5. purse \in Int
      BY <3>2
    <3>6. torn \in BOOLEAN
      BY <3>1, <3>2, Zenon
    <3>7. QED
      BY <3>4, <3>5, <3>6
  <2>3. hand \in [Requests -> Hand]
    BY EmptyIs DEF DeskInit
  <2>4. QED
    BY <2>1, <2>2, <2>3, DeskTypes
<1>3. WellFormed /\ FreshReads /\ OneMidway /\ Numbered
  BY EmptyIs DEF DeskInit, WellFormed, FreshReads, OneMidway, Numbered, Midway
<1>4. AtRest
  BY DEF DeskInit, AtRest, Agree
<1>5. QED
  BY <1>2, <1>3, <1>4 DEF DeskInv, InTurn

LEMMA DeskInvStep == DeskInv /\ [DeskNext]_deskVars => DeskInv'
<1> SUFFICES ASSUME DeskInv, [DeskNext]_deskVars PROVE DeskInv'
  OBVIOUS
<1>1. ASSUME NEW r \in Requests, NEW kind \in Kinds, ReadRow(r, kind) PROVE DeskInv'
  BY <1>1, ReadKeeps
<1>2. ASSUME NEW r \in Requests, GiveUpRequest(r) PROVE DeskInv'
  BY <1>2, GiveUpKeeps
<1>3. ASSUME NEW r \in Requests, SaveDecision(r) PROVE DeskInv'
  BY <1>3, DecisionKeeps
<1>4. ASSUME NEW r \in Requests, RemoveRow(r) PROVE DeskInv'
  BY <1>4, RemoveKeeps
<1>5. ASSUME NEW r \in Requests, InsertSubmission(r) PROVE DeskInv'
  BY <1>5, InsertKeeps
<1>6. ASSUME NEW r \in Requests, Revoke(r) PROVE DeskInv'
  BY <1>6, RevokeKeeps
<1>7. ASSUME NEW r \in Requests, Amend(r) PROVE DeskInv'
  BY <1>7, AmendKeeps
<1>8. ASSUME NEW r \in Requests, CloseSubmission(r) PROVE DeskInv'
  BY <1>8, CloseKeeps
<1>9. ASSUME NEW r \in Requests, SumUp(r) PROVE DeskInv'
  BY <1>9, SumKeeps
<1>10. ASSUME NEW r \in Requests, RecordPayment(r) PROVE DeskInv'
  BY <1>10, RecordKeeps
<1>11. CASE DeskCrash
  BY <1>11, CrashKeeps
<1>12. CASE UNCHANGED deskVars
  BY <1>12, StutterKeeps
<1>13. QED
  BY <1>1, <1>2, <1>3, <1>4, <1>5, <1>6, <1>7, <1>8, <1>9, <1>10, <1>11, <1>12 DEF DeskNext, Kinds

(* The invariant holds of every reachable state, however many requests      *)
(* overlap.                                                                 *)
THEOREM DeskInvariant == DeskSpec => []DeskInv
<1>1. QED
  BY DeskInvInit, DeskInvStep, PTL DEF DeskSpec

(* The row, its submission, the purse and every request keep their types.   *)
THEOREM DeskTypeCorrect == DeskSpec => []DeskTypeOK
<1>1. DeskInv => DeskTypeOK
  BY DEF DeskInv
<1>2. QED
  BY <1>1, DeskInvariant, PTL

(* When nothing is torn and the project is there, either nobody is between  *)
(* two writes and the books agree, or one request is, and fits.             *)
LEMMA BooksFit ==
    ASSUME DeskInv, ~torn, proj # Gone
    PROVE  /\ purse \in Int /\ proj.paid \in Int
           /\ Agree \/ \E r \in Requests : Midway(r) /\ hand[r] \in Hand /\ AtWork(hand[r])
                                         /\ Fits(hand[r]) /\ InTurn
<1>1. purse \in Int /\ proj.paid \in Int
  BY DeskAssumption DEF DeskInv, DeskTypeOK, DeskRow
<1>2. CASE \A r \in Requests : ~Midway(r)
  BY <1>1, <1>2 DEF DeskInv, InTurn, AtRest
<1>3. ASSUME NEW r \in Requests, Midway(r)
      PROVE  hand[r] \in Hand /\ AtWork(hand[r]) /\ Fits(hand[r]) /\ InTurn
  BY <1>3, MidwayHas
<1>4. QED
  BY <1>1, <1>2, <1>3

(* The builder has what the row records, but for one payment or clawback    *)
(* that is between its two writes.                                          *)
THEOREM PaidIsRecorded == DeskSpec => []PaidAsRecorded
<1>1. DeskInv => PaidAsRecorded
  <2> SUFFICES ASSUME DeskInv, ~torn, proj # Gone
               PROVE  \/ \E r \in InFlight("record") : purse = proj.paid + hand[r].due
                      \/ \E r \in InFlight("amend") : purse = proj.paid - hand[r].due
                      \/ purse = proj.paid
    BY DEF PaidAsRecorded
  <2>1. CASE Agree
    BY <2>1 DEF Agree
  <2>2. ASSUME NEW r \in Requests, hand[r] \in Hand, Fits(hand[r]), purse \in Int, proj.paid \in Int
        PROVE  \/ r \in InFlight("record") /\ purse = proj.paid + hand[r].due
               \/ r \in InFlight("amend") /\ purse = proj.paid - hand[r].due
               \/ purse = proj.paid
    <3>1. hand[r].due \in Int
      BY <2>2, DeskAssumption DEF Hand
    <3>2. QED
      BY <2>2, <3>1 DEF Fits, Owed, InFlight
  <2>3. QED
    BY <2>1, <2>2, BooksFit
<1>2. QED
  BY <1>1, DeskInvariant, PTL

(* No project waits in the first-review queue behind a decided submission,  *)
(* unless the request that will open it, or has just decided it, is at work.*)
THEOREM QueueIsOpen == DeskSpec => []QueuedIsOpen
<1>1. DeskInv => QueuedIsOpen
  <2> SUFFICES ASSUME DeskInv, ~torn, proj # Gone, proj.status = "unreviewed",
                      newest.n > 0, ~newest.open
               PROVE  \E r \in Requests : hand[r].stage \in {"submit", "close"}
    BY DEF QueuedIsOpen, InFlight
  <2>1. PICK r \in Requests : Midway(r) /\ hand[r] \in Hand /\ AtWork(hand[r]) /\ Fits(hand[r])
    BY BooksFit DEF Agree
  <2>2. hand[r].kind \notin Verdicts /\ hand[r].kind # "approve"
    BY <2>1 DEF Fits, Verdicts
  <2>3. QED
    BY <2>1, <2>2 DEF Midway, AtWork, Hand
<1>2. QED
  BY <1>1, DeskInvariant, PTL

(* A request of the builder's that no save overtook leaves a verdict alone; *)
(* only a resubmission of an approved project is meant to take one back.    *)
THEOREM VerdictsAreKept == DeskSpec => VerdictStands
<1>1. ASSUME DeskInv, NEW r \in Requests, SaveDecision(r), proj # proj'
      PROVE  \/ hand[r].stale
             \/ hand[r].kind \in {"resubmit", "pass", "changes_needed", "rejected", "approve", "return"}
             \/ proj.status \notin {"fraud_pending", "approved", "rejected"}
  <2>1. /\ hand[r].stage = "read" /\ hand[r].kind # "delete" /\ AtWork(hand[r])
        /\ proj' = hand[r].row
    BY <1>1 DEF SaveDecision, SaveRow, DeskInv, WellFormed, Formed
  <2>2. SUFFICES ASSUME ~hand[r].stale, hand[r].kind \in {"edit", "ship", "withdraw"}
                 PROVE  proj.status \notin {"fraud_pending", "approved", "rejected"}
    BY <2>1 DEF AtWork, Kinds, BuilderKinds, StaffKinds
  <2>3. hand[r].seen = proj /\ proj \in DeskRow /\ proj.status \in Acceptable(hand[r].kind)
        /\ hand[r].row \in Outcomes(hand[r].kind, proj) /\ hand[r].kind \in Kinds
    BY <1>1, <2>1, <2>2 DEF DeskInv, FreshReads, AtWork
  <2>4. QED
    BY <1>1, <2>1, <2>2, <2>3, OutcomeIs
<1>2. DeskInv /\ [DeskNext]_deskVars =>
        [\A r \in Requests : SaveDecision(r) /\ proj # proj' =>
            \/ hand[r].stale
            \/ hand[r].kind \in {"resubmit", "pass", "changes_needed", "rejected", "approve", "return"}
            \/ proj.status \notin {"fraud_pending", "approved", "rejected"}]_deskVars
  BY <1>1
<1>3. QED
  BY <1>2, DeskInvariant, PTL DEF DeskSpec, VerdictStands

(***************************************************************************)
(* Claims.  Who is about to take a claim has read one that was theirs,     *)
(* nobody's or old, and what a request holds in memory only gets older.    *)
(***************************************************************************)

Work == [stage: {"idle", "claim", "release", "decide", "free", "edit"},
         who: Reviewers \cup {None}, saw: Claim]

(* A request that may write the claim in its reviewer's name.               *)
MayTake(x) == x.stage = "claim" => x.who \in Reviewers /\ (x.saw.by \in {None, x.who} \/ x.saw.old)

ClaimsInv == ClaimsTypeOK /\ \A r \in Requests : MayTake(handling[r])

LEMMA ClaimRecords ==
    /\ NoClaim \in Claim /\ Unclaiming \in Work
    /\ \A c \in Claim : /\ c.by \in Reviewers \cup {None} /\ c.old \in BOOLEAN
                        /\ c = [by |-> c.by, old |-> c.old]
                        /\ c = NoClaim <=> c.by = None
    /\ \A who \in Reviewers, old \in BOOLEAN : [by |-> who, old |-> old] \in Claim
<1>1. NoClaim \in Claim
  BY DEF Claim
<1>2. Unclaiming \in Work
  BY <1>1 DEF Unclaiming, Work
<1>3. \A who \in Reviewers, old \in BOOLEAN : [by |-> who, old |-> old] \in Claim
  BY DEF Claim
<1>4. ASSUME NEW c \in Claim
      PROVE  /\ c.by \in Reviewers \cup {None} /\ c.old \in BOOLEAN
             /\ c = [by |-> c.by, old |-> c.old] /\ (c = NoClaim <=> c.by = None)
  <2>1. CASE c = NoClaim
    BY <2>1 DEF NoClaim
  <2>2. CASE c \in [by: Reviewers, old: BOOLEAN]
    BY <2>2, ClaimsAssumption DEF NoClaim
  <2>3. QED
    BY <2>1, <2>2 DEF Claim
<1>5. QED
  BY <1>1, <1>2, <1>3, <1>4

(* One request goes on, and the claim is what it writes.                    *)
LEMMA OneHandles ==
    ASSUME ClaimsInv, NEW r \in Requests, NEW x \in Work, MayTake(x),
           handling' = [handling EXCEPT ![r] = x], claim' \in Claim
    PROVE  ClaimsInv'
<1>1. handling \in [Requests -> Work] /\ \A q \in Requests : MayTake(handling[q])
  BY DEF ClaimsInv, ClaimsTypeOK, Work
<1>2. handling' \in [Requests -> Work]
  BY <1>1
<1>3. ASSUME NEW q \in Requests PROVE MayTake(handling'[q])
  BY <1>1, q = r \/ q # r
<1>4. QED
  BY <1>2, <1>3 DEF ClaimsInv, ClaimsTypeOK, Work

LEMMA ClaimsStep ==
    ASSUME ClaimsInv, [ClaimsNext]_claimVars
    PROVE  ClaimsInv'
<1>1. claim \in Claim /\ handling \in [Requests -> Work] /\ \A r \in Requests : MayTake(handling[r])
  BY DEF ClaimsInv, ClaimsTypeOK, Work
<1>2. CASE UNCHANGED claimVars
  BY <1>1, <1>2 DEF ClaimsInv, ClaimsTypeOK, claimVars, Work
<1>3. ASSUME NEW r \in Requests, NEW who \in Reviewers \cup {None}, NEW stage \in {"claim", "release", "decide", "edit"},
             Handle(r, stage, who),
             stage = "claim" => who \in Reviewers /\ (claim.by \in {None, who} \/ claim.old)
      PROVE  ClaimsInv'
  <2> DEFINE x == [stage |-> stage, who |-> who, saw |-> claim]
  <2>1. x \in Work /\ x.stage = stage /\ x.who = who /\ x.saw = claim
    BY <1>1 DEF Work
  <2>2. handling' = [handling EXCEPT ![r] = x] /\ claim' = claim
    BY <1>3 DEF Handle, Turn
  <2> HIDE DEF x
  <2>3. MayTake(x)
    BY <2>1, <1>3 DEF MayTake
  <2>4. QED
    BY <1>1, <2>1, <2>2, <2>3, OneHandles
<1>4. ASSUME NEW r \in Requests, handling' = [handling EXCEPT ![r] = Unclaiming], claim' \in Claim
      PROVE  ClaimsInv'
  <2>1. MayTake(Unclaiming)
    BY DEF MayTake, Unclaiming
  <2>2. QED
    BY <1>4, <2>1, ClaimRecords, OneHandles
<1>5. ASSUME NEW r \in Requests, NEW who \in Reviewers, ReadClaim(r, who) \/ ReadRelease(r, who) \/ ReadToDecide(r, who)
      PROVE  ClaimsInv'
  <2>1. CASE ReadClaim(r, who)
    BY <1>3, <2>1 DEF ReadClaim
  <2>2. CASE ReadRelease(r, who)
    BY <1>3, <2>2 DEF ReadRelease
  <2>3. CASE ReadToDecide(r, who)
    BY <1>3, <2>3 DEF ReadToDecide
  <2>4. QED
    BY <1>5, <2>1, <2>2, <2>3
<1>6. ASSUME NEW r \in Requests, ReadToEdit(r) PROVE ClaimsInv'
  BY <1>3, <1>6 DEF ReadToEdit
<1>7. ASSUME NEW r \in Requests, TakeClaim(r) PROVE ClaimsInv'
  <2>1. handling[r].who \in Reviewers
    BY <1>1, <1>7 DEF MayTake, TakeClaim
  <2>2. claim' \in Claim
    BY <2>1, <1>7, ClaimRecords DEF TakeClaim
  <2>3. QED
    BY <1>4, <1>7, <2>2 DEF TakeClaim, Handled, Turn
<1>8. ASSUME NEW r \in Requests, DropClaim(r) \/ FreeClaim(r) PROVE ClaimsInv'
  BY <1>4, <1>8, ClaimRecords DEF DropClaim, FreeClaim, Handled, Turn
<1>9. ASSUME NEW r \in Requests, SaveProjectRow(r) PROVE ClaimsInv'
  <2>1. handling[r] \in Work /\ claim' = handling[r].saw /\ claim' \in Claim
    BY <1>1, <1>9 DEF SaveProjectRow, Work
  <2>2. CASE handling[r].stage = "edit"
    BY <1>4, <1>9, <2>1, <2>2 DEF SaveProjectRow, Handled, Turn
  <2>3. CASE handling[r].stage # "edit"
    <3> DEFINE x == [handling[r] EXCEPT !.stage = "free"]
    <3>1. x \in Work /\ x.stage = "free"
      BY <2>1 DEF Work
    <3>2. handling' = [handling EXCEPT ![r] = x]
      BY <1>1, <1>9, <2>3 DEF SaveProjectRow
    <3> HIDE DEF x
    <3>3. MayTake(x)
      BY <3>1 DEF MayTake
    <3>4. QED
      BY <2>1, <3>1, <3>2, <3>3, OneHandles
  <2>4. QED
    BY <2>2, <2>3
<1>10. CASE ClaimAges
  <2>1. claim' = [claim EXCEPT !.old = TRUE] /\ claim.by \in Reviewers
    BY <1>1, <1>10, ClaimRecords DEF ClaimAges
  <2>2. TRUE \in BOOLEAN
    OBVIOUS
  <2>3. claim' = [by |-> claim.by, old |-> TRUE]
    BY <1>1, <2>1, ClaimRecords
  <2>4. claim' \in Claim
    BY <2>1, <2>2, <2>3, ClaimRecords
  <2>5. ASSUME NEW r \in Requests
        PROVE  handling'[r] \in Work /\ MayTake(handling'[r])
    <3>1. handling[r] \in Work /\ handling[r].saw \in Claim /\ MayTake(handling[r])
      BY <1>1 DEF Work
    <3>2. CASE handling[r].saw = NoClaim
      BY <1>10, <3>1, <3>2 DEF ClaimAges
    <3>3. CASE handling[r].saw # NoClaim
      <4> DEFINE saw == [handling[r].saw EXCEPT !.old = TRUE]
      <4>1. saw = [by |-> handling[r].saw.by, old |-> TRUE] /\ handling[r].saw.by \in Reviewers
        BY <3>1, <3>3, ClaimRecords
      <4>2. saw \in Claim /\ saw.old = TRUE
        BY <2>2, <4>1, ClaimRecords
      <4>3. handling'[r] = [handling[r] EXCEPT !.saw = saw]
        BY <1>10, <3>1, <3>3 DEF ClaimAges, Work
      <4> HIDE DEF saw
      <4>4. /\ handling'[r] \in Work /\ handling'[r].who = handling[r].who /\ handling'[r].saw = saw
            /\ handling'[r].stage = handling[r].stage
        BY <3>1, <4>2, <4>3 DEF Work
      <4>5. QED
        BY <3>1, <4>2, <4>4 DEF MayTake
    <3>4. QED
      BY <3>2, <3>3
  <2>6. handling' \in [Requests -> Work]
    <3>1. handling' = [r \in Requests |-> handling'[r]]
      BY <1>10 DEF ClaimAges
    <3>2. QED
      BY <2>5, <3>1
  <2>7. QED
    BY <2>4, <2>5, <2>6 DEF ClaimsInv, ClaimsTypeOK, Work
<1>11. CASE ExpireStaleClaims
  BY <1>1, <1>11, ClaimRecords DEF ExpireStaleClaims, ClaimsInv, ClaimsTypeOK, Work
<1>12. CASE ClaimsCrash
  <2>1. handling' \in [Requests -> Work] /\ \A r \in Requests : handling'[r] = Unclaiming
    BY <1>12, ClaimRecords DEF ClaimsCrash
  <2>2. MayTake(Unclaiming)
    BY DEF MayTake, Unclaiming
  <2>3. QED
    BY <1>1, <1>12, <2>1, <2>2 DEF ClaimsCrash, ClaimsInv, ClaimsTypeOK, Work
<1>13. QED
  BY <1>2, <1>5, <1>6, <1>7, <1>8, <1>9, <1>10, <1>11, <1>12 DEF ClaimsNext

LEMMA ClaimsStart ==
    ASSUME ClaimsInit
    PROVE  ClaimsInv
BY ClaimRecords DEF ClaimsInit, ClaimsInv, ClaimsTypeOK, MayTake, Unclaiming, Work

(* Claims, and what requests know of them, have their types, and nobody is  *)
(* about to take a claim who read a young one of somebody else.             *)
THEOREM ClaimsInvariant == ClaimsSpec => []ClaimsInv
<1>1. ClaimsInit => ClaimsInv
  BY ClaimsStart
<1>2. ClaimsInv /\ [ClaimsNext]_claimVars => ClaimsInv'
  BY ClaimsStep
<1>3. QED
  BY <1>1, <1>2, PTL DEF ClaimsSpec

(* claimProject: a claim that stands is taken over only by a request that   *)
(* read the row before that claim was on it, or saved it whole.             *)
THEOREM ClaimsAreKept == ClaimsSpec => ClaimHolds
<1>1. ASSUME ClaimsInv, [ClaimsNext]_claimVars, NEW who \in Reviewers,
             claim = [by |-> who, old |-> FALSE], claim'.by \notin {who, None}
      PROVE  \E r \in Requests : handling'[r] # handling[r] /\ (handling[r].saw # claim)
  <2>1. claim \in Claim /\ handling \in [Requests -> Work] /\ \A r \in Requests : MayTake(handling[r])
    BY <1>1 DEF ClaimsInv, ClaimsTypeOK, Work
  <2>2. claim.by = who /\ claim.old = FALSE /\ claim' # claim /\ claim' # NoClaim
    BY <1>1 DEF NoClaim
  <2>3. ASSUME NEW r \in Requests, TakeClaim(r)
        PROVE  handling'[r] # handling[r] /\ handling[r].saw # claim
    <3>1. handling'[r] = Unclaiming /\ handling[r].stage = "claim" /\ claim'.by = handling[r].who
      BY <2>1, <2>3 DEF TakeClaim, Handled, Turn
    <3>2. handling[r].saw = claim => handling[r].who = who
      BY <2>1, <2>2, <3>1, ClaimsAssumption DEF MayTake
    <3>3. QED
      BY <1>1, <3>1, <3>2 DEF Unclaiming
  <2>4. ASSUME NEW r \in Requests, SaveProjectRow(r)
        PROVE  handling'[r] # handling[r] /\ handling[r].saw # claim
    <3>1. claim' = handling[r].saw /\ handling[r] \in Work
      BY <2>1, <2>4 DEF SaveProjectRow
    <3>2. handling'[r].stage # handling[r].stage
      BY <2>1, <2>4, <3>1 DEF SaveProjectRow, Handled, Turn, Unclaiming, Work
    <3>3. QED
      BY <2>2, <3>1, <3>2
  <2>5. ~ClaimAges
    BY <1>1, <2>1, <2>2, ClaimRecords DEF ClaimAges
  <2>6. ~UNCHANGED claimVars /\ ~ExpireStaleClaims /\ ~ClaimsCrash
    BY <2>2 DEF claimVars, ExpireStaleClaims, ClaimsCrash
  <2>7. ASSUME NEW r \in Requests
        PROVE  /\ ~DropClaim(r) /\ ~FreeClaim(r) /\ ~ReadToEdit(r)
               /\ \A w \in Reviewers : ~ReadClaim(r, w) /\ ~ReadRelease(r, w) /\ ~ReadToDecide(r, w)
    BY <2>2 DEF DropClaim, FreeClaim, ReadToEdit, ReadClaim, ReadRelease, ReadToDecide, Handle
  <2>8. PICK r \in Requests : TakeClaim(r) \/ SaveProjectRow(r)
    BY <1>1, <2>5, <2>6, <2>7 DEF ClaimsNext
  <2>9. QED
    BY <2>3, <2>4, <2>8
<1>2. ClaimsInv /\ [ClaimsNext]_claimVars => [\A who \in Reviewers :
        claim = [by |-> who, old |-> FALSE] /\ claim'.by \notin {who, None} =>
            \E r \in Requests : handling'[r] # handling[r] /\ (handling[r].saw # claim)]_claimVars
  BY <1>1
<1>3. QED
  BY <1>2, ClaimsInvariant, PTL DEF ClaimsSpec, ClaimHolds

(***************************************************************************)
(* Bans.  An order that is cancelled stays so; what banUser listed is      *)
(* cancelled, or has still to be.                                          *)
(***************************************************************************)

BanFlow == [stage: BanStages, left: SUBSET (BanProjects \cup BanOrders), listed: SUBSET BanOrders]
Sweeping == [stage: {"idle", "perms", "reject"}, left: SUBSET BanProjects]

BansInv ==
    /\ banned \in BOOLEAN /\ token \in BOOLEAN
    /\ queue \in [BanProjects -> BanProjectStatuses]
    /\ bought \in [BanOrders -> {"none", "pending", "fulfilled", "cancelled"}]
    /\ provided \subseteq {o \in BanOrders : bought[o] # "none"}
    /\ ban \in BanFlow /\ sweep \in Sweeping
    /\ ban.stage = "reject" => ban.left \subseteq BanProjects
    /\ ban.stage = "refund" =>
        /\ ban.left \subseteq ban.listed
        /\ \A o \in ban.listed \ ban.left : bought[o] = "cancelled"
    /\ ban.stage # "log"

LEMMA BanRecords ==
    /\ NoBan \in BanFlow /\ NoBan.stage = "idle" /\ NoSweep \in Sweeping
    /\ \A stage \in BanStages, left \in SUBSET (BanProjects \cup BanOrders), listed \in SUBSET BanOrders :
        Go(stage, left, listed) =>
            /\ ban' \in BanFlow /\ ban'.stage = stage /\ ban'.left = left /\ ban'.listed = listed
BY DEF NoBan, NoSweep, BanFlow, Sweeping, Go, BanStages

(* banUser and the orders as they are, and the queue of something typed.    *)
LEMMA OthersMove ==
    ASSUME BansInv, UNCHANGED <<bought, provided, ban>>, banned' \in BOOLEAN, token' \in BOOLEAN,
           queue' \in [BanProjects -> BanProjectStatuses], sweep' \in Sweeping
    PROVE  BansInv'
BY DEF BansInv

LEMMA QueueMoves ==
    ASSUME BansInv, NEW p \in BanProjects, NEW status \in BanProjectStatuses,
           queue' = [queue EXCEPT ![p] = status]
    PROVE  queue' \in [BanProjects -> BanProjectStatuses]
BY DEF BansInv

LEMMA BansStep ==
    ASSUME BansInv, [BansNext]_banVars
    PROVE  BansInv'
<1>1. /\ banned \in BOOLEAN /\ token \in BOOLEAN /\ queue \in [BanProjects -> BanProjectStatuses]
      /\ bought \in [BanOrders -> {"none", "pending", "fulfilled", "cancelled"}]
      /\ provided \subseteq {o \in BanOrders : bought[o] # "none"}
      /\ ban \in BanFlow /\ sweep \in Sweeping
  BY DEF BansInv
<1>2. CASE UNCHANGED banVars
  BY <1>2 DEF BansInv, banVars
<1>3. ASSUME NEW p \in BanProjects, ShipProject(p) \/ PassProject(p) \/ ReturnProject(p) \/ ApproveProject(p)
      PROVE  BansInv'
  <2>1. PICK to \in {"unreviewed", "fraud_pending", "approved"} : \E from : Move(p, from, to)
    BY <1>3 DEF ShipProject, PassProject, ReturnProject, ApproveProject
  <2>2. to \in BanProjectStatuses
    BY DEF BanProjectStatuses, QueueStatuses
  <2>3. queue' \in [BanProjects -> BanProjectStatuses]
    BY <2>1, <2>2, QueueMoves DEF Move
  <2>4. QED
    BY <1>1, <2>1, <2>3, OthersMove DEF Move
<1>4. ASSUME NEW o \in BanOrders, NEW from, NEW to \in {"pending", "fulfilled", "cancelled"},
             SetOrder(o, from, to), "cancelled" \notin from
      PROVE  BansInv'
  <2>1. bought' = [bought EXCEPT ![o] = to] /\ bought[o] # "cancelled"
    BY <1>4 DEF SetOrder
  <2>2. bought' \in [BanOrders -> {"none", "pending", "fulfilled", "cancelled"}]
    BY <1>1, <2>1
  <2>3. \A q \in BanOrders : /\ bought[q] = "cancelled" => bought'[q] = "cancelled"
                             /\ bought[q] # "none" => bought'[q] # "none"
    BY <1>1, <2>1
  <2>4. QED
    BY <1>1, <1>4, <2>2, <2>3 DEF SetOrder, BansInv, BanFlow
<1>5. ASSUME NEW o \in BanOrders, Buy(o) \/ FulfillBought(o) \/ StaffRefund(o) \/ TakeBack(o)
      PROVE  BansInv'
  <2>1. "cancelled" \notin {"none"} /\ "cancelled" \notin {"pending"} /\ "cancelled" \notin {"pending", "fulfilled"}
    OBVIOUS
  <2>2. CASE Buy(o)
    BY <1>4, <2>1, <2>2 DEF Buy
  <2>3. CASE FulfillBought(o)
    BY <1>4, <2>1, <2>3 DEF FulfillBought
  <2>4. CASE StaffRefund(o)
    BY <1>4, <2>1, <2>4 DEF StaffRefund
  <2>5. CASE TakeBack(o)
    BY <1>4, <2>1, <2>5 DEF TakeBack
  <2>6. QED
    BY <1>5, <2>2, <2>3, <2>4, <2>5
<1>6. ASSUME NEW o \in BanOrders, Provide(o)
      PROVE  BansInv'
  BY <1>6 DEF Provide, BansInv
<1>7. CASE SignIn \/ TokenEnds \/ \E b \in BOOLEAN : AirtableBan(b)
  <2>1. token' \in BOOLEAN /\ banned' \in BOOLEAN /\ UNCHANGED <<queue, bought, provided, ban, sweep>>
    <3>1. TRUE \in BOOLEAN /\ FALSE \in BOOLEAN
      OBVIOUS
    <3>2. CASE SignIn
      BY <1>1, <3>1, <3>2 DEF SignIn
    <3>3. CASE TokenEnds
      BY <1>1, <3>1, <3>3 DEF TokenEnds
    <3>4. CASE \E b \in BOOLEAN : AirtableBan(b)
      BY <1>1, <3>4 DEF AirtableBan
    <3>5. QED
      BY <1>7, <3>2, <3>3, <3>4
  <2>2. QED
    BY <1>1, <2>1, OthersMove
<1>8. ASSUME BansInv, ban' \in BanFlow, ban'.stage \notin {"reject", "refund", "log"},
             UNCHANGED <<queue, bought, provided, sweep>>, banned' \in BOOLEAN, token' \in BOOLEAN
      PROVE  BansInv'
  BY <1>8 DEF BansInv
<1>9. CASE StartBan
  <2>1. "perms" \in BanStages /\ Go("perms", {}, {})
    BY <1>9 DEF BanStages, StartBan
  <2>2. ban' \in BanFlow /\ ban'.stage = "perms"
    BY <2>1, BanRecords
  <2>3. QED
    BY <1>1, <1>8, <1>9, <2>2 DEF StartBan
<1>10. CASE UpdatePerms
  <2>1. "sessions" \in BanStages /\ Go("sessions", {}, {})
    BY <1>10 DEF BanStages, UpdatePerms
  <2>2. ban' \in BanFlow /\ ban'.stage = "sessions"
    BY <2>1, BanRecords
  <2>3. banned' \in BOOLEAN
    BY <1>10 DEF UpdatePerms
  <2>4. QED
    BY <1>1, <1>8, <1>10, <2>2, <2>3 DEF UpdatePerms
<1>11. CASE BanDies \/ LogBan
  <2>1. ban' = NoBan /\ UNCHANGED <<banned, token, queue, bought, provided, sweep>>
    BY <1>11 DEF BanDies, LogBan
  <2>2. QED
    BY <1>1, <1>8, <2>1, BanRecords
<1>12. CASE DeleteSessions
  <2>1. "list" \in BanStages /\ Go("list", {}, {})
    BY <1>12 DEF BanStages, DeleteSessions
  <2>2. ban' \in BanFlow /\ ban'.stage = "list"
    BY <2>1, BanRecords
  <2>3. token' \in BOOLEAN
    <3>1. FALSE \in BOOLEAN
      OBVIOUS
    <3>2. token' = token \/ token' = FALSE
      BY <1>12 DEF DeleteSessions
    <3>3. QED
      BY <1>1, <3>1, <3>2
  <2>4. QED
    BY <1>1, <1>8, <1>12, <2>2, <2>3 DEF DeleteSessions
<1>13. ASSUME NEW left \in SUBSET BanProjects, Go("reject", left, {}), UNCHANGED <<banned, token, bought, provided, sweep>>,
              queue' \in [BanProjects -> BanProjectStatuses]
       PROVE  BansInv'
  <2>1. "reject" \in BanStages /\ left \in SUBSET (BanProjects \cup BanOrders) /\ {} \in SUBSET BanOrders
    BY DEF BanStages
  <2>2. ban' \in BanFlow /\ ban'.stage = "reject" /\ ban'.left = left
    BY <1>13, <2>1, BanRecords
  <2>3. QED
    BY <1>13, <2>2 DEF BansInv
<1>14. CASE ListQueued
  BY <1>1, <1>13, <1>14 DEF ListQueued, InQueue
<1>15. CASE RejectNext
  <2>1. CASE ban.left = {}
    <3>1. "orders" \in BanStages /\ Go("orders", {}, {}) /\ queue' = queue
      BY <1>15, <2>1 DEF BanStages, RejectNext
    <3>2. ban' \in BanFlow /\ ban'.stage = "orders"
      BY <3>1, BanRecords
    <3>3. QED
      BY <1>1, <1>8, <1>15, <3>1, <3>2 DEF RejectNext
  <2>2. CASE ban.left # {}
    <3>1. ban.left \subseteq BanProjects
      BY <1>15 DEF RejectNext, BansInv
    <3>2. PICK p \in ban.left : queue' = [queue EXCEPT ![p] = "rejected"] /\ Go("reject", ban.left \ {p}, {})
      BY <1>15, <2>2 DEF RejectNext
    <3>3. p \in BanProjects /\ "rejected" \in BanProjectStatuses /\ ban.left \ {p} \in SUBSET BanProjects
      BY <3>1 DEF BanProjectStatuses
    <3>4. queue' \in [BanProjects -> BanProjectStatuses]
      BY <3>2, <3>3, QueueMoves
    <3>5. QED
      BY <1>13, <1>15, <3>2, <3>3, <3>4 DEF RejectNext
  <2>3. QED
    BY <2>1, <2>2
<1>16. CASE ListPending
  <2> DEFINE pending == {o \in BanOrders : bought[o] = "pending" /\ o \notin provided}
  <2>1. "refund" \in BanStages /\ Go("refund", pending, pending)
    BY <1>16 DEF BanStages, ListPending
  <2>2. ban' \in BanFlow /\ ban'.stage = "refund" /\ ban'.left = pending /\ ban'.listed = pending
    BY <2>1, BanRecords
  <2> HIDE DEF pending
  <2>3. QED
    BY <1>16, <2>2 DEF ListPending, BansInv
<1>17. CASE RefundNext
  <2>1. /\ ban.stage = "refund" /\ ban.left \subseteq ban.listed /\ ban.listed \subseteq BanOrders
        /\ \A o \in ban.listed \ ban.left : bought[o] = "cancelled"
    BY <1>1, <1>17 DEF RefundNext, BansInv, BanFlow
  <2>2. PICK o \in ban.left :
            IF Refundable(o)
            THEN bought' = [bought EXCEPT ![o] = "cancelled"] /\ Go("refund", ban.left \ {o}, ban.listed)
            ELSE ban' = NoBan /\ UNCHANGED bought
    BY <1>17 DEF RefundNext
  <2>3. CASE ~Refundable(o)
    BY <1>1, <1>8, <1>17, <2>2, <2>3, BanRecords DEF RefundNext
  <2>4. CASE Refundable(o)
    <3>1. o \in BanOrders /\ bought' = [bought EXCEPT ![o] = "cancelled"] /\ Go("refund", ban.left \ {o}, ban.listed)
      BY <2>1, <2>2, <2>4
    <3>2. "refund" \in BanStages /\ ban.left \ {o} \in SUBSET (BanProjects \cup BanOrders) /\ ban.listed \in SUBSET BanOrders
      BY <2>1 DEF BanStages
    <3>3. ban' \in BanFlow /\ ban'.stage = "refund" /\ ban'.left = ban.left \ {o} /\ ban'.listed = ban.listed
      BY <3>1, <3>2, BanRecords
    <3>4. /\ bought' \in [BanOrders -> {"none", "pending", "fulfilled", "cancelled"}]
          /\ bought'[o] = "cancelled" /\ \A q \in BanOrders \ {o} : bought'[q] = bought[q]
      BY <1>1, <3>1
    <3>5. provided' \subseteq {q \in BanOrders : bought'[q] # "none"}
      BY <1>1, <1>17, <3>4 DEF RefundNext
    <3>6. \A q \in ban'.listed \ ban'.left : bought'[q] = "cancelled"
      BY <2>1, <3>3, <3>4
    <3>7. QED
      BY <1>1, <1>17, <2>1, <3>3, <3>4, <3>5, <3>6 DEF RefundNext, BansInv
  <2>5. QED
    BY <2>3, <2>4
<1>18. CASE StartSweep
  <2>1. sweep' \in Sweeping
    BY <1>1, <1>18 DEF StartSweep, NoSweep, Sweeping
  <2>2. QED
    BY <1>1, <1>18, <2>1, OthersMove DEF StartSweep
<1>19. CASE LookUpPerms
  <2>1. sweep' \in Sweeping
    BY <1>1, <1>19, BanRecords DEF LookUpPerms, InQueue, Sweeping
  <2>2. QED
    BY <1>1, <1>19, <2>1, OthersMove DEF LookUpPerms
<1>20. CASE SweepFails
  BY <1>1, <1>20, BanRecords, OthersMove DEF SweepFails
<1>21. CASE SweepNext
  <2>1. CASE sweep.left = {}
    BY <1>1, <1>21, <2>1, BanRecords, OthersMove DEF SweepNext
  <2>2. CASE sweep.left # {}
    <3>1. PICK p \in sweep.left :
            queue' = [queue EXCEPT ![p] = "rejected"] /\ sweep' = [sweep EXCEPT !.left = @ \ {p}]
      BY <1>21, <2>2 DEF SweepNext
    <3>2. p \in BanProjects /\ "rejected" \in BanProjectStatuses /\ sweep' \in Sweeping
      BY <1>1, <3>1 DEF BanProjectStatuses, Sweeping
    <3>3. queue' \in [BanProjects -> BanProjectStatuses]
      BY <3>1, <3>2, QueueMoves
    <3>4. QED
      BY <1>1, <1>21, <3>2, <3>3, OthersMove DEF SweepNext
  <2>3. QED
    BY <2>1, <2>2
<1>22. QED
  BY <1>2, <1>3, <1>5, <1>6, <1>7, <1>9, <1>10, <1>11, <1>12, <1>14, <1>15, <1>16, <1>17, <1>18, <1>19, <1>20, <1>21
     DEF BansNext, ReviewerMoves

LEMMA BansStart ==
    ASSUME BansInit
    PROVE  BansInv
<1>1. "unshipped" \in BanProjectStatuses /\ FALSE \in BOOLEAN /\ TRUE \in BOOLEAN
  BY DEF BanProjectStatuses
<1>2. banned \in BOOLEAN /\ token \in BOOLEAN
  BY <1>1 DEF BansInit
<1>3. QED
  BY <1>1, <1>2, BanRecords DEF BansInit, BansInv

(* banUser knows what it has still to do, and what it has done stays done.  *)
THEOREM BansInvariant == BansSpec => []BansInv
<1>1. BansInit => BansInv
  BY BansStart
<1>2. BansInv /\ [BansNext]_banVars => BansInv'
  BY BansStep
<1>3. QED
  BY <1>1, <1>2, PTL DEF BansSpec

(* banUser: when it reports success, no order it listed as pending is left  *)
(* pending, whatever buyers and fulfillers did meanwhile.                   *)
THEOREM ListedIsCancelled == BansSpec => BanClearsOrders
<1>1. BansInv /\ [BansNext]_banVars => [LogBan => \A o \in ban.listed : bought[o] = "cancelled"]_banVars
  BY DEF BansInv, LogBan
<1>2. QED
  BY <1>1, BansInvariant, PTL DEF BansSpec, BanClearsOrders

(***************************************************************************)
(* The three together, one at work.                                        *)
(***************************************************************************)

(* No row of the three holds what its columns may not: a payment below      *)
(* zero, a grant of an order nobody placed, a claim with a name and no      *)
(* owner.                                                                   *)
THEOREM RowsTypeCorrect == MCSpec => []RowsTypeOK
<1> DEFINE AllInv == DeskInv /\ BansInv /\ ClaimsInv
<1>1. MCInit => AllInv
  BY DeskInvInit, BansStart, ClaimsStart DEF MCInit
<1>2. ASSUME AllInv, [MCNext]_deskAll
      PROVE  AllInv'
  <2>1. CASE UNCHANGED deskAll
    <3>1. UNCHANGED deskVars /\ UNCHANGED banVars /\ UNCHANGED claimVars
      BY <2>1 DEF deskAll
    <3>2. QED
      BY <1>2, <3>1, DeskInvStep, BansStep, ClaimsStep
  <2>2. CASE DeskNext /\ UNCHANGED <<banVars, claimVars>>
    BY <1>2, <2>2, DeskInvStep, BansStep, ClaimsStep
  <2>3. CASE BansNext /\ UNCHANGED <<deskVars, claimVars>>
    BY <1>2, <2>3, DeskInvStep, BansStep, ClaimsStep
  <2>4. CASE ClaimsNext /\ UNCHANGED <<deskVars, banVars>>
    BY <1>2, <2>4, DeskInvStep, BansStep, ClaimsStep
  <2>5. QED
    BY <1>2, <2>1, <2>2, <2>3, <2>4 DEF MCNext
<1>3. AllInv => RowsTypeOK
  <2>1. BansInv => BansTypeOK
    BY DEF BansInv, BansTypeOK, BanFlow, Sweeping
  <2>2. QED
    BY <2>1 DEF DeskInv, ClaimsInv, RowsTypeOK
<1>4. QED
  BY <1>1, <1>2, <1>3, PTL DEF MCSpec
=============================================================================
