-------------------------------- MODULE Queue --------------------------------
(* Who is next.  The queue of projects is sorted in four places: for the    *)
(* builder, who is told a position; for reviewers, in the panel and, page   *)
(* by page, in Sidekick; and for the audit.  A builder ships in two writes, *)
(* with a call to Hackatime between them; decisions are whole steps here,   *)
(* and hours are left out.                                                  *)
EXTENDS Integers, Sequences, FiniteSets, SequencesExt

CONSTANTS
    QueueProjects,
    Author,          \* the builder of each
    MadeAt,          \* when each was created, no two at a time
    Against,         \* verdicts against a ship: "changes_needed", "rejected"
    PageSize,        \* a page of Sidekick's list
    LoadLimit,       \* projects the audit takes over at once, ten in the code
    MayBeGolden,     \* projects a first pass may call golden
    MayBeLoose,      \* bound: projects cut short or passed as drafts
    MaxClock,        \* bound: the last instant of the database's clock to ship at
    Grain            \* its instants in a millisecond, a thousand in the code

ASSUME QueueAssumption ==
    /\ \A p \in QueueProjects : MadeAt[p] \in Nat
    /\ \A p, q \in QueueProjects : MadeAt[p] = MadeAt[q] => p = q
    /\ Against \subseteq {"changes_needed", "rejected"}
    /\ PageSize \in Nat \ {0} /\ LoadLimit \in Nat \ {0}
    /\ MaxClock \in Nat /\ Grain \in Nat \ {0}
    /\ IsFiniteSet(QueueProjects)

VARIABLES
    entries,      \* status and golden flag of each project
    shipped,      \* its submissions, oldest first: when, and their status
    halfway,      \* projects whose ship is saved, and its submission not yet
    clock,        \* the database's: when the newest submission was made
    cut,          \* history: projects whose ship was cut short, or that were
                  \* passed with no ship to decide on
    client        \* Sidekick, reading one of its lists

queueVars == <<entries, shipped, halfway, clock, cut, client>>

(* What a client asks for, what it has, and history: what the list held     *)
(* when it began.                                                           *)
Idle == [stage |-> "idle", filter |-> "pending", offset |-> 0, total |-> 0,
         got |-> {}, stayed |-> {}]

QueueTypeOK ==
    /\ entries \in [QueueProjects -> [golden: BOOLEAN, status:
            {"unshipped", "unreviewed", "fraud_pending", "approved"} \cup Against \cup {"rejected"}]]
    /\ clock \in 0 .. MaxClock
    /\ \A p \in QueueProjects : \A s \in DOMAIN shipped[p] :
        /\ shipped[p][s].at \in 1 .. clock
        /\ shipped[p][s].status \in {"unreviewed", "approved", "rejected"} \cup Against
    /\ halfway \subseteq QueueProjects /\ cut \subseteq QueueProjects
    /\ client.stage \in {"idle", "counted", "reading", "done"}
    /\ client.offset <= Cardinality(QueueProjects) /\ client.got \subseteq QueueProjects

QueueInit ==
    /\ entries = [p \in QueueProjects |-> [status |-> "unshipped", golden |-> FALSE]]
    /\ shipped = [p \in QueueProjects |-> <<>>]
    /\ halfway = {} /\ cut = {} /\ clock = 0
    /\ client = Idle

-----------------------------------------------------------------------------
(* The lists.                                                               *)

Never == MaxClock + 1                                \* NULLS LAST
In(status) == {p \in QueueProjects : entries[p].status = status}

Golden(p) == \E q \in QueueProjects : Author[q] = Author[p] /\ entries[q].golden

(* When the newest ship was made, and the newest nobody has decided on.     *)
LastShip(p) == IF shipped[p] = <<>> THEN Never ELSE Last(shipped[p]).at
OpenAt(p) == LET open == {s \in DOMAIN shipped[p] : shipped[p][s].status = "unreviewed"}
             IN IF open = {} THEN Never ELSE shipped[p][Max(open)].at

(* Authors with a golden project first; then the longest waiting.           *)
Waits(p, q) ==
    \/ Golden(p) /\ ~Golden(q)
    \/ /\ Golden(p) = Golden(q)
       /\ \/ LastShip(p) < LastShip(q)
          \/ LastShip(p) = LastShip(q) /\ MadeAt[p] < MadeAt[q]

(* fetchProjects lists no project that was never shipped.                   *)
Listed(filter) == {p \in In(IF filter = "pending" THEN "unreviewed" ELSE "fraud_pending") :
    shipped[p] # <<>>}

(* S in the order of Waits, as SetToSortSeq has it, in a form that can be   *)
(* reasoned about.                                                          *)
InOrder(S) == CHOOSE list \in [1 .. Cardinality(S) -> S] :
    \A j, k \in DOMAIN list : j < k => Waits(list[j], list[k])

(* loadUnreviewedIntoQueue sorts by the ships that are open.                *)
OpenWaits(p, q) ==
    \/ Golden(p) /\ ~Golden(q)
    \/ /\ Golden(p) = Golden(q)
       /\ \/ OpenAt(p) < OpenAt(q)
          \/ OpenAt(p) = OpenAt(q) /\ MadeAt[p] < MadeAt[q]
OpenOrder(S) == CHOOSE list \in [1 .. Cardinality(S) -> S] :
    \A j, k \in DOMAIN list : j < k => OpenWaits(list[j], list[k])

Slice(list, offset, limit) == {list[k] : k \in (offset + 1 .. offset + limit) \cap DOMAIN list}

(* A Date holds milliseconds: what a column has beyond them is cut off.     *)
ToMillis(t) == t - (t % Grain)

(* Of two with a ship, the panel, which is sent milliseconds; of two of one *)
(* millisecond it keeps the order it is sent them in, the youngest first.   *)
PanelBefore(p, q) ==
    \/ Golden(p) /\ ~Golden(q)
    \/ /\ Golden(p) = Golden(q)
       /\ \/ ToMillis(LastShip(p)) < ToMillis(LastShip(q))
          \/ ToMillis(LastShip(p)) = ToMillis(LastShip(q)) /\ MadeAt[p] > MadeAt[q]

(* The position its builder is told.  The time of the project's own ship is *)
(* read as a Date, and what is shipped until then is counted.               *)
Position(p) ==
    IF OpenAt(p) = Never THEN Cardinality(In("unreviewed"))
    ELSE Cardinality({q \in In("unreviewed") :
            \/ Golden(q) = Golden(p) /\ OpenAt(q) <= ToMillis(OpenAt(p))
            \/ Golden(q) /\ ~Golden(p)})

(* What Sidekick calls ship s of p.                                         *)
ShipStatus(p, s) ==
    LET status == shipped[p][s].status IN
    CASE status = "approved" -> "approved"
      [] status \in {"changes_needed", "rejected"} -> "rejected"
      [] entries[p].status = "fraud_pending" /\ s = Len(shipped[p]) -> "pending_hq"
      [] OTHER -> "pending"

(* The ship a first reviewer's decision is on.                              *)
OpenOne(p) == {s \in DOMAIN shipped[p] : shipped[p][s].status = "unreviewed" /\ shipped[p][s].at = OpenAt(p)}

-----------------------------------------------------------------------------
(* A step of somebody else disturbs the client when a project leaves its    *)
(* list, changes places in it, or joins it in the middle of a page; such a  *)
(* client is followed no further.                                           *)
Seen == \E filter \in {client.filter} :
    LET before == Listed(filter)
        after == Listed(filter)'
        disturbed == \/ ~(before \subseteq after)
                     \/ client.stage = "counted" /\ ~(after \subseteq before)
                     \/ \E p, q \in before \cap after : Waits(p, q) # Waits(p, q)' IN
    client' = IF client.stage \in {"counted", "reading"} /\ ~disturbed THEN client ELSE Idle

Set(p, status) == entries' = [entries EXCEPT ![p].status = status]
DecideOn(S, status) == shipped' = [shipped EXCEPT ![S[1]] =
    [s \in DOMAIN @ |-> IF s \in S[2] THEN [@[s] EXCEPT !.status = status] ELSE @[s]]]
NewestOf(p) == <<p, {Len(shipped[p])} \ {0}>>

(* update to 'unreviewed': the project, Hackatime, and the submission.      *)
Ship(p) ==
    /\ entries[p].status \in {"unshipped", "changes_needed", "approved"}
    /\ p \notin halfway /\ clock + Cardinality(halfway) < MaxClock
    /\ Set(p, "unreviewed") /\ halfway' = halfway \cup {p}
    /\ UNCHANGED <<shipped, clock, cut>> /\ Seen

Submit(p) ==
    /\ p \in halfway
    /\ halfway' = halfway \ {p} /\ clock' \in clock + 1 .. MaxClock - Cardinality(halfway')
    /\ shipped' = [shipped EXCEPT ![p] = Append(@, [at |-> clock', status |-> "unreviewed"])]
    /\ cut' = cut \ {p}
    /\ UNCHANGED entries /\ Seen

(* The process stops in between, or the submission cannot be saved.         *)
CutShort(p) ==
    /\ p \in halfway \cap MayBeLoose
    /\ halfway' = halfway \ {p} /\ cut' = cut \cup {p}
    /\ UNCHANGED <<entries, shipped, clock, client>>

Withdraw(p) ==
    /\ entries[p].status = "unreviewed"
    /\ Set(p, "unshipped")
    /\ UNCHANGED <<shipped, halfway, clock, cut>> /\ Seen

FirstPass(p) ==
    /\ entries[p].status \notin {"approved", "fraud_pending"}
    /\ Set(p, "fraud_pending")
    /\ cut' = IF OpenOne(p) = {} THEN cut \cup {p} ELSE cut
    /\ cut' \subseteq MayBeLoose
    /\ UNCHANGED <<shipped, halfway, clock>> /\ Seen

TurnDown(p, verdict) ==
    /\ entries' = [entries EXCEPT ![p].status = verdict,
                                  ![p].golden = @ /\ entries[p].status # "approved"]
    /\ DecideOn(<<p, OpenOne(p)>>, verdict)
    /\ UNCHANGED <<halfway, clock, cut>> /\ Seen

(* loadUnreviewedIntoQueue, into an empty queue.                            *)
Load ==
    LET taken == Slice(OpenOrder(In("unreviewed")), 0, LoadLimit) IN
    /\ In("fraud_pending") = {} /\ taken # {}
    /\ entries' = [p \in QueueProjects |->
            IF p \in taken THEN [entries[p] EXCEPT !.status = "fraud_pending"] ELSE entries[p]]
    /\ UNCHANGED <<shipped, halfway, clock, cut>> /\ Seen

(* The audit decides on the newest ship; the first pass said what is golden.*)
Approve(p, golden) ==
    /\ entries[p].status = "fraud_pending"
    /\ entries' = [entries EXCEPT ![p] = [status |-> "approved", golden |-> golden]]
    /\ DecideOn(NewestOf(p), "approved")
    /\ UNCHANGED <<halfway, clock, cut>> /\ Seen

SendBack(p) ==
    /\ entries[p].status = "fraud_pending"
    /\ Set(p, "unreviewed")
    /\ DecideOn(NewestOf(p), "unreviewed")
    /\ UNCHANGED <<halfway, clock, cut>> /\ Seen

AuditReject(p, verdict) ==
    /\ entries[p].status = "fraud_pending"
    /\ entries' = [entries EXCEPT ![p] = [status |-> verdict, golden |-> FALSE]]
    /\ DecideOn(NewestOf(p), verdict)
    /\ UNCHANGED <<halfway, clock, cut>> /\ Seen

-----------------------------------------------------------------------------
(* The client counts the list and reads a page of it, in two queries.       *)
CountPage(filter) ==
    /\ client.stage = "idle"
    /\ client' = [Idle EXCEPT !.stage = "counted", !.filter = filter,
            !.total = Cardinality(Listed(filter)), !.stayed = Listed(filter)]
    /\ UNCHANGED <<entries, shipped, halfway, clock, cut>>

ReadPage ==
    LET page == Slice(InOrder(Listed(client.filter)), client.offset, PageSize)
        offset == client.offset + Cardinality(page) IN
    /\ client.stage = "counted"
    /\ client' = [client EXCEPT !.got = @ \cup page, !.offset = offset,
            !.stage = IF offset < client.total THEN "reading" ELSE "done"]
    /\ UNCHANGED <<entries, shipped, halfway, clock, cut>>

AnyCursor(filter) ==                                 \* mutant: a cursor fits any list
    /\ client.stage = "reading"
    /\ client' = [client EXCEPT !.stage = "counted", !.filter = filter,
            !.total = Cardinality(Listed(filter)),
            !.stayed = IF filter = client.filter THEN @ ELSE Listed(filter)]
    /\ UNCHANGED <<entries, shipped, halfway, clock, cut>>

(* The cursor holds the offset and the list it is for; another is refused.  *)
NextPage(filter) ==
    /\ client.stage = "reading"
    /\ client' = IF filter # client.filter THEN Idle
                 ELSE [client EXCEPT !.stage = "counted", !.total = Cardinality(Listed(filter))]
    /\ UNCHANGED <<entries, shipped, halfway, clock, cut>>

StartOver ==
    /\ client.stage = "done" /\ client' = Idle
    /\ UNCHANGED <<entries, shipped, halfway, clock, cut>>

-----------------------------------------------------------------------------
QueueNext ==
    \/ \E p \in QueueProjects :
        \/ Ship(p) \/ Submit(p) \/ CutShort(p) \/ Withdraw(p) \/ FirstPass(p) \/ SendBack(p)
        \/ \E golden \in {FALSE, (p \in MayBeGolden)} : Approve(p, golden)
        \/ \E verdict \in Against : TurnDown(p, verdict) \/ AuditReject(p, verdict)
    \/ Load \/ ReadPage \/ StartOver
    \/ \E filter \in {"pending", "pending_hq"} : CountPage(filter) \/ NextPage(filter)

QueueSpec == QueueInit /\ [][QueueNext]_queueVars

-----------------------------------------------------------------------------

(* "'unreviewed' projects always carry an open submission": but while they  *)
(* are shipped, or when that was cut short, or they were passed as drafts,  *)
(* theirs is the newest, Sidekick calls it pending, a decision is on it.    *)
Whole(p) == shipped[p] # <<>> /\ ShipStatus(p, Len(shipped[p])) = "pending"
                /\ OpenOne(p) = {Len(shipped[p])}
QueuedIsOpen == In("unreviewed") \ (halfway \cup cut) \subseteq {p \in QueueProjects : Whole(p)}

(* As far as milliseconds tell, the position its builder is told is the     *)
(* project's place in the list that reviewers are shown, in Sidekick and in *)
(* the panel, unless a project in the queue has no open ship.  Who is told  *)
(* less is told so for what was shipped since the millisecond of its ship   *)
(* began, itself nearly always; the panel shows a millisecond's ships in an *)
(* order of its own.                                                        *)
Within(q, p) == Golden(q) = Golden(p) /\ LastShip(q) > ToMillis(LastShip(p))
SameMillis(p, q) ==
    Golden(p) = Golden(q) /\ ToMillis(LastShip(p)) = ToMillis(LastShip(q))

PositionIsRank ==
    /\ QueuedIsOpen
    /\ (\A p \in In("unreviewed") : Whole(p)) =>
        LET list == InOrder(Listed("pending"))
            uncounted(k) == {j \in 1 .. k : Within(list[j], list[k])} IN
        /\ Len(list) = Cardinality(In("unreviewed"))
        /\ \A k \in DOMAIN list : Position(list[k]) + Cardinality(uncounted(k)) = k
        /\ \A j, k \in DOMAIN list : j < k =>
                PanelBefore(list[j], list[k]) \/ SameMillis(list[j], list[k])

(* "offset pagination stays consistent across pages": a client that reads   *)
(* to the last page has every project that was in the list all along,       *)
(* unless one has left it, changed places, or joined it within a page.      *)
PagesComplete ==
    client.stage = "done" => client.stayed \subseteq client.got

(* Every list of the queue agrees with the place a builder is shown, and a  *)
(* client that pages through one misses nothing that stayed where it was.   *)
QueueHolds == PositionIsRank /\ PagesComplete
=============================================================================
