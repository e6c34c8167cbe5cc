------------------------------- MODULE Notices -------------------------------
(* Messages to many.  Three requests of a Super Admin go through a list of  *)
(* users, one at a time, and tell each of them something once: a Slack      *)
(* message that the shop closes, a date in Airtable that makes Loops send   *)
(* an email, a message that all their projects are golden.  A request may   *)
(* be made again while it runs, and may die anywhere; Slack and Airtable    *)
(* may fail, or do what they are asked and not be heard.                    *)
EXTENDS Naturals, FiniteSets

CONSTANTS
    Recipients, Jobs, Savers,
    Nobody,
    MaxJobs,      \* bound: requests made
    MaxEvents     \* bound: bans, projects and verdicts on them

ASSUME NoticesAssumption ==
    /\ Nobody \notin Recipients /\ Jobs \cap Savers = {}
    /\ MaxJobs \in Nat /\ MaxEvents \in Nat

VARIABLES
    person,       \* their row, and what their projects are
    airtable,     \* the records of the banned, and of those with the date
    job,          \* requests that go through a list
    saver,        \* requests that read one user's row and save it
    told,         \* history: how often each was told
    excused,      \* history: who may be told again, or may hold two markers
    spared,       \* history: those banned ever since a request began
    budget

noticesVars == <<person, airtable, job, saver, told, excused, spared, budget>>

NoJob == [kind |-> "none", todo |-> {}, at |-> Nobody, stage |-> "next"]
NoSave == [of |-> Nobody, row |-> <<>>, changes |-> {}, stage |-> "read"]
Channels == {"closing", "email", "golden"}
Markers == {"watchlisted", "coolBuilder"}
Columns == Markers \cup {"notified"}

NoticesTypeOK ==
    /\ \A u \in Recipients :
        /\ person[u].pipes \in BOOLEAN
        /\ \A c \in Columns : person[u].row[c] \in BOOLEAN
        /\ person[u].plain \in 0 .. 1 + MaxEvents /\ person[u].golden \in 0 .. 1 + MaxEvents
    /\ airtable.banned \subseteq Recipients /\ airtable.dated \subseteq Recipients
    /\ \A j \in Jobs : job[j] \in [kind : Channels \cup {"none"}, todo : SUBSET Recipients,
            at : Recipients \cup {Nobody}, stage : {"next", "send", "stamp", "look", "patch", "mark", "tell"}]
    /\ told \in [Channels -> [Recipients -> Nat]]
    /\ excused \in [Channels \cup {"marker"} -> SUBSET Recipients]
    /\ budget.jobs \in 0 .. MaxJobs /\ budget.events \in 0 .. MaxEvents

NoticesInit ==
    /\ \E cool \in SUBSET Recipients :
        person = [u \in Recipients |-> [pipes |-> TRUE, plain |-> 1, golden |-> 0,
                    row |-> [c \in Columns |-> c = "coolBuilder" /\ u \in cool]]]
    /\ airtable = [banned |-> {}, dated |-> {}]
    /\ job = [j \in Jobs |-> NoJob] /\ saver = [s \in Savers |-> NoSave]
    /\ told = [c \in Channels |-> [u \in Recipients |-> 0]]
    /\ excused = [c \in Channels \cup {"marker"} |-> {}]
    /\ spared = [j \in Jobs |-> {}]
    /\ budget = [jobs |-> 0, events |-> 0]

-----------------------------------------------------------------------------
(* A request begins with the list of those it is for.                       *)
ListedFor(kind) == {u \in Recipients :
    CASE kind = "closing" -> person[u].pipes /\ ~person[u].row.notified
      [] kind = "email" -> person[u].pipes
      [] kind = "golden" -> person[u].row.coolBuilder}

Spend(what) == budget' = [budget EXCEPT ![what] = @ + 1]
Excuse(channel, S) == excused' = [excused EXCEPT ![channel] = @ \cup S]

(* Two lists of the same request may hold the same user.                    *)
Start(j, kind) ==
    LET others == {i \in Jobs : job[i].kind = kind}
        shared == ListedFor(kind) \cap UNION {job[i].todo \cup ({job[i].at} \ {Nobody}) : i \in others} IN
    /\ job[j] = NoJob /\ budget.jobs < MaxJobs
    /\ job' = [job EXCEPT ![j] = [NoJob EXCEPT !.kind = kind, !.todo = ListedFor(kind)]]
    /\ IF kind = "closing" THEN Excuse(kind, shared) ELSE UNCHANGED excused
    /\ spared' = [spared EXCEPT ![j] = airtable.banned]
    /\ Spend("jobs")
    /\ UNCHANGED <<person, airtable, saver, told>>

Ends(j) ==
    /\ job[j].kind # "none" /\ job[j].stage = "next" /\ job[j].todo = {}
    /\ job' = [job EXCEPT ![j] = NoJob] /\ spared' = [spared EXCEPT ![j] = {}]
    /\ UNCHANGED <<person, airtable, saver, told, excused, budget>>

(* The process stops, or a query throws.  Somebody who was sent a message   *)
(* and not marked is listed again; somebody marked golden is not.           *)
Dies(j) ==
    /\ job[j].kind # "none"
    /\ job' = [job EXCEPT ![j] = NoJob] /\ spared' = [spared EXCEPT ![j] = {}]
    /\ IF job[j].stage = "stamp" THEN Excuse("closing", {job[j].at}) ELSE UNCHANGED excused
    /\ UNCHANGED <<person, airtable, saver, told, budget>>

To(j, stage) == job' = [job EXCEPT ![j].stage = stage]
NextUser(j) == job' = [job EXCEPT ![j].stage = "next", ![j].at = Nobody]
Turn(j, u, stage) ==
    job' = [job EXCEPT ![j].todo = @ \ {u}, ![j].stage = stage,
                       ![j].at = IF stage = "next" THEN Nobody ELSE u]
Tell(channel, u) == told' = [told EXCEPT ![channel][u] = @ + 1]

(* Slack delivers the message, heard or not, or it does not.                *)
Message(j, channel) == Tell(channel, job[j].at) \/ UNCHANGED told

-----------------------------------------------------------------------------
(* The closing notice and the email: the user's perms first.                *)

FailOpen(j, u) ==                         \* mutant: a failed lookup is no ban
    /\ job[j].kind \in {"closing", "email"} /\ job[j].stage = "next" /\ u \in job[j].todo
    /\ LET on == IF job[j].kind = "closing" THEN "send" ELSE "look" IN
       Turn(j, u, on) \/ (u \in airtable.banned /\ Turn(j, u, "next"))
    /\ UNCHANGED <<person, airtable, saver, told, excused, spared, budget>>

(* The banned are passed over; so is who could not be looked up, this time. *)
LooksUp(j, u) ==
    /\ job[j].kind \in {"closing", "email"} /\ job[j].stage = "next" /\ u \in job[j].todo
    /\ LET on == IF job[j].kind = "closing" THEN "send" ELSE "look" IN
       \/ Turn(j, u, "next")
       \/ u \notin airtable.banned /\ Turn(j, u, on)
    /\ UNCHANGED <<person, airtable, saver, told, excused, spared, budget>>

Sends(j) ==
    /\ job[j].stage = "send" /\ To(j, "stamp")
    /\ Message(j, "closing")
    /\ UNCHANGED <<person, airtable, saver, excused, spared, budget>>

(* The mark, delivered or not: an UPDATE of that column alone.              *)
Stamps(j) ==
    /\ job[j].stage = "stamp" /\ NextUser(j)
    /\ person' = [person EXCEPT ![job[j].at].row.notified = TRUE]
    /\ UNCHANGED <<airtable, saver, told, excused, spared, budget>>

(* updateDateField reads the record, leaves a date that is there alone, and *)
(* writes one otherwise.                                                    *)
LooksAtDate(j) ==
    /\ job[j].stage = "look"
    /\ NextUser(j) \/ (job[j].at \notin airtable.dated /\ To(j, "patch"))
    /\ UNCHANGED <<person, airtable, saver, told, excused, spared, budget>>

(* Loops sends the email when the field goes from empty to a date.          *)
WritesDate(j) ==
    /\ job[j].stage = "patch" /\ NextUser(j)
    /\ \/ /\ airtable' = [airtable EXCEPT !.dated = @ \cup {job[j].at}]
          /\ IF job[j].at \in airtable.dated THEN UNCHANGED told ELSE Tell("email", job[j].at)
       \/ UNCHANGED <<airtable, told>>
    /\ UNCHANGED <<person, saver, excused, spared, budget>>

-----------------------------------------------------------------------------
(* The golden backfill: those without a golden project, all of whose        *)
(* projects one UPDATE turns golden; who had none is not told.              *)

CountsGolden(j, u) ==
    /\ job[j].kind = "golden" /\ job[j].stage = "next" /\ u \in job[j].todo
    /\ Turn(j, u, IF person[u].golden > 0 THEN "next" ELSE "mark")
    /\ UNCHANGED <<person, airtable, saver, told, excused, spared, budget>>

MarksGolden(j) ==
    LET u == job[j].at IN
    /\ job[j].stage = "mark"
    /\ IF person[u].plain = 0 THEN NextUser(j) ELSE To(j, "tell")
    /\ person' = [person EXCEPT ![u].plain = 0, ![u].golden = @ + person[u].plain]
    /\ UNCHANGED <<airtable, saver, told, excused, spared, budget>>

TellsGolden(j) ==
    /\ job[j].stage = "tell" /\ NextUser(j)
    /\ Message(j, "golden")
    /\ UNCHANGED <<person, airtable, saver, excused, spared, budget>>

-----------------------------------------------------------------------------
(* setReviewerMarker, and whoever else saves a user: findOne, then save,    *)
(* which reads the row again and writes the columns that differ from it.    *)

(* A marker puts the other one off.                                         *)
Marked(row, marker, value) ==
    [c \in Columns |-> IF c = marker THEN value ELSE IF c \in Markers /\ value THEN FALSE ELSE row[c]]

FindsUser(s, u, marker, value) ==
    /\ saver[s] = NoSave /\ budget.jobs < MaxJobs /\ Spend("jobs")
    /\ saver' = [saver EXCEPT ![s] = [of |-> u, row |-> Marked(person[u].row, marker, value),
                                      changes |-> {}, stage |-> "found"]]
    /\ UNCHANGED <<person, airtable, job, told, excused, spared>>

ComparesRow(s) ==
    LET u == saver[s].of IN
    /\ saver[s].stage = "found"
    /\ saver' = [saver EXCEPT ![s].stage = "compared",
                              ![s].changes = {c \in Columns : saver[s].row[c] # person[u].row[c]}]
    /\ UNCHANGED <<person, airtable, job, told, excused, spared, budget>>

(* A stale row takes back a mark set since; two saves that both compared    *)
(* before they wrote may each set a marker.                                 *)
WritesRow(s) ==
    LET u == saver[s].of
        new == [c \in Columns |-> IF c \in saver[s].changes THEN saver[s].row[c] ELSE person[u].row[c]]
        racing == \E t \in Savers \ {s} : saver[t].of = u /\ saver[t].stage = "compared" IN
    /\ saver[s].stage = "compared"
    /\ person' = [person EXCEPT ![u].row = new]
    /\ saver' = [saver EXCEPT ![s] = NoSave]
    /\ excused' = [excused EXCEPT
            !["closing"] = IF person[u].row.notified /\ ~new.notified THEN @ \cup {u} ELSE @,
            !["marker"] = IF racing THEN @ \cup {u} ELSE @]
    /\ UNCHANGED <<airtable, job, told, spared, budget>>

-----------------------------------------------------------------------------
(* The world: a user earns or spends; is banned or let back in; makes a     *)
(* project; has a golden one rejected.                                      *)

MovesPipes(u) ==
    /\ budget.events < MaxEvents /\ Spend("events")
    /\ person' = [person EXCEPT ![u].pipes = ~@]
    /\ UNCHANGED <<airtable, job, saver, told, excused, spared>>

SetsBan(u) ==
    /\ budget.events < MaxEvents /\ Spend("events")
    /\ airtable' = [airtable EXCEPT !.banned = IF u \in @ THEN @ \ {u} ELSE @ \cup {u}]
    /\ spared' = [j \in Jobs |-> spared[j] \ {u}]
    /\ UNCHANGED <<person, job, saver, told, excused>>

(* Between the count and the UPDATE of two backfills a new project lets     *)
(* both of them turn something golden.                                      *)
MakesProject(u) ==
    /\ budget.events < MaxEvents /\ Spend("events")
    /\ person' = [person EXCEPT ![u].plain = @ + 1]
    /\ IF \E j \in Jobs : job[j].at = u /\ job[j].stage = "mark"
       THEN Excuse("golden", {u}) ELSE UNCHANGED excused
    /\ UNCHANGED <<airtable, job, saver, told, spared>>

LosesGolden(u) ==
    /\ budget.events < MaxEvents /\ Spend("events") /\ person[u].golden > 0
    /\ person' = [person EXCEPT ![u].golden = @ - 1, ![u].plain = @ + 1]
    /\ Excuse("golden", {u})
    /\ UNCHANGED <<airtable, job, saver, told, spared>>

NoticesNext ==
    \/ \E j \in Jobs :
        \/ \E kind \in Channels : Start(j, kind)
        \/ Ends(j) \/ Dies(j) \/ Sends(j) \/ Stamps(j) \/ LooksAtDate(j) \/ WritesDate(j)
        \/ MarksGolden(j) \/ TellsGolden(j)
        \/ \E u \in Recipients : LooksUp(j, u) \/ CountsGolden(j, u)
    \/ \E s \in Savers :
        \/ \E u \in Recipients, marker \in Markers, value \in BOOLEAN : FindsUser(s, u, marker, value)
        \/ ComparesRow(s) \/ WritesRow(s)
    \/ \E u \in Recipients : MovesPipes(u) \/ SetsBan(u) \/ MakesProject(u) \/ LosesGolden(u)

NoticesSpec == NoticesInit /\ [][NoticesNext]_noticesVars

-----------------------------------------------------------------------------

(* "So the bulk notify can be re-run safely without double-DMing anyone it  *)
(* already reached": nobody is told twice that the shop closes, unless two  *)
(* requests listed them at once, one of them died before it marked them, or *)
(* a stale save took the mark off.  Nobody is ever sent the email twice.    *)
(* Nobody is told twice that their projects are golden, unless they were    *)
(* not any more, or a new one came between the count and the UPDATE.  And   *)
(* the two markers exclude each other, unless two saves raced.  Somebody    *)
(* banned since before a request began is told nothing by it, not even when *)
(* their perms could not be looked up.                                      *)
ToldOnce ==
    /\ \A c \in {"closing", "golden"}, u \in Recipients : told[c][u] > 1 => u \in excused[c]
    /\ \A u \in Recipients : told["email"][u] <= 1 /\ (told["email"][u] = 1 => u \in airtable.dated)
    /\ \A u \in Recipients : person[u].row.watchlisted /\ person[u].row.coolBuilder => u \in excused["marker"]
    /\ \A j \in Jobs : job[j].stage \in {"send", "look", "patch"} => job[j].at \notin spared[j]
=============================================================================
