----------------------------- MODULE QueuePages -----------------------------
(* The queues of the second pass (routes/admin/audit) and of fraud review   *)
(* (routes/admin/fraud): a list held by the page, a position in it, and a   *)
(* verdict sent for the project at that position.  Other reviewers decide   *)
(* too, and shipping adds projects.                                         *)
EXTENDS Handlers

CONSTANTS Backlog,      \* every project of the queue, oldest first
          Nobody,       \* no verdict in flight
          MaxReloads    \* bound: reloads in flight at once

ASSUME QueueAssumption == Backlog \in Seq({Backlog[i] : i \in DOMAIN Backlog})
                          /\ Nobody \notin {Backlog[i] : i \in DOMAIN Backlog}
                          /\ MaxReloads \in Nat

VARIABLES
    waiting,    \* backend: projects that await a verdict
    queue,      \* page: the projects of the last reload
    idx,        \* page: position in the filtered list, from 1
    search,     \* page: the projects the search box lets through
    verdict,    \* page and backend: the verdict in flight
    reloads,    \* reloads in flight; a set of rows once the backend has read them
    loading,    \* page: the list is hidden
    failed      \* page: loadError

queueVars == <<waiting, queue, idx, search, verdict, reloads, loading, failed>>

AllProjects == {Backlog[i] : i \in DOMAIN Backlog}
Within(s, S) == Sublist(s, {i \in DOMAIN s : s[i] \in S})

filtered == Within(queue, search)
current == IF idx \in DOMAIN filtered THEN filtered[idx] ELSE Nobody
Showing == ~loading /\ ~failed /\ queue # <<>>
NoVerdict == [it |-> Nobody, stage |-> "none"]
Unread == {Nobody}

QueueInit ==
    /\ waiting \in SUBSET AllProjects
    /\ queue = <<>> /\ idx = 1
    /\ search = AllProjects
    /\ verdict = NoVerdict
    /\ reloads = <<Unread>> /\ loading = TRUE /\ failed = FALSE

loadQueue ==
    /\ Len(reloads) < MaxReloads
    /\ reloads' = Append(reloads, Unread)
    /\ loading' = TRUE /\ failed' = FALSE
    /\ UNCHANGED <<waiting, queue, idx, search, verdict>>

ReadQueue(i) ==
    /\ reloads[i] = Unread
    /\ reloads' = [reloads EXCEPT ![i] = waiting]
    /\ UNCHANGED <<waiting, queue, idx, search, verdict, loading, failed>>

QueueLoaded(i) ==
    /\ reloads[i] # Unread
    /\ queue' = Within(Backlog, reloads[i])
    /\ idx' = 1
    /\ reloads' = Sublist(reloads, DOMAIN reloads \ {i})
    /\ loading' = FALSE
    /\ UNCHANGED <<waiting, search, verdict, failed>>

QueueLost(i) ==
    /\ reloads' = Sublist(reloads, DOMAIN reloads \ {i})
    /\ loading' = FALSE /\ failed' = TRUE
    /\ UNCHANGED <<waiting, queue, idx, search, verdict>>

(* Prev, Next and the list, which a verdict in flight does not lock.        *)
go(i) ==
    /\ i \in DOMAIN filtered /\ i # idx
    /\ i \in {idx - 1, idx + 1} \/ Showing
    /\ idx' = i
    /\ UNCHANGED <<waiting, queue, search, verdict, reloads, loading, failed>>

Search(S) ==
    /\ Showing /\ S # search
    /\ search' = S
    /\ UNCHANGED <<waiting, queue, idx, verdict, reloads, loading, failed>>

(* submit of the second pass; clearNotFraud and banMaker of fraud review.   *)
submit ==
    /\ Showing /\ current # Nobody /\ verdict = NoVerdict
    /\ verdict' = [it |-> current, stage |-> "sent"]
    /\ UNCHANGED <<waiting, queue, idx, search, reloads, loading, failed>>

Decide ==
    /\ verdict.stage = "sent"
    /\ verdict' = [verdict EXCEPT !.stage = IF verdict.it \in waiting THEN "ok" ELSE "error"]
    /\ waiting' = waiting \ {verdict.it}
    /\ UNCHANGED <<queue, idx, search, reloads, loading, failed>>

(* The request or its answer is lost, or it is refused.                     *)
Refused ==
    /\ verdict # NoVerdict
    /\ verdict' = NoVerdict
    /\ UNCHANGED <<waiting, queue, idx, search, reloads, loading, failed>>

(* What leaves the list is the project shown when the answer comes.         *)
dropCurrent ==
    /\ verdict.stage = "ok"
    /\ verdict' = NoVerdict
    /\ queue' = Within(queue, AllProjects \ {current})
    /\ idx' = LET left == Len(Within(queue', search)) IN
              IF current # Nobody /\ idx > left THEN (IF left = 0 THEN 1 ELSE left) ELSE idx
    /\ UNCHANGED <<waiting, search, reloads, loading, failed>>

(* Another reviewer decides; a builder ships.                               *)
Elsewhere(p) ==
    /\ waiting' = IF p \in waiting THEN waiting \ {p} ELSE waiting \cup {p}
    /\ UNCHANGED <<queue, idx, search, verdict, reloads, loading, failed>>

QueueNext ==
    \/ loadQueue \/ submit \/ Decide \/ Refused \/ dropCurrent
    \/ \E i \in DOMAIN reloads : ReadQueue(i) \/ QueueLoaded(i) \/ QueueLost(i)
    \/ \E i \in DOMAIN filtered : go(i)
    \/ \E S \in {AllProjects} \cup {{p} : p \in AllProjects} : Search(S)
    \/ \E p \in AllProjects : Elsewhere(p)

QueueSpec == QueueInit /\ [][QueueNext]_queueVars

-----------------------------------------------------------------------------
(* A list that is not empty has a project at its position: with the search  *)
(* box empty the page never shows a blank where there is work, whatever was *)
(* decided, searched or reloaded, in whichever order the answers came.      *)
PositionInQueue == queue # <<>> => idx \in DOMAIN queue
=============================================================================
