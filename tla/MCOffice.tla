------------------------------ MODULE MCOffice -------------------------------
(* What the staff keep an eye on: the queue and who is next in it, messages *)
(* to many, numbers, and how long the program is still open.  The parts     *)
(* have nothing in common; a behaviour is one of them.                      *)
EXTENDS Queue, Notices, Stats, Window, TLC

CONSTANTS p1, p2, p3

MCAuthor == (p1 :> "a") @@ (p2 :> "a") @@ (p3 :> "b")
MCMadeAt == (p1 :> 3) @@ (p2 :> 1) @@ (p3 :> 2)

MCTabs == Permutations(Tabs)

VARIABLE focus

officeVars == <<queueVars, noticesVars, statsVars, windowVars, focus>>

OfficeInit ==
    /\ focus \in {"queue", "notices", "history", "window"} \cup Kinds
    /\ QueueInit /\ NoticesInit /\ StatsInit /\ WindowInit
    /\ focus # "window" => project.status = "none" /\ builder.email = "eligible" /\ builder.until = NotSet
    /\ focus # "notices" => \A u \in Recipients : ~person[u].row.coolBuilder

OfficeNext ==
    /\ UNCHANGED focus
    /\ \/ focus = "queue" /\ QueueNext /\ UNCHANGED <<noticesVars, statsVars, windowVars>>
       \/ focus = "notices" /\ NoticesNext /\ UNCHANGED <<queueVars, statsVars, windowVars>>
       \/ focus = "history" /\ HistoryNext /\ UNCHANGED <<queueVars, noticesVars, windowVars>>
       \/ focus \in Kinds /\ NumberNext(focus) /\ UNCHANGED <<queueVars, noticesVars, windowVars>>
       \/ focus = "window" /\ WindowNext /\ UNCHANGED <<queueVars, noticesVars, statsVars>>

OfficeSpec == OfficeInit /\ [][OfficeNext]_officeVars

(* Each part has its type; so a page of the queue never reads past its end, *)
(* no day is counted that has not begun, and however often a builder's time *)
(* is extended, it is up one extension from now at the latest.              *)
OfficeTypeOK == QueueTypeOK /\ NoticesTypeOK /\ StatsTypeOK /\ WindowTypeOK
=============================================================================
