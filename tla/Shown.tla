-------------------------------- MODULE Shown --------------------------------
(* What its builder is told of a project.  A first pass is not final until  *)
(* HQ has authorized it, and HQ may return it: so the hours it adds, which  *)
(* the project's row carries already, and its review are kept from the      *)
(* builder until then.  Each answer is one step: it reads the project and   *)
(* then the ship that awaits HQ.                                            *)
EXTENDS Sidekick

CONSTANT Tracked     \* what Hackatime may say of the project

ASSUME ShownAssumption == Tracked \subseteq Nat

(* findByUser: without the hours of a pass that awaits HQ.                  *)
FoundHours ==
    LET pending == IF OpenShip = 0 THEN 0 ELSE Or(ships[OpenShip].hours, 0) IN
    IF project.status = "fraud_pending" /\ pending > 0
    THEN Less(project.hours, pending) ELSE project.hours

(* The bucket of a project in the builder's progress bar.                   *)
Bucket == IF project.status = "fraud_pending" THEN "unreviewed" ELSE project.status

(* The hours that were paid; for an approval that paid none, Hackatime's.   *)
Earned(tracked) ==
    LET paid == IF project.pipes > 0 THEN FoundHours ELSE 0 IN
    IF Bucket = "approved" /\ paid = 0 THEN tracked ELSE paid

(* getHours: what is earned, and what Hackatime has beyond it, unless the   *)
(* project is approved.                                                     *)
HoursShown(tracked) ==
    [approved |-> Less(Earned(tracked), 0), bucket |-> Bucket,
     rest |-> IF Bucket = "approved" THEN 0 ELSE Less(tracked, Earned(tracked))]

(* getReviews: the approving reviews of ship s that are shown.              *)
ApprovalsShown(s) == IF ships[s].status = "unreviewed" THEN 0 ELSE ships[s].reviews

-----------------------------------------------------------------------------

(* "The payload must not reveal the pending approval": while a pass awaits  *)
(* HQ the builder is told the hours the project had before it, and of no    *)
(* review of the ship; an edit between its two saves aside.                 *)
NothingPendingShown ==
    PassAwaits /\ project.status = "fraud_pending" /\ (\A c \in Calls : calls[c].stage # "saveShip") =>
        FoundHours = ships[NewestShip].before /\ ApprovalsShown(NewestShip) = 0

(* A first pass, from wherever it comes, moves nothing in the builder's     *)
(* progress bar.                                                            *)
PassIsHidden == [][project.status = "unreviewed" /\ project'.status = "fraud_pending" /\ PassAwaits' =>
    \A tracked \in Tracked : HoursShown(tracked)' = HoursShown(tracked)]_sidekickVars

(* A decision sent from Sidekick is on what the reviewer saw, and pays what *)
(* the reviewer gave; the builder hears of it when it is final.             *)
DecisionsStand == HoursStand /\ []NothingPendingShown /\ PassIsHidden
=============================================================================
