----------------------------- MODULE MCDecisions -----------------------------
(* The decisions on projects: request by request, from everywhere; and one  *)
(* project as Sidekick decides on it.  A behaviour is one of the two.       *)
EXTENDS MCReview, Shown

(* Both kinds of hours, or neither.                                         *)
MCEntered == {<<1, 1>>, <<Null, Null>>}

VARIABLE focus

DecisionsInit ==
    /\ ReviewInit /\ SidekickInit
    /\ focus \in {"review", "sidekick"}
    /\ focus = "sidekick" => \A p \in Projects : projects[p] = Unused

DecisionsNext ==
    /\ UNCHANGED focus
    /\ \/ focus = "review" /\ ReviewNext /\ UNCHANGED sidekickVars
       \/ focus = "sidekick" /\ SidekickNext /\ UNCHANGED vars

DecisionsSpec == DecisionsInit /\ [][DecisionsNext]_<<vars, sidekickVars, focus>>

(* Each part has its type.                                                  *)
DecisionsTypeOK == ReviewTypeOK /\ SidekickTypeOK
=============================================================================
