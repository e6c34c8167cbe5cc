------------------------------- MODULE MCDesk -------------------------------
(* Three components that touch one row at a time, each checked by itself:   *)
(* a behaviour is one of Desk, of Bans or of Claims.                        *)
EXTENDS Desk, Bans, Claims

VARIABLE focus

deskAll == <<deskVars, banVars, claimVars, focus>>

MCInit ==
    /\ DeskInit /\ BansInit /\ ClaimsInit
    /\ focus \in {"desk", "bans", "claims"}

MCNext ==
    /\ UNCHANGED focus
    /\ \/ focus = "desk" /\ DeskNext /\ UNCHANGED <<banVars, claimVars>>
       \/ focus = "bans" /\ BansNext /\ UNCHANGED <<deskVars, claimVars>>
       \/ focus = "claims" /\ ClaimsNext /\ UNCHANGED <<deskVars, banVars>>

MCSpec == MCInit /\ [][MCNext]_deskAll
FairMCSpec == MCSpec /\ BansFairness /\ ClaimsFairness

(* The types of the three parts, with what no row may hold: a payment below *)
(* zero, a grant of an order nobody placed, a claim with a name and no      *)
(* owner.                                                                   *)
RowsTypeOK == DeskTypeOK /\ BansTypeOK /\ ClaimsTypeOK
=============================================================================
