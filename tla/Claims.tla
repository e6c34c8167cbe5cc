------------------------------- MODULE Claims -------------------------------
(* Which reviewer has claimed a project.  A claim is read, judged and then  *)
(* written by its column alone; a verdict and a builder's edit save the row *)
(* whole, with the claim they had read; an hourly job frees old claims.     *)
EXTENDS OneProcess

CONSTANTS
    Reviewers,
    ClaimProduction  \* whether NODE_ENV is production

NoClaim == [by |-> None, old |-> FALSE]
Claim == [by: Reviewers, old: BOOLEAN] \cup {NoClaim}

ASSUME ClaimsAssumption == None \notin Reviewers /\ ClaimProduction \in BOOLEAN

VARIABLES
    claim,       \* the three columns; old: taken more than CLAIM_TTL_MS ago
    handling     \* requests: stage, reviewer, and the claim each one read

claimVars == <<claim, handling>>

Unclaiming == [stage |-> "idle", who |-> None, saw |-> NoClaim]

ClaimsTypeOK ==
    /\ claim \in Claim
    /\ handling \in [Requests ->
        [stage: {"idle", "claim", "release", "decide", "free", "edit"},
         who: Reviewers \cup {None}, saw: Claim]]

ClaimsInit == claim = NoClaim /\ handling = [r \in Requests |-> Unclaiming]

Handle(r, stage, who) ==
    /\ handling[r] = Unclaiming
    /\ handling' = Turn(handling, r, [stage |-> stage, who |-> who, saw |-> claim])
    /\ UNCHANGED claim

Handled(r) == handling' = Turn(handling, r, Unclaiming)

-----------------------------------------------------------------------------
ClaimAnyway(r, who) == Handle(r, "claim", who)      \* mutant: claimed by others too

(* claimProject answers the holder's name if another's claim still stands.  *)
ReadClaim(r, who) ==
    /\ claim.by \in {None, who} \/ claim.old
    /\ Handle(r, "claim", who)

TakeClaim(r) ==
    /\ handling[r].stage = "claim"
    /\ claim' = [by |-> handling[r].who, old |-> FALSE]
    /\ Handled(r)

(* releaseProjectClaim.                                                     *)
ReadRelease(r, who) == claim.by = who /\ Handle(r, "release", who)

DropClaim(r) ==
    /\ handling[r].stage = "release"
    /\ claim' = NoClaim
    /\ Handled(r)

(* reviewProject, whoever holds the claim: the row saved, later the claim   *)
(* freed.  An edit by the builder saves the row and leaves the claim.       *)
ReadToDecide(r, who) == Handle(r, "decide", who)
ReadToEdit(r) == Handle(r, "edit", None)

SaveProjectRow(r) ==
    /\ handling[r].stage \in {"decide", "edit"}
    /\ claim' = handling[r].saw
    /\ IF handling[r].stage = "edit" THEN Handled(r)
       ELSE handling' = [handling EXCEPT ![r].stage = "free"]

FreeClaim(r) ==
    /\ handling[r].stage = "free"
    /\ claim' = NoClaim
    /\ Handled(r)

(* A day goes by; what requests hold in memory ages too.                    *)
ClaimAges ==
    /\ claim # NoClaim /\ ~claim.old
    /\ claim' = [claim EXCEPT !.old = TRUE]
    /\ handling' = [r \in Requests |->
        IF handling[r].saw = NoClaim THEN handling[r]
        ELSE [handling[r] EXCEPT !.saw.old = TRUE]]

ExpireStaleClaims ==
    /\ ClaimProduction
    /\ claim.old
    /\ claim' = NoClaim
    /\ UNCHANGED handling

ClaimsCrash ==
    /\ \E r \in Requests : handling[r] # Unclaiming
    /\ handling' = [r \in Requests |-> Unclaiming]
    /\ UNCHANGED claim

ClaimsNext ==
    \/ \E r \in Requests :
        \/ \E who \in Reviewers : ReadClaim(r, who) \/ ReadRelease(r, who) \/ ReadToDecide(r, who)
        \/ ReadToEdit(r) \/ TakeClaim(r) \/ DropClaim(r) \/ SaveProjectRow(r) \/ FreeClaim(r)
    \/ ClaimAges \/ ExpireStaleClaims \/ ClaimsCrash

ClaimsSpec == ClaimsInit /\ [][ClaimsNext]_claimVars

(* The job runs every hour, and requests go through their statements.       *)
ClaimsFairness ==
    /\ SF_claimVars(ExpireStaleClaims)
    /\ \A r \in Requests :
        WF_claimVars(TakeClaim(r) \/ DropClaim(r) \/ SaveProjectRow(r) \/ FreeClaim(r))

-----------------------------------------------------------------------------
(* Properties.                                                              *)

(* A claim that stands is taken over only by a request that read the row    *)
(* before that claim was on it, or saved it whole.                          *)
ClaimHolds == [][\A who \in Reviewers :
    claim = [by |-> who, old |-> FALSE] /\ claim'.by \notin {who, None} =>
        \E r \in Requests :
            handling'[r] # handling[r] /\ (handling[r].saw # claim)]_claimVars

(* Old claims do not lock a project for good, though whole-row saves bring  *)
(* them back.                                                               *)
OldClaimsGo == []<>(~claim.old)

(* A claim keeps the others off the project while it is young, no longer.   *)
ClaimsHold == ClaimHolds /\ OldClaimsGo
=============================================================================
