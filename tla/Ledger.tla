-------------------------------- MODULE Ledger --------------------------------
(* What the review desk promises the shop about pipes.  A wallet rises only *)
(* by a grant that is put on record, falls only by taking a recorded grant  *)
(* back, and a record may be dropped with the project that carried it.      *)
(* Shop.tla's Award and Clawback are the first two as the shop sees them.   *)
EXTENDS Integers

CONSTANT Users

VARIABLES
    wallet,      \* pipes the review desk has put in a wallet, net
    recorded     \* pipes on record as granted on the user's projects

Init ==
    /\ wallet = [u \in Users |-> 0]
    /\ recorded = [u \in Users |-> 0]

(* The record of one user moves by delta.                                   *)
Records(u, delta) ==
    /\ recorded' \in [Users -> Nat]
    /\ recorded' = [recorded EXCEPT ![u] = @ + delta]

Pays(u, delta) == wallet' = [wallet EXCEPT ![u] = @ + delta]

Move(u) ==
    LET delta == recorded'[u] - recorded[u] IN
    /\ Records(u, delta)
    /\ \/ Pays(u, delta)                          \* a grant or a clawback
       \/ delta < 0 /\ UNCHANGED wallet           \* a project deleted

Next == \E u \in Users : Move(u)

Spec == Init /\ [][Next]_<<wallet, recorded>>

(* Whatever implements the ledger keeps every recorded pipe backed: reviews *)
(* alone never leave a wallet short of what is on record, and a later       *)
(* clawback is covered unless the shop or an admin has spent the pipes      *)
(* (reviewProject's decrement has no floor).                                *)
RecordIsBacked == \A u \in Users : wallet[u] >= recorded[u]
=============================================================================
