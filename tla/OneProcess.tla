------------ MODULE OneProcess ------------
(* What the services of the backend have in common: one Node process that   *)
(* serves several requests at once, each of which gives way to the others   *)
(* at every call it awaits, and forgets them all when it dies.              *)

CONSTANTS
    Requests,      \* requests the process serves at once
    None           \* null

(* A request goes on to its next await, or ends; the others wait where they *)
(* are.                                                                     *)
Turn(request, r, state) == [request EXCEPT ![r] = state]
========================================
