------------------------------ MODULE MCReview ------------------------------
(* One builder with two projects.                                           *)
EXTENDS Review, TLC
CONSTANTS u1, p1, p2

MCOwnerOf == [p \in Projects |-> u1]
MCSymmetry == Permutations(Projects)
=============================================================================
