------------------------------ MODULE MCGrants ------------------------------
(* One item, two orders, two grant requests at once; the second user is on  *)
(* the staff and may also buy.                                              *)
EXTENDS Grants, TLC
CONSTANTS u1, u2, i1, g1, g2, g3, r1, r2

MCPriceFor == [u \in Users |-> [i \in Items |-> 1]]
MCSymmetry == Permutations(OrderIds) \cup Permutations(GrantIds) \cup Permutations(Requests)
=============================================================================
