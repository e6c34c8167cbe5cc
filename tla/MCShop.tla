------------------------------- MODULE MCShop -------------------------------
(* A small shop.  Regional prices differ between buyers; the second item is *)
(* on the black market.  Order ids are interchangeable.  A behaviour is one *)
(* of the shop, or one of the suggestions, which touch no order.            *)
EXTENDS Shop, Suggestions, TLC
CONSTANTS u1, u2, i1, i2, o1, o2, o3

MCPriceFor == [u \in Users |-> [i \in Items |-> IF u = u1 THEN 1 ELSE 2]]
MCWatched == <<u1, i1>>
MCSymmetry == Permutations(OrderIds)

VARIABLE focus

MCInit == focus \in {"orders", "ideas"} /\ Init /\ SuggestionsInit

MCNext ==
    /\ UNCHANGED focus
    /\ \/ focus = "orders" /\ Next /\ UNCHANGED suggestionVars
       \/ focus = "ideas" /\ SuggestionsNext /\ UNCHANGED vars

MCSpec == MCInit /\ [][MCNext]_<<vars, suggestionVars, focus>>
=============================================================================
