------------------------------- MODULE Totals -------------------------------
(* Sums of a natural-valued function over a finite set, counted as unit     *)
(* tokens: index x contributes the tokens <<x, 1>>, ..., <<x, f[x]>>.       *)
(* Written this way, facts about sums are facts about cardinalities, which  *)
(* TotalsProofs derives from the library's theorems on finite sets.         *)
EXTENDS Integers, FiniteSets

Tokens(f, x) == {x} \X (1 .. f[x])

Total(f, S) == Cardinality(UNION {Tokens(f, x) : x \in S})
=============================================================================
