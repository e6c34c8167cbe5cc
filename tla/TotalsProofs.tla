---------------------------- MODULE TotalsProofs ----------------------------
(* Sums over finite sets, from the library's facts about cardinalities.     *)
EXTENDS Totals, FiniteSetTheorems, Functions, TLAPS

(* The tokens of a finite set are finite, so a total is a natural number.   *)
LEMMA TotalType ==
    ASSUME NEW D, NEW f \in [D -> Nat], NEW S, S \subseteq D, IsFiniteSet(S)
    PROVE  /\ IsFiniteSet(UNION {Tokens(f, x) : x \in S})
           /\ Total(f, S) \in Nat
<1> DEFINE T == {Tokens(f, x) : x \in S}
<1>1. IsFiniteSet(T)
  <2> DEFINE tok == [x \in S |-> Tokens(f, x)]
  <2>1. tok \in Surjection(S, T)
    BY DEF Surjection
  <2>2. QED
    BY <2>1, FS_Surjection
<1>2. ASSUME NEW t \in T PROVE IsFiniteSet(t)
  <2>1. PICK x \in S : t = Tokens(f, x)
    OBVIOUS
  <2>2. IsFiniteSet({x}) BY FS_Singleton
  <2>3. IsFiniteSet(1 .. f[x]) BY FS_Interval
  <2>4. QED BY <2>1, <2>2, <2>3, FS_Product DEF Tokens
<1>3. IsFiniteSet(UNION T)
  BY <1>1, <1>2, FS_UNION
<1>4. QED
  BY <1>3, FS_CardinalityType DEF Total

(* Nothing adds up to nothing.                                              *)
LEMMA TotalEmpty == \A f : Total(f, {}) = 0
  BY FS_EmptySet DEF Total

(* The total of one index is its value.                                     *)
LEMMA TotalSingle ==
    ASSUME NEW D, NEW f \in [D -> Nat], NEW x \in D
    PROVE  Total(f, {x}) = f[x]
<1>1. UNION {Tokens(f, y) : y \in {x}} = {x} \X (1 .. f[x])
  BY DEF Tokens
<1>2. IsFiniteSet({x}) /\ Cardinality({x}) = 1
  BY FS_Singleton
<1>3. IsFiniteSet(1 .. f[x]) /\ Cardinality(1 .. f[x]) = f[x]
  BY FS_Interval
<1>4. Cardinality({x} \X (1 .. f[x])) = 1 * f[x]
  BY <1>2, <1>3, FS_Product
<1>5. QED
  BY <1>1, <1>4 DEF Total

(* Totals of disjoint sets add.                                             *)
LEMMA TotalSplit ==
    ASSUME NEW D, NEW f \in [D -> Nat],
           NEW S, S \subseteq D, IsFiniteSet(S),
           NEW T, T \subseteq D, IsFiniteSet(T), S \cap T = {}
    PROVE  Total(f, S \cup T) = Total(f, S) + Total(f, T)
<1> DEFINE US == UNION {Tokens(f, x) : x \in S}
           UT == UNION {Tokens(f, x) : x \in T}
<1>1. UNION {Tokens(f, x) : x \in S \cup T} = US \cup UT
  OBVIOUS
<1>2. US \cap UT = {}
  BY DEF Tokens
<1>3. IsFiniteSet(US) /\ IsFiniteSet(UT)
  BY TotalType
<1>4. Cardinality(US \cup UT) = Cardinality(US) + Cardinality(UT) - Cardinality({})
  BY <1>2, <1>3, FS_Union, Zenon
<1>5. Cardinality(US) \in Nat /\ Cardinality(UT) \in Nat /\ Cardinality({}) = 0
  BY <1>3, FS_CardinalityType, FS_EmptySet
<1>6. Total(f, S) = Cardinality(US) /\ Total(f, T) = Cardinality(UT)
  BY DEF Total
<1>7. Total(f, S \cup T) = Cardinality(US \cup UT)
  BY <1>1 DEF Total
<1> HIDE DEF US, UT
<1>8. QED
  BY <1>4, <1>5, <1>6, <1>7

(* Only the values on the set count.                                        *)
LEMMA TotalCongruence ==
    ASSUME NEW f, NEW g, NEW S, \A x \in S : f[x] = g[x]
    PROVE  Total(f, S) = Total(g, S)
<1>1. \A x \in S : Tokens(f, x) = Tokens(g, x)
  BY DEF Tokens
<1>2. {Tokens(f, x) : x \in S} = {Tokens(g, x) : x \in S}
  BY <1>1
<1>3. QED
  BY <1>2 DEF Total

(* Zeros add up to zero.                                                    *)
LEMMA TotalZero ==
    ASSUME NEW f, NEW S, \A x \in S : f[x] = 0
    PROVE  Total(f, S) = 0
<1>1. \A x \in S : Tokens(f, x) = {}
  BY DEF Tokens
<1>2. UNION {Tokens(f, x) : x \in S} = {}
  BY <1>1
<1>3. QED
  BY <1>2, FS_EmptySet DEF Total

(* A total split off at one index.                                          *)
LEMMA TotalAt ==
    ASSUME NEW D, IsFiniteSet(D), NEW f \in [D -> Nat], NEW x \in D
    PROVE  /\ Total(f, D) = f[x] + Total(f, D \ {x})
           /\ Total(f, D \ {x}) \in Nat
<1>1. IsFiniteSet({x}) /\ IsFiniteSet(D \ {x})
  BY FS_Singleton, FS_Subset, D \ {x} \subseteq D
<1>2. Total(f, {x} \cup (D \ {x})) = Total(f, {x}) + Total(f, D \ {x})
  BY <1>1, TotalSplit
<1>3. {x} \cup (D \ {x}) = D
  OBVIOUS
<1>4. Total(f, D \ {x}) \in Nat
  BY <1>1, TotalType
<1>5. QED
  BY <1>2, <1>3, <1>4, TotalSingle

(* Changing one value changes the total by the difference.                  *)
LEMMA TotalUpdate ==
    ASSUME NEW D, IsFiniteSet(D), NEW f \in [D -> Nat], NEW g \in [D -> Nat],
           NEW x \in D, \A y \in D \ {x} : g[y] = f[y]
    PROVE  Total(g, D) = Total(f, D) - f[x] + g[x]
<1>1. Total(f, D) = f[x] + Total(f, D \ {x}) /\ Total(f, D \ {x}) \in Nat
  BY TotalAt
<1>2. Total(g, D) = g[x] + Total(g, D \ {x})
  BY TotalAt
<1>3. Total(g, D \ {x}) = Total(f, D \ {x})
  BY TotalCongruence
<1>4. QED
  BY <1>1, <1>2, <1>3

(* Moving the values of a set onto one index outside it keeps the total.    *)
LEMMA TotalMove ==
    ASSUME NEW D, IsFiniteSet(D), NEW f \in [D -> Nat], NEW g \in [D -> Nat],
           NEW x \in D, NEW S, S \subseteq D, x \notin S,
           g[x] = f[x] + Total(f, S),
           \A y \in S : g[y] = 0,
           \A y \in D \ (S \cup {x}) : g[y] = f[y]
    PROVE  Total(g, D) = Total(f, D)
<1> DEFINE R == (D \ {x}) \ S
<1>1. IsFiniteSet(S) /\ IsFiniteSet(R) /\ R \subseteq D
  BY FS_Subset, R \subseteq D
<1>2. D \ {x} = S \cup R /\ S \cap R = {}
  OBVIOUS
<1>3. ASSUME NEW h \in [D -> Nat]
      PROVE  /\ Total(h, D) = h[x] + Total(h, S) + Total(h, R)
             /\ Total(h, S) \in Nat /\ Total(h, R) \in Nat
  <2>1. Total(h, D) = h[x] + Total(h, D \ {x})
    BY TotalAt
  <2>2. Total(h, S \cup R) = Total(h, S) + Total(h, R)
    BY <1>1, <1>2, TotalSplit
  <2>3. Total(h, S) \in Nat /\ Total(h, R) \in Nat
    BY <1>1, TotalType
  <2>4. Total(h, D) = h[x] + Total(h, S \cup R)
    BY <1>2, <2>1
  <2> HIDE DEF R
  <2>5. h[x] \in Nat
    OBVIOUS
  <2>6. QED
    BY <2>2, <2>3, <2>4, <2>5
<1>4. Total(g, S) = 0
  BY TotalZero
<1>5. Total(g, R) = Total(f, R)
  BY TotalCongruence
<1>6. QED
  BY <1>3, <1>4, <1>5
=============================================================================
