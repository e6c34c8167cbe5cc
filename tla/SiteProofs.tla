------------------------------ MODULE SiteProofs ------------------------------
(* Theorems of the site in one browser, a part of MCSite at a time: the     *)
(* pages, for any panel that keeps the rules of Pages and any number of     *)
(* clicks and answers; a reviewer's queue of any length; the sign-ins and   *)
(* clicks that make one RSVP (Signup); the way back from an impersonation,  *)
(* for any number of requests at once (Impersonation); the bans of the      *)
(* staff and the daily sweep, for any accounts (Perms); and who may do      *)
(* what, for any number of changes of roles (Access).                       *)
EXTENDS MCSite, FiniteSetTheorems, WellFoundedInduction, TLAPS

(***************************************************************************)
(* The pages.  A handler is a row of its panel's table, so what is proved  *)
(* of the calls in flight rests on the rules of Pages alone: that a busy   *)
(* flag is raised only by who lowers it, that a lock or a latch bars every *)
(* handler that raises it, that whoever picks another thing takes down or  *)
(* hides what was shown of the last.  TLC finds that the tables keep them. *)
(* The invariant, Sound, says of every flag that is up whose call in       *)
(* flight will lower it, of every lock that one call at most holds it, and *)
(* of what is shown that the calls which could replace it ask for the same *)
(* thing.  It is proved of BeginAll by induction over the handlers that    *)
(* are started in turn, as the least number of them that would break it.   *)
(***************************************************************************)

(* A sublist has as many elements as it has places, each from a place of    *)
(* its own.                                                                 *)
LEMMA SublistIs ==
    ASSUME NEW S, NEW s \in Seq(S), NEW places \in SUBSET DOMAIN s
    PROVE  /\ Sublist(s, places) \in Seq(S)
           /\ Cardinality(places) \in Nat /\ Cardinality(places) <= Len(s)
           /\ DOMAIN Sublist(s, places) = 1 .. Cardinality(places)
           /\ Len(Sublist(s, places)) = Cardinality(places)
           /\ \E e \in [1 .. Cardinality(places) -> places] :
                 /\ \A n \in 1 .. Cardinality(places) : Sublist(s, places)[n] = s[e[n]]
                 /\ \A m, n \in 1 .. Cardinality(places) : e[m] = e[n] => m = n
                 /\ \A i \in places : \E n \in 1 .. Cardinality(places) : e[n] = i
<1> DEFINE N == Cardinality(places)
           upto(i) == {j \in places : j <= i}
           rank == [i \in places |-> Cardinality(upto(i))]
           e == [n \in 1 .. N |-> CHOOSE i \in places : Cardinality({j \in places : j <= i}) = n]
<1>1. IsFiniteSet(places) /\ N \in Nat /\ N <= Len(s) /\ places \subseteq Nat
    <2>1. DOMAIN s = 1 .. Len(s) /\ Len(s) \in Nat
        OBVIOUS
    <2>2. IsFiniteSet(1 .. Len(s)) /\ Cardinality(1 .. Len(s)) = Len(s)
        <3> 1 \in Int /\ Len(s) \in Int
            BY <2>1
        <3>1. IsFiniteSet(1 .. Len(s)) /\ Cardinality(1 .. Len(s)) = IF 1 > Len(s) THEN 0 ELSE Len(s) - 1 + 1
            BY FS_Interval
        <3> QED
            BY <3>1, <2>1
    <2> QED
        BY <2>1, <2>2, FS_Subset, FS_CardinalityType
<1>2. \A i \in places : IsFiniteSet(upto(i)) /\ rank[i] \in 1 .. N
    <2> TAKE i \in places
    <2>1. IsFiniteSet(upto(i)) /\ Cardinality(upto(i)) <= N
        BY <1>1, FS_Subset
    <2>2. i \in upto(i)
        BY <1>1
    <2>3. Cardinality(upto(i)) \in Nat /\ Cardinality(upto(i)) # 0
        BY <2>1, <2>2, FS_CardinalityType, FS_EmptySet
    <2> QED
        BY <2>1, <2>3, <1>1
<1>3. \A i, j \in places : rank[i] = rank[j] => i = j
    <2>1. ASSUME NEW i \in places, NEW j \in places, i < j
          PROVE  rank[i] # rank[j]
        <3>1. upto(i) \subseteq upto(j) /\ upto(i) # upto(j)
            BY <1>1, <2>1
        <3> QED
            BY <3>1, <1>2, FS_Subset
    <2> SUFFICES ASSUME NEW i \in places, NEW j \in places, rank[i] = rank[j], i # j
                 PROVE  FALSE
        OBVIOUS
    <2>2. i < j \/ j < i
        BY <1>1
    <2> QED
        BY <2>1, <2>2
<1>4. rank \in Injection(places, 1 .. N)
    BY <1>2, <1>3 DEF Injection, IsInjective
<1>5. rank \in Surjection(places, 1 .. N)
    <2>1. IsFiniteSet(1 .. N) /\ Cardinality(1 .. N) = N
        <3> 1 \in Int /\ N \in Int
            BY <1>1
        <3>1. IsFiniteSet(1 .. N) /\ Cardinality(1 .. N) = IF 1 > N THEN 0 ELSE N - 1 + 1
            BY FS_Interval
        <3> QED
            BY <3>1, <1>1
    <2> QED
        BY <1>4, <2>1, FS_Injection
<1>6. \A n \in 1 .. N : e[n] \in places /\ rank[e[n]] = n
    <2> TAKE n \in 1 .. N
    <2>1. \E i \in places : Cardinality({j \in places : j <= i}) = n
        BY <1>5 DEF Surjection
    <2>2. e[n] = CHOOSE i \in places : Cardinality({j \in places : j <= i}) = n
        OBVIOUS
    <2>3. e[n] \in places /\ Cardinality({j \in places : j <= e[n]}) = n
        BY <2>1, <2>2
    <2> QED
        BY <2>3
<1>7. \A n \in 1 .. N : Sublist(s, places)[n] = s[e[n]]
    BY DEF Sublist
<1>8. Sublist(s, places) = [n \in 1 .. N |-> s[e[n]]]
    BY <1>7 DEF Sublist
<1> HIDE DEF e, rank, upto
<1>9. \A n \in 1 .. N : s[e[n]] \in S
    BY <1>6
<1>10. Sublist(s, places) \in [1 .. N -> S]
    BY <1>8, <1>9
<1>11. e \in [1 .. N -> places]
    BY <1>6 DEF e
<1>12. /\ \A m, n \in 1 .. N : e[m] = e[n] => m = n
       /\ \A i \in places : \E n \in 1 .. N : e[n] = i
    <2>1. \A i \in places : rank[i] \in 1 .. N /\ e[rank[i]] = i
        BY <1>2, <1>3, <1>6
    <2> QED
        BY <2>1, <1>6
<1>13. Sublist(s, places) \in Seq(S) /\ Len(Sublist(s, places)) = N
    BY <1>10, <1>1
<1> QED
    BY <1>1, <1>7, <1>10, <1>11, <1>12, <1>13
(* The values of a page's variables; the calls of a panel; and the flags    *)
(* that a call will have lowered when it is over.                           *)
Given == Things \cup {Up}
CallOf(t) == [h : DOMAIN t.rows, it : Given, frees : SUBSET BusyFlags(t), late : BOOLEAN]
HeldBy(t, c) == t.rows[c.h].ends \cup c.frees

Typed(t, p, cs) == cs \in Seq(CallOf(t)) /\ \A v \in DOMAIN p : p[v] \in Given

(* The flags that whoever awaits h has left to it.                          *)
FreesFit(t, h, F) ==
    /\ F # {} => ~Alone(t, h)
    /\ OnlyAwaited(t, h) => \E k \in Awaiting(t, h) : t.rows[k].ends \subseteq F

(* Why the busy flags do what they are for: F are flags of a handler that   *)
(* is about to start another and await it, D what was lowered by others.    *)
Returns(t, p, cs, F) ==
    \A g \in BusyFlags(t) \cap DOMAIN p :
        g \in F \/ \E i \in DOMAIN cs : g \in HeldBy(t, cs[i])
Locks(t) == {g \in BusyFlags(t) : IsLock(t, g)}
LocksUp(t, p, cs, D, F) == \A g \in Locks(t) \ D :
    /\ \A i \in DOMAIN cs : g \in HeldBy(t, cs[i]) =>
          /\ g \in DOMAIN p /\ g \notin F
          /\ \A j \in DOMAIN cs : g \in HeldBy(t, cs[j]) => i = j
    /\ g \in F => g \in DOMAIN p
LatchesUp(t, p, cs) == \A h \in DOMAIN t.rows : \A g \in t.rows[h].sets :
    Latch(t, h, g) => \A i \in DOMAIN cs : cs[i].h = h =>
        g \in DOMAIN p /\ \A j \in DOMAIN cs : cs[j].h = h => i = j
Single(t, cs) == \A i, j \in DOMAIN cs :
    cs[i].h = cs[j].h /\ cs[i].h \in t.rows[cs[i].h].cancels => i = j
AllFit(t, cs) == \A i \in DOMAIN cs : FreesFit(t, cs[i].h, cs[i].frees)
BusySound(t, p, cs, D, F) ==
    /\ Returns(t, p, cs, F) /\ LocksUp(t, p, cs, D, F) /\ LatchesUp(t, p, cs)
    /\ Single(t, cs) /\ AllFit(t, cs)

(* Why what is shown belongs: X are the variables filled by an answer about *)
(* another thing, V flags that are about to be raised.                      *)
Agree(t, cs) == \A i, j \in DOMAIN cs :
    /\ ~cs[i].late /\ ~cs[j].late
    /\ Fills(t.rows[cs[i].h]) \cap Fills(t.rows[cs[j].h]) # {}
    => cs[i].it = cs[j].it
Shown(t, p, cs, X, V) == \A s \in t.shows :
    s[1] \in DOMAIN p \ X =>
        IF Loosely(t, s[2])
        THEN s[2] \in DOMAIN p /\ s[3] \notin DOMAIN p \cup V => p[s[1]] = p[s[2]]
        ELSE /\ s[2] \in DOMAIN p => p[s[1]] = p[s[2]]
             /\ \A i \in DOMAIN cs :
                   ~cs[i].late /\ s[2] \in Fills(t.rows[cs[i].h]) => cs[i].it = p[s[1]]
HidersFree(t, cs) == \A s \in t.shows : Loosely(t, s[2]) =>
    \A i \in DOMAIN cs : s[3] \notin cs[i].frees
ShowSound(t, p, cs, X, V) == Agree(t, cs) /\ Shown(t, p, cs, X, V) /\ HidersFree(t, cs)

Sound(t, p, cs, D, X, F, V) ==
    Typed(t, p, cs) /\ BusySound(t, p, cs, D, F) /\ ShowSound(t, p, cs, X, V)
SoundAt(t, b, D, X, V) ==
    b = [page |-> b.page, calls |-> b.calls] /\ Sound(t, b.page, b.calls, D, X, {}, V)

PagesInv ==
    /\ panel \in DOMAIN PanelOf
    /\ \A t \in {PanelOf[panel]} : Sound(t, page, calls, dropped, crossed, {}, {})

Rules(t) == Linked(t) /\ FlagsReturn(t) /\ CancelsLower(t) /\ OnceIsGuarded(t) /\ ShowsFollow(t)

(* After some calls are removed, and others marked as late.                    *)
Thinned(cs, cs2, removed) ==
    \E e \in [DOMAIN cs2 -> DOMAIN cs \ removed] :
        /\ \A n \in DOMAIN cs2 :
              /\ cs2[n].h = cs[e[n]].h /\ cs2[n].it = cs[e[n]].it
              /\ cs2[n].frees = cs[e[n]].frees
              /\ cs[e[n]].late => cs2[n].late
        /\ \A m, n \in DOMAIN cs2 : e[m] = e[n] => m = n
        /\ \A i \in DOMAIN cs \ removed : \E n \in DOMAIN cs2 : e[n] = i

LEMMA SublistThins ==
    ASSUME NEW t, NEW cs \in Seq(CallOf(t)), NEW removed
    PROVE  /\ Sublist(cs, DOMAIN cs \ removed) \in Seq(CallOf(t))
           /\ Thinned(cs, Sublist(cs, DOMAIN cs \ removed), removed)
<1> DEFINE N == Cardinality(DOMAIN cs \ removed)
           sub == Sublist(cs, DOMAIN cs \ removed)
<1>1. /\ sub \in Seq(CallOf(t)) /\ DOMAIN sub = 1 .. N
      /\ \E e \in [1 .. N -> DOMAIN cs \ removed] :
            /\ \A n \in 1 .. N : sub[n] = cs[e[n]]
            /\ \A m, n \in 1 .. N : e[m] = e[n] => m = n
            /\ \A i \in DOMAIN cs \ removed : \E n \in 1 .. N : e[n] = i
    <2>1. \A places \in SUBSET DOMAIN cs :
             /\ Sublist(cs, places) \in Seq(CallOf(t))
             /\ DOMAIN Sublist(cs, places) = 1 .. Cardinality(places)
             /\ \E e \in [1 .. Cardinality(places) -> places] :
                   /\ \A n \in 1 .. Cardinality(places) : Sublist(cs, places)[n] = cs[e[n]]
                   /\ \A m, n \in 1 .. Cardinality(places) : e[m] = e[n] => m = n
                   /\ \A i \in places : \E n \in 1 .. Cardinality(places) : e[n] = i
        BY SublistIs
    <2>2. DOMAIN cs \ removed \in SUBSET DOMAIN cs
        OBVIOUS
    <2> QED
        BY <2>1, <2>2
<1> HIDE DEF sub, N
<1>2. Thinned(cs, sub, removed)
    <2> PICK e \in [1 .. N -> DOMAIN cs \ removed] :
            /\ \A n \in 1 .. N : sub[n] = cs[e[n]]
            /\ \A m, n \in 1 .. N : e[m] = e[n] => m = n
            /\ \A i \in DOMAIN cs \ removed : \E n \in 1 .. N : e[n] = i
        BY <1>1
    <2>1. e \in [DOMAIN sub -> DOMAIN cs \ removed]
        BY <1>1
    <2>2. /\ \A n \in DOMAIN sub :
                /\ sub[n].h = cs[e[n]].h /\ sub[n].it = cs[e[n]].it
                /\ sub[n].frees = cs[e[n]].frees
                /\ cs[e[n]].late => sub[n].late
          /\ \A m, n \in DOMAIN sub : e[m] = e[n] => m = n
          /\ \A i \in DOMAIN cs \ removed : \E n \in DOMAIN sub : e[n] = i
        BY <1>1
    <2> QED
        BY <2>1, <2>2 DEF Thinned
<1> QED
    BY <1>1, <1>2 DEF sub

LEMMA WithoutThins ==
    ASSUME NEW t, NEW cs \in Seq(CallOf(t)), NEW hs
    PROVE  /\ Without(cs, hs) \in Seq(CallOf(t))
           /\ Thinned(cs, Without(cs, hs), {i \in DOMAIN cs : cs[i].h \in hs})
<1>1. {i \in DOMAIN cs : cs[i].h \notin hs} = DOMAIN cs \ {i \in DOMAIN cs : cs[i].h \in hs}
    OBVIOUS
<1> QED
    BY <1>1, SublistThins DEF Without

LEMMA OutdatedThins ==
    ASSUME NEW t, NEW cs, NEW cs2 \in Seq(CallOf(t)), NEW removed, NEW h, NEW x,
           Thinned(cs, cs2, removed)
    PROVE  /\ Outdated(t, cs2, h, x) \in Seq(CallOf(t))
           /\ DOMAIN Outdated(t, cs2, h, x) = DOMAIN cs2
           /\ Thinned(cs, Outdated(t, cs2, h, x), removed)
           /\ \A i \in DOMAIN cs2 :
                 LET c == Outdated(t, cs2, h, x)[i] IN
                 ~c.late => c.it = x \/ Fills(t.rows[h]) \cap Fills(t.rows[c.h]) = {}
<1> DEFINE o == Outdated(t, cs2, h, x)
<1>1. DOMAIN o = DOMAIN cs2
    BY DEF Outdated
<1>2. \A i \in DOMAIN cs2 :
         \/ o[i] = [cs2[i] EXCEPT !.late = TRUE]
         \/ /\ o[i] = cs2[i]
            /\ cs2[i].it = x \/ Fills(t.rows[h]) \cap Fills(t.rows[cs2[i].h]) = {}
    BY DEF Outdated
<1>3. \A i \in DOMAIN cs2 :
         /\ o[i] \in CallOf(t)
         /\ o[i].h = cs2[i].h /\ o[i].it = cs2[i].it /\ o[i].frees = cs2[i].frees
         /\ cs2[i].late => o[i].late
         /\ ~o[i].late => cs2[i].it = x \/ Fills(t.rows[h]) \cap Fills(t.rows[cs2[i].h]) = {}
    <2>1. \A i \in DOMAIN cs2 : cs2[i] \in CallOf(t)
        OBVIOUS
    <2> QED
        BY <1>2, <2>1 DEF CallOf
<1>4. o \in Seq(CallOf(t))
    BY <1>1, <1>3 DEF Outdated
<1>5. Thinned(cs, o, removed)
    BY <1>1, <1>3 DEF Thinned
<1> QED
    BY <1>1, <1>3, <1>4, <1>5

LEMMA AllThins ==
    ASSUME NEW cs
    PROVE  Thinned(cs, cs, {})
<1> DEFINE e == [n \in DOMAIN cs |-> n]
<1>1. e \in [DOMAIN cs -> DOMAIN cs \ {}]
    OBVIOUS
<1> QED
    BY <1>1 DEF Thinned

(* What keeps the busy flags sound when calls go and flags fall: the flags  *)
(* of a call that goes are down, or left to another handler (F2); a lock    *)
(* that a remaining call holds is up, or lowered on the record (D2).        *)
Settles(t, p, cs, D, F, removed, p2, D2, F2) ==
    /\ removed \subseteq DOMAIN cs /\ D \subseteq D2
    /\ \A g \in BusyFlags(t) \cap DOMAIN p2 :
          \/ g \in F2
          \/ g \in DOMAIN p /\ g \notin F /\ \A i \in removed : g \notin HeldBy(t, cs[i])
    /\ \A g \in Locks(t) \ D2 :
          /\ \A i \in DOMAIN cs \ removed : g \in HeldBy(t, cs[i]) => g \in DOMAIN p2 \ F2
          /\ g \in F2 => g \in DOMAIN p2
    /\ \A h \in DOMAIN t.rows : \A g \in t.rows[h].sets :
          Latch(t, h, g) /\ (\E i \in DOMAIN cs \ removed : cs[i].h = h) /\ g \in DOMAIN p
          => g \in DOMAIN p2

LEMMA BusyThin ==
    ASSUME NEW t, NEW p, NEW cs \in Seq(CallOf(t)), NEW D, NEW F, BusySound(t, p, cs, D, F),
           NEW p2, NEW cs2 \in Seq(CallOf(t)), NEW D2, NEW F2, NEW removed, Thinned(cs, cs2, removed),
           Settles(t, p, cs, D, F, removed, p2, D2, F2)
    PROVE  BusySound(t, p2, cs2, D2, F2)
<1> USE DEF Settles
<1> PICK e \in [DOMAIN cs2 -> DOMAIN cs \ removed] :
        /\ \A n \in DOMAIN cs2 :
              /\ cs2[n].h = cs[e[n]].h /\ cs2[n].it = cs[e[n]].it
              /\ cs2[n].frees = cs[e[n]].frees
              /\ cs[e[n]].late => cs2[n].late
        /\ \A m, n \in DOMAIN cs2 : e[m] = e[n] => m = n
        /\ \A i \in DOMAIN cs \ removed : \E n \in DOMAIN cs2 : e[n] = i
    BY DEF Thinned
<1>1. \A n \in DOMAIN cs2 :
         /\ e[n] \in DOMAIN cs \ removed /\ cs2[n].h = cs[e[n]].h /\ cs2[n].frees = cs[e[n]].frees
         /\ HeldBy(t, cs2[n]) = HeldBy(t, cs[e[n]])
    BY DEF HeldBy
<1>2. Returns(t, p2, cs2, F2)
    <2> SUFFICES ASSUME NEW g \in BusyFlags(t) \cap DOMAIN p2, g \notin F2
                 PROVE  \E n \in DOMAIN cs2 : g \in HeldBy(t, cs2[n])
        BY DEF Returns
    <2>1. PICK i \in DOMAIN cs : g \in HeldBy(t, cs[i])
        BY DEF BusySound, Returns
    <2>2. i \notin removed
        BY <2>1
    <2> QED
        BY <1>1, <2>1, <2>2
<1>3. LocksUp(t, p2, cs2, D2, F2)
    <2> SUFFICES ASSUME NEW g \in Locks(t) \ D2
                 PROVE  \A n \in DOMAIN cs2 : g \in HeldBy(t, cs2[n]) =>
                            /\ g \in DOMAIN p2 /\ g \notin F2
                            /\ \A m \in DOMAIN cs2 : g \in HeldBy(t, cs2[m]) => n = m
        BY DEF LocksUp
    <2>1. \A i, j \in DOMAIN cs : g \in HeldBy(t, cs[i]) /\ g \in HeldBy(t, cs[j]) => i = j
        BY DEF BusySound, LocksUp
    <2> QED
        BY <1>1, <2>1
<1>4. LatchesUp(t, p2, cs2)
    <2> SUFFICES ASSUME NEW h \in DOMAIN t.rows, NEW g \in t.rows[h].sets, Latch(t, h, g),
                        NEW n \in DOMAIN cs2, cs2[n].h = h
                 PROVE  g \in DOMAIN p2 /\ \A m \in DOMAIN cs2 : cs2[m].h = h => n = m
        BY DEF LatchesUp
    <2>1. g \in DOMAIN p /\ \A j \in DOMAIN cs : cs[j].h = h => e[n] = j
        BY <1>1 DEF BusySound, LatchesUp
    <2> QED
        BY <1>1, <2>1
<1>5. Single(t, cs2)
    BY <1>1 DEF BusySound, Single
<1>6. AllFit(t, cs2)
    BY <1>1 DEF BusySound, AllFit
<1> QED
    BY <1>2, <1>3, <1>4, <1>5, <1>6 DEF BusySound

LEMMA BusyPage ==
    ASSUME NEW t, NEW p, NEW cs \in Seq(CallOf(t)), NEW D, NEW F, BusySound(t, p, cs, D, F), NEW p2,
           \A g \in BusyFlags(t) \cap DOMAIN p2 : g \in DOMAIN p /\ g \notin F,
           \A g \in Locks(t) \ D : \A i \in DOMAIN cs : g \in HeldBy(t, cs[i]) => g \in DOMAIN p2,
           \A h \in DOMAIN t.rows : \A g \in t.rows[h].sets :
               Latch(t, h, g) /\ g \in DOMAIN p => g \in DOMAIN p2
    PROVE  BusySound(t, p2, cs, D, {})
<1>1. Thinned(cs, cs, {}) /\ {} \in SUBSET DOMAIN cs /\ D \subseteq D
    BY AllThins
<1>2. Settles(t, p, cs, D, F, {}, p2, D, {})
    BY DEF Settles
<1> QED
    BY <1>1, <1>2, BusyThin

(* A new call takes over the flags that were left to it.                    *)
LEMMA BusyAppend ==
    ASSUME NEW t, NEW p, NEW cs \in Seq(CallOf(t)), NEW D, NEW c \in CallOf(t),
           BusySound(t, p, cs, D, HeldBy(t, c)), FreesFit(t, c.h, c.frees),
           \A g \in t.rows[c.h].sets :
               Latch(t, c.h, g) => g \in DOMAIN p /\ \A i \in DOMAIN cs : cs[i].h # c.h,
           c.h \in t.rows[c.h].cancels => \A i \in DOMAIN cs : cs[i].h # c.h
    PROVE  BusySound(t, p, Append(cs, c), D, {})
<1> DEFINE cs2 == Append(cs, c)
           last == Len(cs) + 1
<1>1. /\ DOMAIN cs2 = DOMAIN cs \cup {last} /\ last \notin DOMAIN cs
      /\ \A i \in DOMAIN cs : cs2[i] = cs[i]
      /\ cs2[last] = c
    OBVIOUS
<1> HIDE DEF cs2, last
<1>2. Returns(t, p, cs2, {})
    BY <1>1 DEF BusySound, Returns
<1>3. LocksUp(t, p, cs2, D, {})
    BY <1>1 DEF BusySound, LocksUp
<1>4. LatchesUp(t, p, cs2)
    BY <1>1 DEF BusySound, LatchesUp, Latch
<1>5. Single(t, cs2)
    BY <1>1 DEF BusySound, Single
<1>6. AllFit(t, cs2)
    BY <1>1 DEF BusySound, AllFit
<1> QED
    BY <1>2, <1>3, <1>4, <1>5, <1>6 DEF BusySound, cs2

LEMMA AgreeThin ==
    ASSUME NEW t, NEW cs, NEW cs2, NEW removed, Thinned(cs, cs2, removed),
           cs \in Seq(CallOf(t)), cs2 \in Seq(CallOf(t)), Agree(t, cs), HidersFree(t, cs)
    PROVE  Agree(t, cs2) /\ HidersFree(t, cs2)
<1> PICK e \in [DOMAIN cs2 -> DOMAIN cs \ removed] :
        \A n \in DOMAIN cs2 :
              /\ cs2[n].h = cs[e[n]].h /\ cs2[n].it = cs[e[n]].it
              /\ cs2[n].frees = cs[e[n]].frees
              /\ cs[e[n]].late => cs2[n].late
    BY DEF Thinned
<1>1. \A n \in DOMAIN cs2 : e[n] \in DOMAIN cs
    OBVIOUS
<1>2. Agree(t, cs2)
    <2> SUFFICES ASSUME NEW i \in DOMAIN cs2, NEW j \in DOMAIN cs2, ~cs2[i].late, ~cs2[j].late,
                        Fills(t.rows[cs2[i].h]) \cap Fills(t.rows[cs2[j].h]) # {}
                 PROVE  cs2[i].it = cs2[j].it
        BY DEF Agree
    <2>1. ~cs[e[i]].late /\ ~cs[e[j]].late
        OBVIOUS
    <2>2. Fills(t.rows[cs[e[i]].h]) \cap Fills(t.rows[cs[e[j]].h]) # {}
        OBVIOUS
    <2>3. cs[e[i]].it = cs[e[j]].it
        BY <1>1, <2>1, <2>2 DEF Agree
    <2> QED
        BY <2>3
<1>3. HidersFree(t, cs2)
    BY <1>1 DEF HidersFree
<1> QED
    BY <1>2, <1>3

LEMMA ShownThin ==
    ASSUME NEW t, NEW p, NEW cs, NEW cs2, NEW X, NEW V, NEW removed, Thinned(cs, cs2, removed),
           cs \in Seq(CallOf(t)), cs2 \in Seq(CallOf(t)), Shown(t, p, cs, X, V)
    PROVE  Shown(t, p, cs2, X, V)
<1> PICK e \in [DOMAIN cs2 -> DOMAIN cs \ removed] :
        \A n \in DOMAIN cs2 :
              /\ cs2[n].h = cs[e[n]].h /\ cs2[n].it = cs[e[n]].it
              /\ cs2[n].frees = cs[e[n]].frees
              /\ cs[e[n]].late => cs2[n].late
    BY DEF Thinned
<1>1. \A n \in DOMAIN cs2 : e[n] \in DOMAIN cs
    OBVIOUS
<1> QED
    BY <1>1 DEF Shown

LEMMA AssignIs ==
    ASSUME NEW p, NEW cl, NEW se, NEW ta, NEW x
    PROVE  /\ DOMAIN Assign(p, cl, se, ta, x) = (DOMAIN p \ cl) \cup se \cup ta
           /\ \A v \in DOMAIN Assign(p, cl, se, ta, x) :
                 Assign(p, cl, se, ta, x)[v] =
                     IF v \in ta THEN x ELSE IF v \in se THEN Up ELSE p[v]
    BY DEF Assign

LEMMA EffectsIs ==
    ASSUME NEW row, NEW o \in DOMAIN row.after
    PROVE  row.after[o] \in Effects(row) /\ row.after[o].takes \subseteq Fills(row)
    BY DEF Effects, Fills

(* h may begin with the flags F left to it: it is started by another, or is *)
(* the first on an empty page, or is clicked where the markup offers it.    *)
ClickedHere(t, p, cs, D, h) ==
    /\ h \in DOMAIN t.offers
    /\ \E offer \in t.offers[h] : \A v \in offer.off : v \notin DOMAIN p
    /\ \A g \in Locks(t) \ D : g \in Lowered(t.rows[h]) =>
           \A i \in DOMAIN cs : g \notin HeldBy(t, cs[i])
MayBegin(t, p, cs, D, F, h) ==
    /\ h \in DOMAIN t.rows /\ F \subseteq BusyFlags(t) /\ FreesFit(t, h, F)
    /\ \A s \in t.shows : Loosely(t, s[2]) => s[3] \notin F
    /\ \/ Started(t, h)
       \/ DOMAIN p = {} /\ cs = <<>>
       \/ t.rows[h].kind # "local" /\ ClickedHere(t, p, cs, D, h)

(* A handler that holds a lock finds it down, and one that may begin lowers *)
(* no lock that is held.                                                    *)
LEMMA BarredIsDown ==
    ASSUME NEW t, NEW p, NEW cs, NEW D, NEW h, NEW x, Allowed(p, t.rows[h], x), NEW g, Barred(t, h, g),
           Started(t, h) \/ DOMAIN p = {} \/ ClickedHere(t, p, cs, D, h)
    PROVE  g \notin DOMAIN p
    BY DEF Barred, Allowed, Up_, ClickedHere

LEMMA StartedLowersNoLock ==
    ASSUME NEW t, NEW h \in DOMAIN t.rows, Started(t, h), NEW g \in Locks(t)
    PROVE  g \notin Lowered(t.rows[h])
    BY DEF Locks, IsLock

LEMMA CancelledHoldNothing ==
    ASSUME NEW t, NEW cs \in Seq(CallOf(t)), AllFit(t, cs),
           NEW i \in DOMAIN cs, Alone(t, cs[i].h), t.rows[cs[i].h].ends = {}
    PROVE  HeldBy(t, cs[i]) = {}
    BY DEF AllFit, FreesFit, HeldBy

LEMMA AboutIs ==
    ASSUME ThingsAssumption, NEW p, \A v \in DOMAIN p : p[v] \in Given, NEW row, NEW x \in Given,
           Allowed(p, row, x)
    PROVE  About(p, row, x) \in Given
    BY DEF ThingsAssumption, About, Allowed, At, Up_, Given

LEMMA BeginTyped ==
    ASSUME ThingsAssumption, NEW t, NEW p, NEW cs, NEW h \in DOMAIN t.rows, NEW x \in Given,
           NEW F \in SUBSET BusyFlags(t), Typed(t, p, cs)
    PROVE  LET b == Begin(t, [page |-> p, calls |-> cs], h, x, F) IN
           Typed(t, b.page, b.calls) /\ b = [page |-> b.page, calls |-> b.calls]
<1> DEFINE row == t.rows[h]
           it == About(p, row, x)
           b == Begin(t, [page |-> p, calls |-> cs], h, x, F)
           c == [h |-> h, it |-> it, frees |-> F, late |-> FALSE]
           left == Outdated(t, Without(cs, row.cancels), h, it)
<1>1. CASE ~Allowed(p, row, x)
    <2>1. b = [page |-> Assign(p, F, {}, {}, No), calls |-> cs]
        BY <1>1 DEF Begin
    <2> QED
        BY <2>1 DEF Typed, Assign
<1>2. CASE Allowed(p, row, x)
    <2>1. it \in Given
        BY <1>2, AboutIs DEF Typed
    <2>2. left \in Seq(CallOf(t))
        BY WithoutThins, OutdatedThins DEF Typed
    <2>3. c \in CallOf(t)
        BY <2>1 DEF CallOf
    <2>4. \A v \in DOMAIN Assign(p, row.clears, row.sets, row.takes, it) :
              Assign(p, row.clears, row.sets, row.takes, it)[v] \in Given
        BY <2>1 DEF Typed, Given, Assign
    <2>5. b = [page  |-> Assign(p, row.clears, row.sets, row.takes, it),
               calls |-> IF row.kind = "local" THEN cs ELSE Append(left, c)]
        BY <1>2 DEF Begin
    <2>6. Append(left, c) \in Seq(CallOf(t))
        BY <2>2, <2>3
    <2> HIDE DEF left, c, b, row, it
    <2> QED
        BY <2>4, <2>5, <2>6 DEF Typed, b
<1> QED
    BY <1>1, <1>2

LEMMA BeginBusy ==
    ASSUME ThingsAssumption, NEW t, Rules(t), NEW p, NEW cs, NEW D, NEW F, NEW h, NEW x \in Given,
           Typed(t, p, cs), BusySound(t, p, cs, D, F), MayBegin(t, p, cs, D, F, h)
    PROVE  LET b == Begin(t, [page |-> p, calls |-> cs], h, x, F) IN
           BusySound(t, b.page, b.calls, D, {})
<1> DEFINE row == t.rows[h]
           it == About(p, row, x)
           b == Begin(t, [page |-> p, calls |-> cs], h, x, F)
           c == [h |-> h, it |-> it, frees |-> F, late |-> FALSE]
           kept == Without(cs, row.cancels)
           left == Outdated(t, kept, h, it)
           p2 == Assign(p, row.clears, row.sets, row.takes, it)
<1> USE DEF MayBegin
<1>1. cs \in Seq(CallOf(t)) /\ AllFit(t, cs) /\ Thinned(cs, cs, {}) /\ h \in DOMAIN t.rows
    BY AllThins DEF Typed, BusySound
<1>2. /\ \A g \in BusyFlags(t) \cap DOMAIN p : g \in F \/ \E i \in DOMAIN cs : g \in HeldBy(t, cs[i])
      /\ \A g \in Locks(t) \ D :
            /\ \A i \in DOMAIN cs : g \in HeldBy(t, cs[i]) => g \in DOMAIN p /\ g \notin F
            /\ g \in F => g \in DOMAIN p
      /\ \A k \in DOMAIN t.rows : \A g \in t.rows[k].sets :
            Latch(t, k, g) => \A i \in DOMAIN cs : cs[i].h = k => g \in DOMAIN p
    BY DEF BusySound, Returns, LocksUp, LatchesUp
<1>3. F # {} => Awaiting(t, h) # {} /\ Started(t, h) /\ row.kind # "local"
    BY <1>1 DEF FreesFit, Alone, Started, Rules, FlagsReturn
<1>4. /\ Raised(row) \cap BusyFlags(t) \subseteq (IF row.kind = "local" THEN {} ELSE row.ends)
      /\ row.ends \subseteq BusyFlags(t)
    BY <1>1 DEF Rules, FlagsReturn, BusyFlags
<1>5. \A k \in DOMAIN t.rows : \A g \in t.rows[k].sets :
          Latch(t, k, g) => g \notin BusyFlags(t) /\ g \notin row.clears
    BY <1>1 DEF Latch
<1>6. DOMAIN p2 = (DOMAIN p \ row.clears) \cup Raised(row)
    BY DEF Assign, Raised
<1>7. ASSUME NEW g \in Locks(t) \ D, NEW i \in DOMAIN cs, g \in HeldBy(t, cs[i])
      PROVE  row.kind # "local" \/ Started(t, h) => g \notin Lowered(row)
    <2>1. CASE Started(t, h)
        BY <2>1, <1>1, StartedLowersNoLock
    <2>2. CASE cs = <<>>
        BY <2>2
    <2>3. CASE ClickedHere(t, p, cs, D, h)
        BY <2>3, <1>7 DEF ClickedHere
    <2> QED
        BY <2>1, <2>2, <2>3
<1>8. CASE ~Allowed(p, row, x)
    <2> DEFINE q == Assign(p, F, {}, {}, No)
    <2>1. b = [page |-> q, calls |-> cs]
        BY <1>8 DEF Begin
    <2>2. DOMAIN q = DOMAIN p \ F
        BY DEF Assign
    <2> HIDE DEF q
    <2>3. \A k \in DOMAIN t.rows : \A g \in t.rows[k].sets :
              Latch(t, k, g) /\ g \in DOMAIN p => g \in DOMAIN q
        BY <1>5, <2>2
    <2>4. \A g \in Locks(t) \ D : \A i \in DOMAIN cs : g \in HeldBy(t, cs[i]) => g \in DOMAIN q
        BY <1>2, <2>2
    <2>5. BusySound(t, q, cs, D, {})
        BY <1>1, <2>2, <2>3, <2>4, BusyPage
    <2> QED
        BY <2>1, <2>5
<1>9. CASE Allowed(p, row, x) /\ row.kind = "local"
    <2>1. b = [page |-> p2, calls |-> cs]
        BY <1>9 DEF Begin
    <2>2. F = {}
        BY <1>3, <1>9
    <2> HIDE DEF p2
    <2>3. \A k \in DOMAIN t.rows : \A g \in t.rows[k].sets :
              Latch(t, k, g) /\ g \in DOMAIN p => g \in DOMAIN p2
        BY <1>5, <1>6
    <2>4. \A g \in Locks(t) \ D : \A i \in DOMAIN cs : g \in HeldBy(t, cs[i]) => g \in DOMAIN p2
        BY <1>2, <1>6, <1>7, <1>9 DEF Lowered
    <2>5. \A g \in BusyFlags(t) \cap DOMAIN p2 : g \in DOMAIN p
        BY <1>4, <1>6, <1>9
    <2>6. BusySound(t, p2, cs, D, {})
        BY <1>1, <2>2, <2>3, <2>4, <2>5, BusyPage
    <2> QED
        BY <2>1, <2>6
<1>10. CASE Allowed(p, row, x) /\ row.kind # "local"
    <2> DEFINE removed == {i \in DOMAIN cs : cs[i].h \in row.cancels}
               F2 == row.ends \cup F
    <2>1. b = [page |-> p2, calls |-> Append(left, c)]
        BY <1>10 DEF Begin
    <2>2. left \in Seq(CallOf(t)) /\ Thinned(cs, left, removed)
        <3>1. kept \in Seq(CallOf(t)) /\ Thinned(cs, kept, removed)
            BY <1>1, WithoutThins
        <3> HIDE DEF kept, removed, MayBegin
        <3> QED
            BY <3>1, OutdatedThins
    <2>3. c \in CallOf(t) /\ HeldBy(t, c) = F2 /\ c.h = h /\ c.frees = F
        BY <1>1, <1>10, AboutIs DEF CallOf, HeldBy, Typed
    <2>4. \A g : Barred(t, h, g) => g \notin DOMAIN p
        BY <1>10, BarredIsDown
    <2>5. \A i \in removed : HeldBy(t, cs[i]) = {}
        <3> TAKE i \in removed
        <3>1. cs[i].h \in row.cancels \cap DOMAIN t.rows
            <4>1. cs[i] \in CallOf(t)
                BY <1>1
            <4> QED
                BY <4>1 DEF CallOf
        <3>2. Alone(t, cs[i].h) /\ t.rows[cs[i].h].ends = {}
            BY <1>1, <1>10, <3>1 DEF Rules, CancelsLower
        <3> QED
            BY <1>1, <3>2, CancelledHoldNothing
    <2> HIDE DEF p2, left, c
    <2>6. \A k \in DOMAIN t.rows : \A g \in t.rows[k].sets :
              Latch(t, k, g) /\ g \in DOMAIN p => g \in DOMAIN p2
        BY <1>5, <1>6
    <2>7. ASSUME NEW g \in Locks(t) \ D
          PROVE  /\ \A i \in DOMAIN cs : g \in HeldBy(t, cs[i]) => g \in DOMAIN p2 \ F2
                 /\ g \in F2 => g \in DOMAIN p2
        <3>1. g \in row.ends => g \in Raised(row) /\ Barred(t, h, g)
            BY <1>1 DEF Locks, IsLock
        <3>2. \A i \in DOMAIN cs : g \in HeldBy(t, cs[i]) => g \in DOMAIN p2 \ F2
            BY <1>2, <1>6, <1>7, <1>10, <2>4, <3>1 DEF Lowered
        <3>3. g \in F => g \notin Lowered(row)
            BY <1>1, <1>3, StartedLowersNoLock
        <3> QED
            BY <1>2, <1>6, <3>1, <3>2, <3>3 DEF Lowered
    <2>8. \A g \in BusyFlags(t) \cap DOMAIN p2 :
              \/ g \in F2
              \/ g \in DOMAIN p /\ g \notin F /\ \A i \in removed : g \notin HeldBy(t, cs[i])
        <3> TAKE g \in BusyFlags(t) \cap DOMAIN p2
        <3>1. g \in Raised(row) => g \in F2
            BY <1>4, <1>10
        <3>2. g \notin Raised(row) => g \in DOMAIN p
            BY <1>6
        <3>3. \A i \in removed : g \notin HeldBy(t, cs[i])
            BY <2>5
        <3> HIDE DEF removed, MayBegin
        <3> QED
            BY <3>1, <3>2, <3>3
    <2>9. BusySound(t, p2, left, D, F2)
        <3>1. removed \in SUBSET DOMAIN cs
            OBVIOUS
        <3> HIDE DEF removed, F2, MayBegin
        <3>2. Settles(t, p, cs, D, F, removed, p2, D, F2)
            BY <2>6, <2>7, <2>8, <3>1 DEF Settles
        <3> QED
            BY <1>1, <2>2, <3>2, BusyThin
    <2>10. \A n \in DOMAIN left : \E i \in DOMAIN cs \ removed : left[n].h = cs[i].h
        BY <2>2 DEF Thinned
    <2>11. ASSUME NEW g \in t.rows[h].sets, Latch(t, h, g)
           PROVE  g \in DOMAIN p2 /\ \A n \in DOMAIN left : left[n].h # h
        BY <1>1, <1>2, <1>6, <2>4, <2>10, <2>11 DEF Latch, Raised
    <2>12. h \in row.cancels => \A n \in DOMAIN left : left[n].h # h
        BY <2>10
    <2>13. BusySound(t, p2, Append(left, c), D, {})
        BY <2>2, <2>3, <2>9, <2>11, <2>12, BusyAppend
    <2> DEFINE longer == Append(left, c)
    <2>14. b = [page |-> p2, calls |-> longer] /\ BusySound(t, p2, longer, D, {})
        BY <2>1, <2>13
    <2> HIDE DEF MayBegin, longer
    <2> QED
        BY <2>14
<1> QED
    BY <1>8, <1>9, <1>10

(* A new call keeps what is shown, when its flags hide nothing and all that *)
(* it will fill is down.                                                    *)
LEMMA ShownAppend ==
    ASSUME NEW t, NEW p, NEW cs \in Seq(CallOf(t)), NEW X, NEW V, NEW c \in CallOf(t),
           Agree(t, cs), HidersFree(t, cs), Shown(t, p, cs, X, V),
           \A i \in DOMAIN cs : ~cs[i].late =>
               cs[i].it = c.it \/ Fills(t.rows[c.h]) \cap Fills(t.rows[cs[i].h]) = {},
           \A s \in t.shows :
               IF Loosely(t, s[2]) THEN s[3] \notin c.frees
               ELSE s[2] \in Fills(t.rows[c.h]) => s[1] \notin DOMAIN p
    PROVE  ShowSound(t, p, Append(cs, c), X, V)
<1> DEFINE cs2 == Append(cs, c)
           last == Len(cs) + 1
<1>1. /\ DOMAIN cs2 = DOMAIN cs \cup {last} /\ last \notin DOMAIN cs
      /\ \A i \in DOMAIN cs : cs2[i] = cs[i]
      /\ cs2[last] = c
    OBVIOUS
<1> HIDE DEF cs2, last
<1>2. Agree(t, cs2)
    <2> SUFFICES ASSUME NEW i \in DOMAIN cs2, NEW j \in DOMAIN cs2, ~cs2[i].late, ~cs2[j].late,
                        Fills(t.rows[cs2[i].h]) \cap Fills(t.rows[cs2[j].h]) # {}
                 PROVE  cs2[i].it = cs2[j].it
        BY DEF Agree
    <2>1. CASE i \in DOMAIN cs /\ j \in DOMAIN cs
        BY <1>1, <2>1 DEF Agree
    <2>2. CASE i \in DOMAIN cs /\ j = last
        BY <1>1, <2>2
    <2>3. CASE i = last /\ j \in DOMAIN cs
        BY <1>1, <2>3
    <2> QED
        BY <1>1, <2>1, <2>2, <2>3
<1>3. HidersFree(t, cs2)
    BY <1>1 DEF HidersFree
<1>4. Shown(t, p, cs2, X, V)
    BY <1>1 DEF Shown
<1> QED
    BY <1>2, <1>3, <1>4 DEF ShowSound, cs2

(* What a handler writes when it begins keeps what is shown.                *)
LEMMA RaisedKeepsShown ==
    ASSUME NEW t, Rules(t), NEW p, NEW cs, NEW D, NEW F, NEW h, NEW it, NEW X, NEW V,
           Shown(t, p, cs, X, V), MayBegin(t, p, cs, D, F, h)
    PROVE  LET row == t.rows[h] IN
           Shown(t, Assign(p, row.clears, row.sets, row.takes, it), cs, X, V)
<1> DEFINE row == t.rows[h]
           p2 == Assign(p, row.clears, row.sets, row.takes, it)
<1>1. DOMAIN p2 = (DOMAIN p \ Lowered(row)) \cup Raised(row)
    BY DEF Assign, Raised, Lowered
<1>2. \A v \in DOMAIN p2 : p2[v] = IF v \in row.takes THEN it ELSE IF v \in row.sets THEN Up ELSE p[v]
    BY DEF Assign
<1>3. h \in DOMAIN t.rows
    BY DEF MayBegin
<1>4. \/ Started(t, h)
      \/ DOMAIN p = {} /\ cs = <<>>
      \/ row.kind # "local" /\ h \in DOMAIN t.offers
    BY DEF MayBegin, ClickedHere
<1> HIDE DEF p2
<1> SUFFICES ASSUME NEW s \in t.shows, s[1] \in DOMAIN p2 \ X
             PROVE  IF Loosely(t, s[2])
                    THEN s[2] \in DOMAIN p2 /\ s[3] \notin DOMAIN p2 \cup V => p2[s[1]] = p2[s[2]]
                    ELSE /\ s[2] \in DOMAIN p2 => p2[s[1]] = p2[s[2]]
                         /\ \A i \in DOMAIN cs :
                               ~cs[i].late /\ s[2] \in Fills(t.rows[cs[i].h]) => cs[i].it = p2[s[1]]
    BY DEF Shown, p2
<1> DEFINE d == s[1]
           k == s[2]
           l == s[3]
<1>5. /\ d \notin row.sets
      /\ d \in row.takes /\ ~Live(t, h) => k \notin row.sets
      /\ d \in row.takes /\ Live(t, h) => row.kind = "local" /\ ~Started(t, h) /\ k \notin Raised(row)
    BY <1>3 DEF Rules, ShowsFollow, ShownIsReplaced
<1>6. CASE d \in row.takes
    <2>1. DOMAIN p = {} /\ cs = <<>>
        BY <1>4, <1>5, <1>6 DEF Live
    <2>2. k \in DOMAIN p2 => k \in row.takes
        BY <1>1, <1>5, <1>6, <2>1 DEF Raised
    <2> QED
        BY <1>2, <1>6, <2>1, <2>2
<1>7. CASE d \notin row.takes
    <2>1. d \in DOMAIN p \ X /\ d \notin Lowered(row) /\ p2[d] = p[d]
        BY <1>1, <1>2, <1>5, <1>7 DEF Raised
    <2>2. Live(t, h)
        BY <1>4, <2>1 DEF Live
    <2>3. Loosely(t, k) => Hidden(t, d, k, l)
        BY DEF Rules, ShowsFollow
    <2>4. k \notin Raised(row)
        <3>1. CASE Loosely(t, k)
            <4>1. k \in Raised(row) => d \in Lowered(row) \/ Hides(t, h, l)
                BY <1>3, <2>2, <2>3, <3>1 DEF Hidden
            <4>2. ~Hides(t, h, l)
                BY <1>4, <2>1 DEF Hides
            <4> QED
                BY <2>1, <4>1, <4>2
        <3>2. CASE ~Loosely(t, k)
            BY <1>3, <2>1, <2>2, <3>2 DEF Loosely
        <3> QED
            BY <3>1, <3>2
    <2>5. k \in DOMAIN p2 => k \in DOMAIN p /\ k \notin Lowered(row) /\ p2[k] = p[k]
        BY <1>1, <1>2, <2>4 DEF Raised, Lowered
    <2>6. CASE Loosely(t, k)
        <3>1. l \in Lowered(row) => {d, k} \cap Lowered(row) # {}
            BY <1>3, <2>3, <2>6 DEF Hidden
        <3>2. k \in DOMAIN p2 /\ l \notin DOMAIN p2 => l \notin DOMAIN p
            BY <1>1, <2>1, <2>5, <3>1
        <3>3. k \in DOMAIN p /\ l \notin DOMAIN p \cup V => p[d] = p[k]
            BY <2>1, <2>6 DEF Shown
        <3> QED
            BY <2>1, <2>5, <2>6, <3>2, <3>3
    <2>7. CASE ~Loosely(t, k)
        BY <2>1, <2>5, <2>7 DEF Shown
    <2> QED
        BY <2>6, <2>7
<1> QED
    BY <1>6, <1>7

LEMMA BeginShown ==
    ASSUME ThingsAssumption, NEW t, Rules(t), NEW p, NEW cs, NEW D, NEW F, NEW h, NEW x \in Given,
           NEW X, NEW V, Typed(t, p, cs), ShowSound(t, p, cs, X, V), MayBegin(t, p, cs, D, F, h)
    PROVE  LET b == Begin(t, [page |-> p, calls |-> cs], h, x, F) IN
           ShowSound(t, b.page, b.calls, X, V)
<1> DEFINE row == t.rows[h]
           it == About(p, row, x)
           b == Begin(t, [page |-> p, calls |-> cs], h, x, F)
           c == [h |-> h, it |-> it, frees |-> F, late |-> FALSE]
           kept == Without(cs, row.cancels)
           left == Outdated(t, kept, h, it)
           p2 == Assign(p, row.clears, row.sets, row.takes, it)
           removed == {i \in DOMAIN cs : cs[i].h \in row.cancels}
<1>1. /\ cs \in Seq(CallOf(t)) /\ h \in DOMAIN t.rows /\ F \subseteq BusyFlags(t)
      /\ \A s \in t.shows : Loosely(t, s[2]) => s[3] \notin F
    BY DEF Typed, MayBegin
<1>2. CASE ~Allowed(p, row, x)
    <2> DEFINE q == Assign(p, F, {}, {}, No)
    <2>1. b = [page |-> q, calls |-> cs]
        BY <1>2 DEF Begin
    <2>2. DOMAIN q = DOMAIN p \ F /\ \A v \in DOMAIN q : q[v] = p[v]
        BY DEF Assign
    <2> HIDE DEF q
    <2>3. Shown(t, q, cs, X, V)
        BY <1>1, <2>2 DEF ShowSound, Shown
    <2>4. ShowSound(t, q, cs, X, V)
        BY <2>3 DEF ShowSound
    <2> QED
        BY <2>1, <2>4
<1>3. CASE Allowed(p, row, x)
    <2>1. Shown(t, p2, cs, X, V)
        BY RaisedKeepsShown DEF ShowSound
    <2>2. CASE row.kind = "local"
        <3>1. b = [page |-> p2, calls |-> cs]
            BY <1>3, <2>2 DEF Begin
        <3>2. ShowSound(t, p2, cs, X, V)
            BY <2>1 DEF ShowSound
        <3> HIDE DEF p2
        <3> QED
            BY <3>1, <3>2
    <2>3. CASE row.kind # "local"
        <3> DEFINE longer == Append(left, c)
        <3>1. b = [page |-> p2, calls |-> longer]
            BY <1>3, <2>3 DEF Begin
        <3>2. kept \in Seq(CallOf(t)) /\ Thinned(cs, kept, removed)
            BY <1>1, WithoutThins
        <3>3. /\ left \in Seq(CallOf(t)) /\ Thinned(cs, left, removed) /\ DOMAIN left = DOMAIN kept
              /\ \A i \in DOMAIN kept : ~left[i].late =>
                    left[i].it = it \/ Fills(row) \cap Fills(t.rows[left[i].h]) = {}
            <4> HIDE DEF kept, removed, it
            <4>1. left \in Seq(CallOf(t)) /\ Thinned(cs, left, removed)
                BY <3>2, OutdatedThins
            <4>3. DOMAIN left = DOMAIN kept
                BY DEF Outdated
            <4>2. \A i \in DOMAIN kept :
                      ~Outdated(t, kept, h, it)[i].late =>
                          \/ Outdated(t, kept, h, it)[i].it = it
                          \/ Fills(t.rows[h]) \cap Fills(t.rows[Outdated(t, kept, h, it)[i].h]) = {}
                BY <3>2, OutdatedThins
            <4> QED
                BY <4>1, <4>2, <4>3
        <3>4. c \in CallOf(t) /\ c.h = h /\ c.frees = F /\ c.it = it
            BY <1>1, <1>3, AboutIs DEF CallOf, Typed
        <3>5. \A s \in t.shows :
                  ~Loosely(t, s[2]) /\ s[2] \in Fills(row) => s[1] \notin DOMAIN p2
            <4> SUFFICES ASSUME NEW s \in t.shows, ~Loosely(t, s[2]), s[2] \in Fills(row)
                         PROVE  s[1] \notin DOMAIN p2
                OBVIOUS
            <4>1. TakenDown(t, s[1], s[2])
                BY DEF Rules, ShowsFollow
            <4>2. s[1] \in Lowered(row)
                BY <1>1, <4>1 DEF TakenDown
            <4> QED
                BY <4>2 DEF Assign, Lowered, Raised
        <3> HIDE DEF p2, left, kept, removed, c, it
        <3>6. Agree(t, left) /\ HidersFree(t, left) /\ Shown(t, p2, left, X, V)
            BY <1>1, <2>1, <3>3, AgreeThin, ShownThin DEF ShowSound
        <3>7. ShowSound(t, p2, longer, X, V)
            <4>1. \A i \in DOMAIN left : ~left[i].late =>
                      left[i].it = c.it \/ Fills(t.rows[c.h]) \cap Fills(t.rows[left[i].h]) = {}
                BY <3>3, <3>4
            <4>2. \A s \in t.shows :
                      IF Loosely(t, s[2]) THEN s[3] \notin c.frees
                      ELSE s[2] \in Fills(t.rows[c.h]) => s[1] \notin DOMAIN p2
                BY <1>1, <3>4, <3>5
            <4> QED
                BY <3>3, <3>4, <3>6, <4>1, <4>2, ShownAppend
        <3> HIDE DEF longer
        <3> QED
            BY <3>1, <3>7
    <2> QED
        BY <2>2, <2>3
<1> QED
    BY <1>2, <1>3

LEMMA BeginSound ==
    ASSUME ThingsAssumption, NEW t, Rules(t), NEW p, NEW cs, NEW D, NEW F, NEW h, NEW x \in Given,
           NEW X, NEW V, Sound(t, p, cs, D, X, F, V), MayBegin(t, p, cs, D, F, h)
    PROVE  SoundAt(t, Begin(t, [page |-> p, calls |-> cs], h, x, F), D, X, V)
<1> DEFINE b == Begin(t, [page |-> p, calls |-> cs], h, x, F)
<1>1. Typed(t, b.page, b.calls) /\ b = [page |-> b.page, calls |-> b.calls]
    BY BeginTyped DEF Sound, MayBegin
<1>2. BusySound(t, b.page, b.calls, D, {})
    BY BeginBusy DEF Sound
<1>3. ShowSound(t, b.page, b.calls, X, V)
    BY BeginShown DEF Sound
<1> HIDE DEF b
<1>4. SoundAt(t, b, D, X, V)
    BY <1>1, <1>2, <1>3 DEF SoundAt, Sound
<1> QED
    BY <1>4 DEF b

LEMMA LeastNat ==
    ASSUME NEW T \in SUBSET Nat, T # {}
    PROVE  \E n \in T : \A m \in T : n <= m
<1>1. \E n \in T : \A m \in T : <<m, n>> \notin OpToRel(<, Nat)
    BY WFMin, NatLessThanWellFounded
<1>2. PICK n \in T : \A m \in T : <<m, n>> \notin OpToRel(<, Nat)
    BY <1>1
<1>3. \A m \in T : ~(m < n)
    BY <1>2 DEF OpToRel
<1> QED
    BY <1>3

(* What runs one handler after another is what the recursion says.          *)
LEMMA BegunIs ==
    ASSUME NEW t, NEW st, NEW S, NEW hs \in Seq(S), NEW x
    PROVE  \E f :
               /\ f[0] = st
               /\ \A n \in 1 .. Len(hs) : f[n] = Begin(t, f[n - 1], hs[n], x, {})
               /\ BeginAll(t, st, hs, x) = f[Len(hs)]
<1> DEFINE Next_(f, n) == IF n = 0 THEN st ELSE Begin(t, f[n - 1], hs[n], x, {})
           Upto(n) == \E f : f = [m \in 0 .. n |-> Next_(f, m)]
           T == {n \in 0 .. Len(hs) : ~Upto(n)}
<1>1. Len(hs) \in Nat
    OBVIOUS
<1>2. T = {}
    <2> SUFFICES ASSUME T # {}
                 PROVE  FALSE
        OBVIOUS
    <2>1. T \in SUBSET Nat
        BY <1>1
    <2>2. PICK n \in T : \A m \in T : n <= m
        <3> HIDE DEF T
        <3> QED
            BY <2>1, LeastNat
    <2>3. n \in 0 .. Len(hs) /\ ~Upto(n)
        OBVIOUS
    <2>4. CASE n = 0
        <3> DEFINE f == [m \in 0 .. 0 |-> st]
        <3>1. f = [m \in 0 .. 0 |-> Next_(f, m)]
            OBVIOUS
        <3> QED
            BY <2>3, <2>4, <3>1
    <2>5. CASE n # 0
        <3>1. n - 1 \in 0 .. Len(hs) /\ n - 1 \notin T
            BY <1>1, <2>2, <2>3, <2>5
        <3>2. PICK f : f = [m \in 0 .. n - 1 |-> Next_(f, m)]
            BY <3>1
        <3> DEFINE f2 == [m \in 0 .. n |-> IF m = n THEN Begin(t, f[n - 1], hs[n], x, {}) ELSE f[m]]
        <3>3. \A m \in 0 .. n : f2[m] = Next_(f2, m)
            <4> TAKE m \in 0 .. n
            <4>1. CASE m = n
                <5>1. n - 1 \in 0 .. n /\ n - 1 # n /\ f2[n - 1] = f[n - 1]
                    BY <2>3, <2>5
                <5> QED
                    BY <2>5, <4>1, <5>1
            <4>2. CASE m # n
                <5>1. m \in 0 .. n - 1 /\ f2[m] = f[m]
                    BY <2>3, <4>2
                <5>2. m # 0 => m - 1 \in 0 .. n /\ m - 1 # n /\ f2[m - 1] = f[m - 1]
                    BY <2>3, <4>2
                <5> HIDE DEF f2
                <5>3. f[m] = Next_(f, m)
                    BY <3>2, <5>1
                <5> QED
                    BY <5>1, <5>2, <5>3
            <4> QED
                BY <4>1, <4>2
        <3>4. f2 = [m \in 0 .. n |-> Next_(f2, m)]
            BY <3>3
        <3> HIDE DEF f2
        <3> QED
            BY <2>3, <3>4
    <2> QED
        BY <2>4, <2>5
<1>3. Upto(Len(hs))
    BY <1>1, <1>2
<1> DEFINE g == CHOOSE f : f = [m \in 0 .. Len(hs) |-> Next_(f, m)]
<1>4. g = [m \in 0 .. Len(hs) |-> Next_(g, m)]
    BY <1>3
<1>5. BeginAll(t, st, hs, x) = g[Len(hs)]
    BY DEF BeginAll
<1> HIDE DEF g
<1>6. g[0] = st /\ \A n \in 1 .. Len(hs) : g[n] = Begin(t, g[n - 1], hs[n], x, {})
    BY <1>1, <1>4
<1> QED
    BY <1>5, <1>6

(* A handler that others start without waiting.                             *)
FreeStart(t, h) == h \in DOMAIN t.rows /\ Started(t, h) /\ ~OnlyAwaited(t, h)

LEMMA FreeStartMayBegin ==
    ASSUME NEW t, NEW p, NEW cs, NEW D, NEW h, FreeStart(t, h)
    PROVE  MayBegin(t, p, cs, D, {}, h)
    BY DEF FreeStart, MayBegin, FreesFit

LEMMA BeginAllSound ==
    ASSUME ThingsAssumption, NEW t, Rules(t), NEW p, NEW cs, NEW D, NEW X, NEW V,
           NEW hs \in Seq(DOMAIN t.rows), NEW x \in Given,
           \/ Sound(t, p, cs, D, X, {}, V) /\ (hs # <<>> => FreeStart(t, hs[1]))
           \/ hs # <<>> /\ SoundAt(t, Begin(t, [page |-> p, calls |-> cs], hs[1], x, {}), D, X, V),
           \A i \in DOMAIN hs : i # 1 => FreeStart(t, hs[i])
    PROVE  SoundAt(t, BeginAll(t, [page |-> p, calls |-> cs], hs, x), D, X, V)
<1> DEFINE st == [page |-> p, calls |-> cs]
<1>1. PICK f : /\ f[0] = st
               /\ \A n \in 1 .. Len(hs) : f[n] = Begin(t, f[n - 1], hs[n], x, {})
               /\ BeginAll(t, st, hs, x) = f[Len(hs)]
    BY BegunIs
<1>2. Len(hs) \in Nat /\ DOMAIN hs = 1 .. Len(hs) /\ (hs = <<>> => Len(hs) = 0)
    OBVIOUS
<1>3. ASSUME NEW n \in 1 .. Len(hs), SoundAt(t, f[n - 1], D, X, V), FreeStart(t, hs[n])
      PROVE  SoundAt(t, f[n], D, X, V)
    <2>1. f[n - 1] = [page |-> f[n - 1].page, calls |-> f[n - 1].calls]
        BY <1>3 DEF SoundAt
    <2>2. Sound(t, f[n - 1].page, f[n - 1].calls, D, X, {}, V)
        BY <1>3 DEF SoundAt
    <2>3. MayBegin(t, f[n - 1].page, f[n - 1].calls, D, {}, hs[n])
        BY <1>3, FreeStartMayBegin
    <2>4. SoundAt(t, Begin(t, [page |-> f[n - 1].page, calls |-> f[n - 1].calls], hs[n], x, {}), D, X, V)
        BY <2>2, <2>3, BeginSound
    <2> QED
        BY <1>1, <2>1, <2>4
<1>4. ASSUME Sound(t, p, cs, D, X, {}, V)
      PROVE  SoundAt(t, f[0], D, X, V)
    BY <1>1, <1>4 DEF SoundAt
<1>5. hs # <<>> => SoundAt(t, f[1], D, X, V)
    <2> SUFFICES ASSUME hs # <<>>
                 PROVE  SoundAt(t, f[1], D, X, V)
        OBVIOUS
    <2>1. 1 \in 1 .. Len(hs) /\ 1 - 1 = 0
        BY <1>2
    <2>2. f[1] = Begin(t, st, hs[1], x, {})
        BY <1>1, <2>1
    <2>3. CASE Sound(t, p, cs, D, X, {}, V) /\ FreeStart(t, hs[1])
        BY <1>3, <1>4, <2>1, <2>3
    <2> QED
        BY <2>2, <2>3
<1> DEFINE T == {n \in 1 .. Len(hs) : ~SoundAt(t, f[n], D, X, V)}
<1>6. T = {}
    <2> SUFFICES ASSUME T # {}
                 PROVE  FALSE
        OBVIOUS
    <2>1. T \in SUBSET Nat
        BY <1>2
    <2>2. PICK n \in T : \A m \in T : n <= m
        <3> HIDE DEF T
        <3> QED
            BY <2>1, LeastNat
    <2>3. n \in 1 .. Len(hs) /\ ~SoundAt(t, f[n], D, X, V) /\ n # 1
        BY <1>2, <1>5
    <2>4. n - 1 \in 1 .. Len(hs) /\ n - 1 \notin T
        BY <1>2, <2>2, <2>3
    <2> QED
        BY <1>2, <1>3, <2>3, <2>4
<1> QED
    BY <1>1, <1>2, <1>4, <1>6

LEMMA BusyOnRecord ==
    ASSUME NEW t, NEW p, NEW cs, NEW D, NEW D2, D \subseteq D2, BusySound(t, p, cs, D, {})
    PROVE  BusySound(t, p, cs, D2, {})
    BY DEF BusySound, LocksUp

LEMMA ShownMoreCrossed ==
    ASSUME NEW t, NEW p, NEW cs, NEW X, NEW X2, NEW V, Shown(t, p, cs, X, V),
           \A s \in t.shows : s[1] \in DOMAIN p /\ s[1] \in X => s[1] \in X2
    PROVE  Shown(t, p, cs, X2, V)
    BY DEF Shown

LEMMA RaisedShows ==
    ASSUME NEW t, NEW b, NEW D, NEW X, NEW V, SoundAt(t, b, D, X, V), V \subseteq DOMAIN b.page
    PROVE  SoundAt(t, b, D, X, {})
    BY DEF SoundAt, Sound, ShowSound, Shown

(* The histories as a step leaves them.                                     *)
LEMMA HistoryKeeps ==
    ASSUME NEW t, NEW p, NEW cs, NEW D, NEW X, Sound(t, p, cs, D, X, {}, {})
    PROVE  Sound(t, p, cs, IF cs = <<>> THEN {} ELSE D, DOMAIN p \cap X, {}, {})
<1>1. BusySound(t, p, cs, IF cs = <<>> THEN {} ELSE D, {})
    <2>1. CASE cs = <<>>
        <3>1. DOMAIN cs = {}
            BY <2>1
        <3>2. BusySound(t, p, cs, {}, {})
            BY <3>1 DEF Sound, BusySound, Returns, LocksUp, LatchesUp, Single, AllFit
        <3> QED
            BY <2>1, <3>2
    <2>2. CASE cs # <<>>
        BY <2>2 DEF Sound
    <2> QED
        BY <2>1, <2>2
<1>2. ShowSound(t, p, cs, DOMAIN p \cap X, {})
    BY ShownMoreCrossed DEF Sound, ShowSound
<1> QED
    BY <1>1, <1>2 DEF Sound

(* A click on a handler without a request, before it starts another.        *)
LEMMA LocalBusy ==
    ASSUME NEW t, Rules(t), NEW p, NEW cs, NEW D, NEW h \in DOMAIN t.rows, t.rows[h].kind = "local",
           Typed(t, p, cs), BusySound(t, p, cs, D, {}), NEW it, NEW D2,
           D2 = D \cup (t.rows[h].clears \cap Held(t, cs) \cap DOMAIN p)
    PROVE  LET row == t.rows[h] IN
           BusySound(t, Assign(p, row.clears, row.sets, row.takes, it),
                     Without(cs, row.cancels), D2, {})
<1> DEFINE row == t.rows[h]
           p2 == Assign(p, row.clears, row.sets, row.takes, it)
           kept == Without(cs, row.cancels)
           removed == {i \in DOMAIN cs : cs[i].h \in row.cancels}
<1>1. cs \in Seq(CallOf(t)) /\ kept \in Seq(CallOf(t)) /\ Thinned(cs, kept, removed)
    BY WithoutThins DEF Typed
<1>2. DOMAIN p2 = (DOMAIN p \ row.clears) \cup Raised(row)
    BY DEF Assign, Raised
<1>3. Raised(row) \cap BusyFlags(t) = {}
    BY DEF Rules, FlagsReturn
<1> HIDE DEF p2, kept
<1>4. ASSUME NEW i \in removed
      PROVE  HeldBy(t, cs[i]) \subseteq row.clears
    <2>1. cs[i].h \in row.cancels \cap DOMAIN t.rows /\ i \in DOMAIN cs
        <3>1. cs[i] \in CallOf(t)
            BY <1>1
        <3> QED
            BY <3>1 DEF CallOf
    <2>2. Alone(t, cs[i].h) /\ t.rows[cs[i].h].ends \subseteq Lowered(row)
        BY <2>1 DEF Rules, CancelsLower
    <2>3. cs[i].frees = {}
        BY <2>1, <2>2 DEF BusySound, AllFit, FreesFit
    <2> QED
        BY <2>2, <2>3 DEF HeldBy, Lowered
<1>5. ASSUME NEW g \in Locks(t) \ D2, NEW i \in DOMAIN cs, g \in HeldBy(t, cs[i])
      PROVE  g \in DOMAIN p2
    <2>1. g \in DOMAIN p
        BY <1>5 DEF BusySound, LocksUp
    <2>2. g \in Held(t, cs)
        BY <1>5 DEF Held, HeldBy
    <2> QED
        BY <1>2, <1>5, <2>1, <2>2
<1>6. \A k \in DOMAIN t.rows : \A g \in t.rows[k].sets :
          Latch(t, k, g) /\ g \in DOMAIN p => g \in DOMAIN p2
    BY <1>2 DEF Latch
<1>7. Settles(t, p, cs, D, {}, removed, p2, D2, {})
    <2>1. \A g \in BusyFlags(t) \cap DOMAIN p2 : g \in DOMAIN p /\ g \notin row.clears
        BY <1>2, <1>3
    <2>2. \A g \in BusyFlags(t) \cap DOMAIN p2 : \A i \in removed : g \notin HeldBy(t, cs[i])
        BY <1>4, <2>1
    <2>3. removed \subseteq DOMAIN cs /\ D \subseteq D2
        OBVIOUS
    <2> HIDE DEF removed
    <2> QED
        BY <1>5, <1>6, <2>1, <2>2, <2>3 DEF Settles
<1>8. BusySound(t, p2, kept, D2, {})
    <2> HIDE DEF removed
    <2> QED
        BY <1>1, <1>7, BusyThin
<1> QED
    BY <1>8 DEF p2, kept

LEMMA LocalShown ==
    ASSUME ThingsAssumption, NEW t, Rules(t), NEW p, NEW cs, NEW h \in DOMAIN t.offers,
           t.rows[h].kind = "local", NEW x, Allowed(p, t.rows[h], x),
           NEW X, Shown(t, p, cs, X, {}), NEW X2,
           X2 = IF t.rows[h].of \in X THEN X \cup t.rows[h].takes ELSE X \ t.rows[h].takes,
           NEW V, V = {s[3] : s \in {r \in t.shows : Hides(t, h, r[3])}}
    PROVE  LET row == t.rows[h] IN
           Shown(t, Assign(p, row.clears, row.sets, row.takes, About(p, row, x)), cs, X2, V)
<1> DEFINE row == t.rows[h]
           it == About(p, row, x)
           p2 == Assign(p, row.clears, row.sets, row.takes, it)
<1>1. DOMAIN p2 = (DOMAIN p \ Lowered(row)) \cup Raised(row)
    BY DEF Assign, Raised, Lowered
<1>2. \A v \in DOMAIN p2 : p2[v] = IF v \in row.takes THEN it ELSE IF v \in row.sets THEN Up ELSE p[v]
    BY DEF Assign
<1>3. h \in DOMAIN t.rows /\ Live(t, h)
    BY DEF Rules, Linked, Live
<1> HIDE DEF p2
<1> SUFFICES ASSUME NEW s \in t.shows, s[1] \in DOMAIN p2 \ X2
             PROVE  IF Loosely(t, s[2])
                    THEN s[2] \in DOMAIN p2 /\ s[3] \notin DOMAIN p2 \cup V => p2[s[1]] = p2[s[2]]
                    ELSE /\ s[2] \in DOMAIN p2 => p2[s[1]] = p2[s[2]]
                         /\ \A i \in DOMAIN cs :
                               ~cs[i].late /\ s[2] \in Fills(t.rows[cs[i].h]) => cs[i].it = p2[s[1]]
    BY DEF Shown, p2
<1> DEFINE d == s[1]
           k == s[2]
           l == s[3]
<1>4. d \notin row.sets
    BY <1>3 DEF Rules, ShowsFollow, ShownIsReplaced
<1>5. Loosely(t, k) => Hidden(t, d, k, l)
    BY DEF Rules, ShowsFollow
<1>6. Loosely(t, k) /\ l \in Lowered(row) => {d, k} \cap Lowered(row) # {}
    BY <1>3, <1>5 DEF Hidden
<1>7. k \notin Raised(row) => (k \in DOMAIN p2 => k \in DOMAIN p /\ k \notin Lowered(row) /\ p2[k] = p[k])
    BY <1>1, <1>2 DEF Raised, Lowered
<1>8. CASE d \in row.takes
    <2>1. k \notin Raised(row) /\ row.of \notin {"it", ""}
        BY <1>3, <1>8 DEF Rules, ShowsFollow, ShownIsReplaced
    <2>2. PICK r \in t.shows : r[1] = row.of /\ r[2] = k /\ r[3] = l
        BY <1>3, <1>8 DEF Rules, ShowsFollow, ShownIsReplaced
    <2>3. row.of \notin X
        BY <1>8
    <2>4. row.of \in DOMAIN p /\ it = p[row.of]
        BY <2>1 DEF Allowed, About, At, Up_
    <2>5. p2[d] = p[row.of] /\ d \notin Lowered(row)
        BY <1>2, <1>8, <2>4 DEF Lowered, Raised
    <2>6. CASE Loosely(t, k)
        <3>1. k \in DOMAIN p2 /\ l \notin DOMAIN p2 => l \notin DOMAIN p
            BY <1>1, <1>6, <1>7, <2>1, <2>5, <2>6
        <3>2. k \in DOMAIN p /\ l \notin DOMAIN p => p[row.of] = p[k]
            BY <2>2, <2>3, <2>4, <2>6 DEF Shown
        <3> QED
            BY <1>7, <2>1, <2>5, <2>6, <3>1, <3>2
    <2>7. CASE ~Loosely(t, k)
        <3>1. /\ k \in DOMAIN p => p[row.of] = p[k]
              /\ \A i \in DOMAIN cs :
                    ~cs[i].late /\ k \in Fills(t.rows[cs[i].h]) => cs[i].it = p[row.of]
            BY <2>2, <2>3, <2>4, <2>7 DEF Shown
        <3> QED
            BY <1>7, <2>1, <2>5, <2>7, <3>1
    <2> QED
        BY <2>6, <2>7
<1>9. CASE d \notin row.takes
    <2>1. d \in DOMAIN p \ X /\ d \notin Lowered(row) /\ p2[d] = p[d]
        BY <1>1, <1>2, <1>4, <1>9 DEF Raised
    <2>2. CASE Loosely(t, k)
        <3>1. k \in Raised(row) => Hides(t, h, l)
            BY <1>3, <1>5, <2>1, <2>2 DEF Hidden
        <3>2. k \in Raised(row) => l \in V
            BY <3>1
        <3>3. k \in DOMAIN p2 /\ k \notin Raised(row) /\ l \notin DOMAIN p2 => l \notin DOMAIN p
            BY <1>1, <1>6, <1>7, <2>1, <2>2
        <3>4. k \in DOMAIN p /\ l \notin DOMAIN p => p[d] = p[k]
            BY <2>1, <2>2 DEF Shown
        <3> QED
            BY <1>7, <2>1, <2>2, <3>2, <3>3, <3>4
    <2>3. CASE ~Loosely(t, k)
        <3>1. k \notin Raised(row)
            BY <1>3, <2>1, <2>3 DEF Loosely
        <3>2. /\ k \in DOMAIN p => p[d] = p[k]
              /\ \A i \in DOMAIN cs :
                    ~cs[i].late /\ k \in Fills(t.rows[cs[i].h]) => cs[i].it = p[d]
            BY <2>1, <2>3 DEF Shown
        <3> QED
            BY <1>7, <2>1, <2>3, <3>1, <3>2
    <2> QED
        BY <2>2, <2>3
<1> QED
    BY <1>8, <1>9

(* A click keeps the page sound.                                            *)
LEMMA ClickKeepsPage ==
    ASSUME ThingsAssumption, NEW t, Rules(t), NEW h \in DOMAIN t.offers, NEW x \in Things,
           Sound(t, page, calls, dropped, crossed, {}, {}), Click(t, h, x)
    PROVE  Sound(t, page', calls', dropped', crossed', {}, {})
<1> DEFINE row == t.rows[h]
           it == About(page, row, x)
           D2 == dropped \cup (row.clears \cap Held(t, calls) \cap DOMAIN page)
           X2 == IF row.of \in crossed THEN crossed \cup row.takes ELSE crossed \ row.takes
           p1 == Assign(page, row.clears, row.sets, row.takes, it)
           kept == Without(calls, row.cancels)
           st == IF row.kind = "local"
                 THEN BeginAll(t, [page |-> p1, calls |-> kept], row.starts, it)
                 ELSE Begin(t, [page |-> page, calls |-> calls], h, x, {})
<1>1. /\ Allowed(page, row, x) /\ page' = st.page /\ calls' = st.calls
      /\ dropped' = (IF calls' = <<>> THEN {} ELSE D2)
      /\ crossed' = DOMAIN page' \cap X2
      /\ \E offer \in t.offers[h] : \A v \in offer.off : v \notin DOMAIN page
    BY DEF Click, Drop, Up_
<1>2. /\ h \in DOMAIN t.rows /\ row.starts \in Seq(DOMAIN t.rows) /\ Live(t, h)
      /\ x \in Given /\ it \in Given
    BY <1>1, AboutIs DEF Rules, Linked, Given, Sound, Typed, Live
<1>3. CASE row.kind # "local"
    <2>1. BusySound(t, page, calls, D2, {})
        BY BusyOnRecord DEF Sound
    <2>2. \A s \in t.shows : s[1] \notin row.takes
        BY <1>2, <1>3 DEF Rules, ShowsFollow, ShownIsReplaced
    <2>3. Shown(t, page, calls, X2, {})
        BY <2>2, ShownMoreCrossed DEF Sound, ShowSound
    <2>4. Sound(t, page, calls, D2, X2, {}, {})
        BY <2>1, <2>3 DEF Sound, ShowSound
    <2>5. ASSUME NEW g \in Locks(t) \ D2, g \in Lowered(row), NEW i \in DOMAIN calls
          PROVE  g \notin HeldBy(t, calls[i])
        <3> SUFFICES ASSUME g \in HeldBy(t, calls[i])
                     PROVE  FALSE
            OBVIOUS
        <3>1. g \in DOMAIN page
            BY <2>5 DEF Sound, BusySound, LocksUp
        <3>2. g \in Held(t, calls)
            BY DEF Held, HeldBy
        <3> QED
            BY <2>5, <3>1, <3>2 DEF Lowered
    <2>6. ClickedHere(t, page, calls, D2, h)
        <3> HIDE DEF D2
        <3> QED
            BY <1>1, <2>5 DEF ClickedHere
    <2>7. MayBegin(t, page, calls, D2, {}, h)
        BY <1>2, <1>3, <2>6 DEF MayBegin, FreesFit, OnlyAwaited
    <2>8. SoundAt(t, Begin(t, [page |-> page, calls |-> calls], h, x, {}), D2, X2, {})
        <3> HIDE DEF D2, X2
        <3> QED
            BY <1>2, <2>4, <2>7, BeginSound
    <2>9. SoundAt(t, st, D2, X2, {})
        BY <1>3, <2>8
    <2> HIDE DEF st, D2, X2
    <2> QED
        BY <1>1, <2>9, HistoryKeeps DEF SoundAt
<1>4. CASE row.kind = "local"
    <2> DEFINE V == {s[3] : s \in {r \in t.shows : Hides(t, h, r[3])}}
    <2>1. BusySound(t, p1, kept, D2, {})
        BY <1>2, <1>4, LocalBusy DEF Sound
    <2>2. calls \in Seq(CallOf(t)) /\ kept \in Seq(CallOf(t))
          /\ Thinned(calls, kept, {i \in DOMAIN calls : calls[i].h \in row.cancels})
        BY WithoutThins DEF Sound, Typed
    <2>3. ShowSound(t, p1, kept, X2, V)
        <3>1. Shown(t, p1, calls, X2, V)
            BY <1>1, <1>4, LocalShown DEF Sound, ShowSound
        <3> HIDE DEF p1, kept, X2, V
        <3>2. Shown(t, p1, kept, X2, V)
            BY <2>2, <3>1, ShownThin
        <3>3. Agree(t, kept) /\ HidersFree(t, kept)
            BY <2>2, AgreeThin DEF Sound, ShowSound
        <3> QED
            BY <3>2, <3>3 DEF ShowSound
    <2>4. Typed(t, p1, kept)
        <3>1. \A v \in DOMAIN p1 : p1[v] \in Given
            BY <1>2 DEF Assign, Sound, Typed, Given
        <3> HIDE DEF p1, kept
        <3> QED
            BY <2>2, <3>1 DEF Typed
    <2> HIDE DEF p1, kept, D2, X2
    <2>5. Sound(t, p1, kept, D2, X2, {}, V)
        BY <2>1, <2>3, <2>4 DEF Sound
    <2>6. \A i \in DOMAIN row.starts : FreeStart(t, row.starts[i])
        <3> TAKE i \in DOMAIN row.starts
        <3>1. row.starts[i] \in DOMAIN t.rows /\ row.starts[i] \in Listed(row.starts)
            BY <1>2 DEF Listed
        <3>2. Launched(t, row.starts[i])
            BY <1>2, <3>1 DEF Launched
        <3> QED
            BY <3>1, <3>2 DEF FreeStart, Started, OnlyAwaited
    <2>7. CASE row.starts = <<>>
        <3>1. V = {}
            BY <2>7 DEF Hides
        <3>2. SoundAt(t, BeginAll(t, [page |-> p1, calls |-> kept], row.starts, it), D2, X2, {})
            <4>1. Sound(t, p1, kept, D2, X2, {}, {})
                BY <2>5, <3>1
            <4> HIDE DEF it
            <4> QED
                BY <1>2, <2>6, <2>7, <4>1, BeginAllSound
        <3>3. SoundAt(t, st, D2, X2, {})
            BY <1>4, <3>2
        <3> HIDE DEF st
        <3> QED
            BY <1>1, <3>3, HistoryKeeps DEF SoundAt
    <2>8. CASE row.starts # <<>>
        <3> DEFINE first == row.starts[1]
                   b == Begin(t, [page |-> p1, calls |-> kept], first, it, {})
        <3>1. 1 \in DOMAIN row.starts
            BY <1>2, <2>8
        <3>2. MayBegin(t, p1, kept, D2, {}, first)
            BY <2>6, <3>1, FreeStartMayBegin
        <3>3. SoundAt(t, b, D2, X2, V)
            <4> HIDE DEF V, first, it
            <4> QED
                BY <1>2, <2>5, <3>2, BeginSound
        <3>4. V \subseteq DOMAIN b.page
            <4> SUFFICES ASSUME NEW s \in t.shows, Hides(t, h, s[3])
                         PROVE  s[3] \in DOMAIN b.page
                OBVIOUS
            <4> DEFINE r == t.rows[first]
            <4>1. r.needs = {} /\ r.bars = {} /\ r.of = "it" /\ s[3] \in Raised(r)
                BY DEF Hides
            <4>2. Allowed(p1, r, it)
                <5>1. it # No
                    BY <1>2 DEF ThingsAssumption, Given
                <5> QED
                    BY <4>1, <5>1 DEF Allowed, About
            <4>3. b.page = Assign(p1, r.clears, r.sets, r.takes, About(p1, r, it))
                BY <4>2 DEF Begin
            <4> QED
                BY <4>1, <4>3 DEF Assign, Raised
        <3>5. SoundAt(t, b, D2, X2, {})
            <4> HIDE DEF b, V
            <4> QED
                BY <3>3, <3>4, RaisedShows
        <3>6. SoundAt(t, BeginAll(t, [page |-> p1, calls |-> kept], row.starts, it), D2, X2, {})
            <4> HIDE DEF it
            <4> QED
                BY <1>2, <2>6, <2>8, <3>5, BeginAllSound
        <3>7. SoundAt(t, st, D2, X2, {})
            BY <1>4, <3>6
        <3> HIDE DEF st
        <3> QED
            BY <1>1, <3>7, HistoryKeeps DEF SoundAt
    <2> QED
        BY <2>7, <2>8
<1> QED
    BY <1>3, <1>4

(* What an outcome does: the effect that it has, the page after it, and the *)
(* flags that are lowered or left to the handler that is awaited next.      *)
EffectOf(t, p, c, o) ==
    t.rows[c.h].after[IF o \notin {"refused", "lost"} /\ (\E v \in t.rows[c.h].derefs : ~Up_(p, v))
                      THEN "lost" ELSE o]
EarlyOf(t, c, o) == IF o \in {"refused", "lost"} THEN {} ELSE t.rows[c.h].early
PageAfter(t, p, c, o, x) ==
    LET eff == EffectOf(t, p, c, o)
        p0  == IF o \in {"refused", "lost"} THEN p
               ELSE Assign(p, t.rows[c.h].early, {}, {}, No) IN
    Assign(Assign(p0, eff.clears, eff.sets, eff.takes, c.it), {}, {}, eff.gives, x)
Finishes(t, p, c, o) == EffectOf(t, p, c, o).then = ""
FreedFlags(t, p, c, o) == IF Finishes(t, p, c, o) THEN HeldBy(t, c) ELSE {}
LeftFlags(t, p, c, o) == IF Finishes(t, p, c, o) THEN {} ELSE HeldBy(t, c)
LeftPage(t, p, c, o, x) ==
    IF Finishes(t, p, c, o)
    THEN Assign(PageAfter(t, p, c, o, x), HeldBy(t, c), {}, {}, No)
    ELSE PageAfter(t, p, c, o, x)
RestOf(cs, i, eff) == Sublist(cs, {j \in DOMAIN cs : j # i /\ cs[j].h \notin eff.cancels})

LEMMA EffectIs ==
    ASSUME NEW t, Rules(t), NEW p, NEW c, c.h \in DOMAIN t.rows, NEW o \in DOMAIN t.rows[c.h].after
    PROVE  /\ EffectOf(t, p, c, o) \in Effects(t.rows[c.h])
           /\ EffectOf(t, p, c, o).takes \subseteq Fills(t.rows[c.h])
<1>1. PICK q \in DOMAIN t.rows[c.h].after : EffectOf(t, p, c, o) = t.rows[c.h].after[q]
    <2>1. CASE o \notin {"refused", "lost"} /\ \E v \in t.rows[c.h].derefs : ~Up_(p, v)
        <3>1. "lost" \in DOMAIN t.rows[c.h].after
            BY <2>1 DEF Rules, Linked
        <3> QED
            BY <2>1, <3>1 DEF EffectOf
    <2>2. CASE ~(o \notin {"refused", "lost"} /\ \E v \in t.rows[c.h].derefs : ~Up_(p, v))
        BY <2>2 DEF EffectOf
    <2> QED
        BY <2>1, <2>2
<1> QED
    BY <1>1, EffectsIs

Wrote(q, p, early, eff, it, x, low) ==
    /\ DOMAIN q = ((((DOMAIN p \ early) \ eff.clears) \cup eff.sets \cup eff.takes)
                   \cup eff.gives) \ low
    /\ \A v \in DOMAIN q : q[v] = IF v \in eff.gives THEN x ELSE IF v \in eff.takes THEN it
                                 ELSE IF v \in eff.sets THEN Up ELSE p[v]

LEMMA PageAfterIs ==
    ASSUME NEW t, NEW p, NEW c, NEW o, NEW x
    PROVE  Wrote(PageAfter(t, p, c, o, x), p, EarlyOf(t, c, o), EffectOf(t, p, c, o), c.it, x, {})
<1> DEFINE eff == EffectOf(t, p, c, o)
           p0 == IF o \in {"refused", "lost"} THEN p ELSE Assign(p, t.rows[c.h].early, {}, {}, No)
           p1 == Assign(p0, eff.clears, eff.sets, eff.takes, c.it)
           q == Assign(p1, {}, {}, eff.gives, x)
<1>1. DOMAIN p0 = DOMAIN p \ EarlyOf(t, c, o) /\ \A v \in DOMAIN p0 : p0[v] = p[v]
    BY DEF Assign, EarlyOf
<1> HIDE DEF p0
<1>2. /\ DOMAIN p1 = (DOMAIN p0 \ eff.clears) \cup eff.sets \cup eff.takes
      /\ \A v \in DOMAIN p1 : p1[v] = IF v \in eff.takes THEN c.it ELSE IF v \in eff.sets THEN Up ELSE p0[v]
    BY DEF Assign
<1> HIDE DEF p1
<1>3. /\ DOMAIN q = DOMAIN p1 \cup eff.gives
      /\ \A v \in DOMAIN q : q[v] = IF v \in eff.gives THEN x ELSE p1[v]
    BY DEF Assign
<1>4. PageAfter(t, p, c, o, x) = q
    BY DEF PageAfter, q, p1, p0
<1> HIDE DEF q, eff
<1>5. Wrote(q, p, EarlyOf(t, c, o), eff, c.it, x, {})
    BY <1>1, <1>2, <1>3 DEF Wrote
<1> QED
    BY <1>4, <1>5 DEF eff

LEMMA LeftPageIs ==
    ASSUME NEW t, NEW p, NEW c, NEW o, NEW x
    PROVE  Wrote(LeftPage(t, p, c, o, x), p, EarlyOf(t, c, o), EffectOf(t, p, c, o), c.it, x,
                 FreedFlags(t, p, c, o))
<1> DEFINE eff == EffectOf(t, p, c, o)
           p1 == PageAfter(t, p, c, o, x)
           low == FreedFlags(t, p, c, o)
           q == LeftPage(t, p, c, o, x)
<1>1. DOMAIN q = DOMAIN p1 \ low /\ \A v \in DOMAIN q : q[v] = p1[v]
    BY DEF LeftPage, FreedFlags, Assign
<1>2. Wrote(p1, p, EarlyOf(t, c, o), eff, c.it, x, {})
    BY PageAfterIs
<1> HIDE DEF q, p1, low, eff
<1>3. Wrote(q, p, EarlyOf(t, c, o), eff, c.it, x, low)
    BY <1>1, <1>2 DEF Wrote
<1> QED
    BY <1>3 DEF q, eff, low

LEMMA RestThins ==
    ASSUME NEW t, NEW cs \in Seq(CallOf(t)), NEW i, NEW eff
    PROVE  /\ RestOf(cs, i, eff) \in Seq(CallOf(t))
           /\ Thinned(cs, RestOf(cs, i, eff), {j \in DOMAIN cs : j = i \/ cs[j].h \in eff.cancels})
<1> DEFINE removed == {j \in DOMAIN cs : j = i \/ cs[j].h \in eff.cancels}
<1>1. {j \in DOMAIN cs : j # i /\ cs[j].h \notin eff.cancels} = DOMAIN cs \ removed
    OBVIOUS
<1>2. Sublist(cs, DOMAIN cs \ removed) \in Seq(CallOf(t)) /\ Thinned(cs, Sublist(cs, DOMAIN cs \ removed), removed)
    BY SublistThins
<1> QED
    BY <1>1, <1>2 DEF RestOf

LEMMA CallsTyped ==
    ASSUME NEW t, NEW p, NEW cs, Typed(t, p, cs)
    PROVE  \A j \in DOMAIN cs :
              /\ cs[j] \in CallOf(t) /\ cs[j].h \in DOMAIN t.rows /\ cs[j].it \in Given
              /\ cs[j].frees \subseteq BusyFlags(t)
<1>1. \A j \in DOMAIN cs : cs[j] \in CallOf(t)
    BY DEF Typed
<1> QED
    BY <1>1 DEF CallOf

LEMMA ThinnedKeeps ==
    ASSUME NEW cs, NEW rest, NEW removed, Thinned(cs, rest, removed)
    PROVE  \A j \in DOMAIN cs \ removed : \E n \in DOMAIN rest :
               rest[n].h = cs[j].h /\ rest[n].frees = cs[j].frees
<1>1. PICK e \in [DOMAIN rest -> DOMAIN cs \ removed] :
          /\ \A n \in DOMAIN rest :
                rest[n].h = cs[e[n]].h /\ rest[n].frees = cs[e[n]].frees
          /\ \A m \in DOMAIN cs \ removed : \E n \in DOMAIN rest : e[n] = m
    BY DEF Thinned
<1> QED
    BY <1>1

LEMMA OutcomeBusy ==
    ASSUME NEW t, Rules(t), NEW p, NEW cs, NEW D, Typed(t, p, cs), BusySound(t, p, cs, D, {}),
           NEW i, i \in DOMAIN cs, NEW o, o \in DOMAIN t.rows[cs[i].h].after, NEW x, NEW D2,
           D2 = D \cup ((EffectOf(t, p, cs[i], o).clears \cup FreedFlags(t, p, cs[i], o))
                        \cap Held(t, RestOf(cs, i, EffectOf(t, p, cs[i], o))) \cap DOMAIN p)
    PROVE  BusySound(t, LeftPage(t, p, cs[i], o, x), RestOf(cs, i, EffectOf(t, p, cs[i], o)),
                     D2, LeftFlags(t, p, cs[i], o))
<1> DEFINE c == cs[i]
           row == t.rows[c.h]
           eff == EffectOf(t, p, c, o)
           all == HeldBy(t, c)
           low == FreedFlags(t, p, c, o)
           F2 == LeftFlags(t, p, c, o)
           q == LeftPage(t, p, c, o, x)
           rest == RestOf(cs, i, eff)
           removed == {j \in DOMAIN cs : j = i \/ cs[j].h \in eff.cancels}
<1>1. /\ cs \in Seq(CallOf(t)) /\ rest \in Seq(CallOf(t)) /\ Thinned(cs, rest, removed)
      /\ removed \subseteq DOMAIN cs /\ AllFit(t, cs)
    BY RestThins DEF Typed, BusySound
<1>2. c \in CallOf(t) /\ c.h \in DOMAIN t.rows /\ \A j \in DOMAIN cs : cs[j].h \in DOMAIN t.rows
    BY CallsTyped
<1>3. eff \in Effects(row) /\ eff.takes \subseteq Fills(row)
    BY <1>2, EffectIs
<1>4. DOMAIN q = ((((DOMAIN p \ EarlyOf(t, c, o)) \ eff.clears)
                   \cup eff.sets \cup eff.takes) \cup eff.gives) \ low
    <2>1. Wrote(q, p, EarlyOf(t, c, o), eff, c.it, x, low)
        BY LeftPageIs
    <2> HIDE DEF q, eff, low
    <2> QED
        BY <2>1 DEF Wrote
<1>5. all \subseteq BusyFlags(t) /\ EarlyOf(t, c, o) \subseteq row.early
    BY <1>2 DEF HeldBy, CallOf, BusyFlags, EarlyOf
<1>6. /\ F2 # {} => F2 = all /\ low = {} /\ ~Finishes(t, p, c, o)
      /\ low \subseteq all /\ (F2 = {} => low = all)
      /\ ~Finishes(t, p, c, o) => \A g \in Locks(t) : g \notin eff.clears
    <2>1. F2 # {} => F2 = all /\ low = {} /\ ~Finishes(t, p, c, o)
        BY DEF LeftFlags, FreedFlags
    <2>2. low \subseteq all /\ (F2 = {} => low = all)
        BY DEF LeftFlags, FreedFlags
    <2>3. ~Finishes(t, p, c, o) => \A g \in Locks(t) : g \notin eff.clears
        BY <1>2, <1>3 DEF Locks, IsLock, Finishes
    <2> QED
        BY <2>1, <2>2, <2>3
<1> HIDE DEF q, low, F2, rest, eff, all, removed
<1>7. \A g \in BusyFlags(t) \cap DOMAIN q : g \in DOMAIN p /\ g \notin eff.clears /\ g \notin low
    <2>1. (eff.sets \cup eff.takes \cup eff.gives) \cap BusyFlags(t) = {}
        BY <1>2, <1>3 DEF Rules, FlagsReturn
    <2> QED
        BY <1>4, <2>1
<1>8. \A j \in removed : j = i \/ HeldBy(t, cs[j]) = {}
    <2> SUFFICES ASSUME NEW j \in DOMAIN cs, cs[j].h \in eff.cancels
                 PROVE  HeldBy(t, cs[j]) = {}
        BY DEF removed
    <2>1. Alone(t, cs[j].h) /\ t.rows[cs[j].h].ends = {}
        BY <1>2, <1>3 DEF Rules, CancelsLower
    <2> QED
        BY <1>1, <2>1, CancelledHoldNothing
<1>9. i \in removed
    BY DEF removed
<1>10. \A g \in BusyFlags(t) \cap DOMAIN q :
          \/ g \in F2
          \/ g \in DOMAIN p /\ g \notin {} /\ \A j \in removed : g \notin HeldBy(t, cs[j])
    <2> SUFFICES ASSUME NEW g \in BusyFlags(t) \cap DOMAIN q, g \notin F2
                 PROVE  g \in DOMAIN p /\ \A j \in removed : g \notin HeldBy(t, cs[j])
        OBVIOUS
    <2>1. g \in DOMAIN p /\ g \notin low
        BY <1>7
    <2>2. g \notin all
        BY <1>6, <2>1
    <2> QED
        BY <1>8, <2>1, <2>2 DEF all
<1>18. \A j \in DOMAIN cs \ removed : \E n \in DOMAIN rest :
          rest[n].h = cs[j].h /\ rest[n].frees = cs[j].frees
    BY <1>1, ThinnedKeeps
<1>11. ASSUME NEW g \in Locks(t) \ D2
       PROVE  /\ g \notin row.early
              /\ \A j \in DOMAIN cs : g \in HeldBy(t, cs[j]) =>
                    g \in DOMAIN p /\ \A n \in DOMAIN cs : g \in HeldBy(t, cs[n]) => j = n
    <2>1. g \notin row.early
        BY <1>2 DEF Locks, IsLock
    <2>2. g \notin D
        BY <1>11
    <2>3. \A j \in DOMAIN cs : g \in HeldBy(t, cs[j]) =>
              g \in DOMAIN p /\ \A n \in DOMAIN cs : g \in HeldBy(t, cs[n]) => j = n
        BY <1>11, <2>2 DEF BusySound, LocksUp
    <2> QED
        BY <2>1, <2>3
<1>12. ASSUME NEW g \in Locks(t) \ D2, NEW j \in DOMAIN cs \ removed, g \in HeldBy(t, cs[j])
       PROVE  g \in DOMAIN q \ F2
    <2>1. g \in DOMAIN p /\ g \notin all
        BY <1>9, <1>11, <1>12 DEF all
    <2>2. g \in Held(t, rest)
        <3>1. PICK n \in DOMAIN rest : rest[n].h = cs[j].h /\ rest[n].frees = cs[j].frees
            BY <1>18
        <3> QED
            BY <1>12, <3>1 DEF Held, HeldBy
    <2>3. g \notin eff.clears
        BY <1>12, <2>1, <2>2 DEF eff, rest
    <2> QED
        BY <1>4, <1>5, <1>6, <1>11, <2>1, <2>3
<1>13. ASSUME NEW g \in Locks(t) \ D2, g \in F2
       PROVE  g \in DOMAIN q
    <2>1. g \in all /\ low = {} /\ ~Finishes(t, p, c, o)
        BY <1>6, <1>13
    <2>2. g \in DOMAIN p /\ g \notin row.early
        BY <1>11, <2>1 DEF all
    <2>3. g \notin eff.clears
        BY <1>6, <1>13, <2>1
    <2> QED
        BY <1>4, <1>5, <2>1, <2>2, <2>3
<1>14. ASSUME NEW h \in DOMAIN t.rows, NEW g \in t.rows[h].sets, Latch(t, h, g),
              NEW j \in DOMAIN cs \ removed, cs[j].h = h, g \in DOMAIN p
       PROVE  g \in DOMAIN q
    <2>1. c.h # h
        BY <1>9, <1>14 DEF BusySound, LatchesUp
    <2>2. g \notin row.early /\ g \notin eff.clears /\ g \notin BusyFlags(t)
        BY <1>2, <1>3, <1>14, <2>1 DEF Latch
    <2> QED
        BY <1>4, <1>5, <1>6, <1>14, <2>2
<1>15. Settles(t, p, cs, D, {}, removed, q, D2, F2)
    <2>1. D \subseteq D2
        OBVIOUS
    <2> QED
        BY <1>1, <1>10, <1>12, <1>13, <1>14, <2>1 DEF Settles
<1>16. BusySound(t, q, rest, D2, F2)
        BY <1>1, <1>15, BusyThin
<1> QED
    BY <1>16 DEF q, rest, eff, F2

(* What an outcome leaves to the handler that it starts hides nothing.      *)
LEMMA LeftHidesNothing ==
    ASSUME NEW t, Rules(t), NEW p, NEW cs, Typed(t, p, cs), HidersFree(t, cs),
           NEW i \in DOMAIN cs, NEW o, o \in DOMAIN t.rows[cs[i].h].after,
           NEW s \in t.shows, Loosely(t, s[2])
    PROVE  s[3] \notin LeftFlags(t, p, cs[i], o)
<1> DEFINE c == cs[i]
           eff == EffectOf(t, p, c, o)
<1>1. c.h \in DOMAIN t.rows
    BY CallsTyped
<1>2. eff \in Effects(t.rows[c.h])
    BY <1>1, EffectIs
<1> HIDE DEF eff
<1>3. Hidden(t, s[1], s[2], s[3])
    BY DEF Rules, ShowsFollow
<1>4. s[3] \in t.rows[c.h].ends => Finishes(t, p, c, o)
    <2>1. s[3] \in t.rows[c.h].ends => eff.then = ""
        BY <1>1, <1>2, <1>3 DEF Hidden
    <2> QED
        BY <2>1 DEF Finishes, eff
<1>5. s[3] \notin c.frees
    BY DEF HidersFree
<1> QED
    BY <1>4, <1>5 DEF LeftFlags, HeldBy

LEMMA OutcomeShown ==
    ASSUME ThingsAssumption, NEW t, Rules(t), NEW p, NEW cs, NEW X, Typed(t, p, cs),
           ShowSound(t, p, cs, X, {}),
           NEW i \in DOMAIN cs, NEW o, o \in DOMAIN t.rows[cs[i].h].after, NEW x, NEW late, NEW X2,
           ~late => ~cs[i].late /\ \A s \in t.shows : At(p, s[2]) \in {No, cs[i].it},
           \A v \in X : v \in EffectOf(t, p, cs[i], o).takes \/ v \in X2,
           late => \A s \in t.shows :
               {s[1], s[2]} \cap EffectOf(t, p, cs[i], o).takes # {} => s[1] \in X2
    PROVE  Shown(t, LeftPage(t, p, cs[i], o, x), cs, X2, {})
<1> DEFINE c == cs[i]
           row == t.rows[c.h]
           eff == EffectOf(t, p, c, o)
           all == HeldBy(t, c)
           low == FreedFlags(t, p, c, o)
           early == EarlyOf(t, c, o)
           q == LeftPage(t, p, c, o, x)
<1>1. c.h \in DOMAIN t.rows /\ c.it \in Given
    BY CallsTyped
<1>2. eff \in Effects(row) /\ eff.takes \subseteq Fills(row)
    BY <1>1, EffectIs
<1>3. /\ DOMAIN q = ((((DOMAIN p \ early) \ eff.clears) \cup eff.sets \cup eff.takes)
                     \cup eff.gives) \ low
      /\ \A v \in DOMAIN q : q[v] = IF v \in eff.gives THEN x ELSE IF v \in eff.takes THEN c.it
                                   ELSE IF v \in eff.sets THEN Up ELSE p[v]
    <2>1. Wrote(q, p, early, eff, c.it, x, low)
        BY LeftPageIs
    <2> HIDE DEF q, eff, low, early
    <2> QED
        BY <2>1 DEF Wrote
<1>4. early \subseteq row.early
    BY DEF EarlyOf
<1>5. /\ low \subseteq row.ends \cup c.frees
      /\ low # {} => Finishes(t, p, c, o)
    BY DEF FreedFlags, HeldBy
<1>6. ~late => ~c.late /\ \A s \in t.shows : s[2] \in DOMAIN p => p[s[2]] = c.it
    <2> SUFFICES ASSUME ~late, NEW s \in t.shows, s[2] \in DOMAIN p
                 PROVE  p[s[2]] = c.it
        OBVIOUS
    <2>1. p[s[2]] \in Given
        BY DEF Typed
    <2>2. p[s[2]] # No
        BY <2>1 DEF Given, ThingsAssumption
    <2>3. At(p, s[2]) = p[s[2]]
        BY DEF At, Up_
    <2>4. At(p, s[2]) \in {No, c.it}
        OBVIOUS
    <2> QED
        BY <2>2, <2>3, <2>4
<1> HIDE DEF q, eff, low, early
<1> SUFFICES ASSUME NEW s \in t.shows, s[1] \in DOMAIN q \ X2
             PROVE  IF Loosely(t, s[2])
                    THEN s[2] \in DOMAIN q /\ s[3] \notin DOMAIN q \cup {} => q[s[1]] = q[s[2]]
                    ELSE /\ s[2] \in DOMAIN q => q[s[1]] = q[s[2]]
                         /\ \A j \in DOMAIN cs :
                               ~cs[j].late /\ s[2] \in Fills(t.rows[cs[j].h]) => cs[j].it = q[s[1]]
    BY DEF Shown, q
<1> DEFINE d == s[1]
           k == s[2]
           l == s[3]
<1>7. d \notin eff.sets \cup eff.gives /\ k \notin eff.sets
    BY <1>1, <1>2 DEF Rules, ShowsFollow, ShownIsReplaced
<1>8. d \in eff.takes \/ k \in eff.takes => ~late
    BY DEF eff
<1>9. d \in eff.takes => q[d] = c.it
    BY <1>3, <1>7
<1>10. d \notin eff.takes => d \in DOMAIN p \ X /\ d \notin eff.clears /\ q[d] = p[d]
    BY <1>3, <1>7 DEF eff
<1>11. CASE Loosely(t, k)
    <2> SUFFICES ASSUME k \in DOMAIN q, l \notin DOMAIN q
                 PROVE  q[d] = q[k]
        BY <1>11
    <2>1. Hidden(t, d, k, l)
        BY <1>11 DEF Rules, ShowsFollow
    <2>2. k \notin eff.takes /\ k \notin eff.gives
        BY <1>1, <1>2, <2>1 DEF Hidden
    <2>3. k \in DOMAIN p /\ k \notin eff.clears /\ q[k] = p[k]
        BY <1>3, <1>7, <2>2
    <2>4. CASE d \in eff.takes
        BY <1>6, <1>8, <1>9, <2>3, <2>4
    <2>5. CASE d \notin eff.takes
        <3>1. l \notin row.early /\ (l \in eff.clears => {d, k} \cap (eff.clears \ eff.takes) # {})
            BY <1>1, <1>2, <2>1 DEF Hidden
        <3>2. l \notin eff.clears
            BY <1>10, <2>3, <2>5, <3>1
        <3>3. l \in row.ends => d \in eff.takes \cup eff.clears
            BY <1>1, <1>2, <2>1 DEF Hidden
        <3>4. l \notin c.frees
            BY <1>11 DEF ShowSound, HidersFree
        <3>5. l \notin DOMAIN p
            BY <1>3, <1>4, <1>5, <1>10, <2>5, <3>1, <3>2, <3>3, <3>4
        <3>6. p[d] = p[k]
            BY <1>10, <1>11, <2>3, <2>5, <3>5 DEF ShowSound, Shown
        <3> QED
            BY <1>10, <2>3, <2>5, <3>6
    <2> QED
        BY <2>4, <2>5
<1>12. CASE ~Loosely(t, k)
    <2>1. TakenDown(t, d, k)
        BY <1>12 DEF Rules, ShowsFollow
    <2>2. k \notin eff.gives
        <3>1. k \in eff.gives => d \in eff.clears \ eff.takes
            BY <1>1, <1>2, <2>1 DEF TakenDown
        <3> QED
            BY <1>10, <3>1
    <2>3. k \in DOMAIN q => IF k \in eff.takes THEN q[k] = c.it ELSE k \in DOMAIN p /\ q[k] = p[k]
        BY <1>3, <1>7, <2>2
    <2>4. CASE d \in eff.takes
        <3>1. k \in DOMAIN q => q[d] = q[k]
            BY <1>6, <1>8, <1>9, <2>3, <2>4
        <3>2. ASSUME NEW j \in DOMAIN cs, ~cs[j].late, k \in Fills(t.rows[cs[j].h])
              PROVE  cs[j].it = q[d]
            <4>1. cs[j].h \in DOMAIN t.rows
                BY CallsTyped
            <4>2. d \in Fills(t.rows[cs[j].h])
                BY <2>1, <3>2, <4>1 DEF TakenDown
            <4>3. d \in Fills(t.rows[c.h]) /\ ~c.late
                BY <1>2, <1>6, <1>8, <2>4
            <4>4. cs[j].it = c.it
                BY <3>2, <4>2, <4>3 DEF ShowSound, Agree
            <4> QED
                BY <1>9, <2>4, <4>4
        <3> QED
            BY <1>12, <3>1, <3>2
    <2>5. CASE d \notin eff.takes
        <3>1. /\ k \in DOMAIN p => p[d] = p[k]
              /\ \A j \in DOMAIN cs :
                    ~cs[j].late /\ k \in Fills(t.rows[cs[j].h]) => cs[j].it = p[d]
            BY <1>10, <1>12, <2>5 DEF ShowSound, Shown
        <3>2. k \in eff.takes => c.it = p[d]
            BY <1>2, <1>6, <1>8, <3>1
        <3> QED
            BY <1>10, <1>12, <2>3, <2>5, <3>1, <3>2
    <2> QED
        BY <2>4, <2>5
<1> QED
    BY <1>11, <1>12

(* The step of an outcome in the words of these definitions.                *)
LateHere(t, p, c) == c.late \/ \E s \in t.shows : At(p, s[2]) \notin {No, c.it}
CrossedBy(t, p, c, eff, X) ==
    (X \ eff.takes) \cup
        (IF LateHere(t, p, c)
         THEN {s[1] : s \in {r \in t.shows : eff.takes \cap {r[1], r[2]} # {}}} ELSE {})
DroppedBy(t, p, c, o, rest, D) ==
    D \cup ((EffectOf(t, p, c, o).clears \cup FreedFlags(t, p, c, o)) \cap Held(t, rest) \cap DOMAIN p)
StartOf(t, p, cs, i, o, x) ==
    LET c == cs[i]  eff == EffectOf(t, p, c, o) IN
    IF Finishes(t, p, c, o)
    THEN [page |-> LeftPage(t, p, c, o, x), calls |-> RestOf(cs, i, eff)]
    ELSE Begin(t, [page |-> LeftPage(t, p, c, o, x), calls |-> RestOf(cs, i, eff)],
               eff.then, c.it, LeftFlags(t, p, c, o))

LEMMA OutcomeIs ==
    ASSUME NEW t, NEW i, NEW o, NEW x, Outcome(t, i, o, x)
    PROVE  LET c == calls[i]
               eff == EffectOf(t, page, c, o)
               st == BeginAll(t, StartOf(t, page, calls, i, o, x), eff.also, c.it) IN
           /\ page' = st.page /\ calls' = st.calls
           /\ dropped' = (IF calls' = <<>> THEN {}
                          ELSE DroppedBy(t, page, c, o, RestOf(calls, i, eff), dropped))
           /\ crossed' = DOMAIN page' \cap CrossedBy(t, page, c, eff, crossed)
           /\ panel' = panel
<1> DEFINE c == calls[i]
           row == t.rows[c.h]
           eff == EffectOf(t, page, c, o)
           p1 == PageAfter(t, page, c, o, x)
           all == HeldBy(t, c)
           rest == RestOf(calls, i, eff)
           st1 == IF eff.then = ""
                  THEN [page |-> Assign(p1, all, {}, {}, No), calls |-> rest]
                  ELSE Begin(t, [page |-> p1, calls |-> rest], eff.then, c.it, all)
           st == BeginAll(t, st1, eff.also, c.it)
<1>1. /\ page' = st.page /\ calls' = st.calls /\ panel' = panel
      /\ Drop(t, eff.clears \cup (IF eff.then = "" THEN all ELSE {}), rest)
      /\ crossed' = DOMAIN page' \cap CrossedBy(t, page, c, eff, crossed)
    BY DEF Outcome, EffectOf, PageAfter, HeldBy, RestOf, CrossedBy, LateHere
<1>2. st1 = StartOf(t, page, calls, i, o, x)
    BY DEF StartOf, Finishes, LeftPage, LeftFlags
<1>3. (IF eff.then = "" THEN all ELSE {}) = FreedFlags(t, page, c, o)
    BY DEF FreedFlags, Finishes
<1> HIDE DEF st1, all
<1>4. dropped' = (IF calls' = <<>> THEN {} ELSE DroppedBy(t, page, c, o, rest, dropped))
    BY <1>1, <1>3 DEF Drop, DroppedBy
<1> QED
    BY <1>1, <1>2, <1>4

(* An outcome keeps the page sound.                                         *)
LEMMA OutcomeLeavesSound ==
    ASSUME ThingsAssumption, NEW t, Rules(t), NEW p, NEW cs, NEW D, NEW X,
           Sound(t, p, cs, D, X, {}, {}), NEW i \in DOMAIN cs,
           NEW o, o \in DOMAIN t.rows[cs[i].h].after, NEW x \in Given
    PROVE  LET c == cs[i]
               eff == EffectOf(t, p, c, o)
               st == BeginAll(t, StartOf(t, p, cs, i, o, x), eff.also, c.it) IN
           SoundAt(t, st, DroppedBy(t, p, c, o, RestOf(cs, i, eff), D), CrossedBy(t, p, c, eff, X), {})
<1> DEFINE c == cs[i]
           row == t.rows[c.h]
           eff == EffectOf(t, p, c, o)
           all == HeldBy(t, c)
           F2 == LeftFlags(t, p, c, o)
           rest == RestOf(cs, i, eff)
           q == LeftPage(t, p, c, o, x)
           D2 == DroppedBy(t, p, c, o, rest, D)
           X2 == CrossedBy(t, p, c, eff, X)
           st1 == StartOf(t, p, cs, i, o, x)
<1>1. c.h \in DOMAIN t.rows /\ c.it \in Given /\ c.frees \subseteq BusyFlags(t)
    BY CallsTyped DEF Sound
<1>2. eff \in Effects(row)
    BY <1>1, EffectIs
<1>3. /\ cs \in Seq(CallOf(t)) /\ rest \in Seq(CallOf(t))
      /\ Thinned(cs, rest, {j \in DOMAIN cs : j = i \/ cs[j].h \in eff.cancels})
    BY RestThins DEF Sound, Typed
<1>4. Typed(t, q, rest)
    <2>1. Wrote(q, p, EarlyOf(t, c, o), eff, c.it, x, FreedFlags(t, p, c, o))
        BY LeftPageIs
    <2> HIDE DEF q, eff, rest
    <2>2. \A v \in DOMAIN q : q[v] \in Given
        BY <1>1, <2>1 DEF Wrote, Sound, Typed, Given
    <2> QED
        BY <1>3, <2>2 DEF Typed
<1>5. BusySound(t, q, rest, D2, F2)
    BY OutcomeBusy DEF Sound, DroppedBy
<1>6. ShowSound(t, q, rest, X2, {})
    <2>1. Shown(t, q, cs, X2, {})
        <3>1. ~LateHere(t, p, c) => ~c.late /\ \A s \in t.shows : At(p, s[2]) \in {No, c.it}
            BY DEF LateHere
        <3>2. \A v \in X : v \in eff.takes \/ v \in X2
            <4> HIDE DEF eff
            <4> QED
                BY DEF CrossedBy
        <3>3. LateHere(t, p, c) => \A s \in t.shows : {s[1], s[2]} \cap eff.takes # {} => s[1] \in X2
            <4> HIDE DEF eff
            <4> QED
                BY DEF CrossedBy
        <3> HIDE DEF X2
        <3> QED
            BY <3>1, <3>2, <3>3, OutcomeShown DEF Sound
    <2> HIDE DEF q, X2, rest
    <2>2. Shown(t, q, rest, X2, {})
        BY <1>3, <2>1, ShownThin
    <2>3. Agree(t, rest) /\ HidersFree(t, rest)
        BY <1>3, AgreeThin DEF Sound, ShowSound
    <2> QED
        BY <2>2, <2>3 DEF ShowSound
<1> HIDE DEF D2, X2, q, rest
<1>7. SoundAt(t, st1, D2, X2, {})
    <2>1. CASE Finishes(t, p, c, o)
        <3>1. F2 = {}
            BY <2>1 DEF LeftFlags
        <3>2. Sound(t, q, rest, D2, X2, {}, {})
            BY <1>4, <1>5, <1>6, <3>1 DEF Sound
        <3>3. st1 = [page |-> q, calls |-> rest]
            BY <2>1 DEF StartOf, q, rest
        <3> QED
            BY <3>2, <3>3 DEF SoundAt
    <2>2. CASE ~Finishes(t, p, c, o)
        <3>1. st1 = Begin(t, [page |-> q, calls |-> rest], eff.then, c.it, F2)
            BY <2>2 DEF StartOf, q, rest
        <3>2. F2 = all
            BY <2>2 DEF LeftFlags
        <3>3. eff.then \in DOMAIN t.rows /\ c.h \in Awaiting(t, eff.then)
            <4>1. eff.then \in DOMAIN t.rows \cup {""} /\ eff.then # ""
                BY <1>1, <1>2, <2>2 DEF Rules, Linked, Finishes
            <4> HIDE DEF eff
            <4> QED
                BY <1>1, <1>2, <4>1 DEF Awaiting
        <3> HIDE DEF eff, st1
        <3>4. FreesFit(t, eff.then, all)
            <4>1. Alone(t, eff.then) => all = {}
                <5> SUFFICES ASSUME Alone(t, eff.then)
                             PROVE  all = {}
                    OBVIOUS
                <5>1. row.ends = {} /\ Awaiting(t, c.h) = {}
                    BY <3>3 DEF Alone
                <5>2. Alone(t, c.h)
                    BY <5>1 DEF Alone
                <5>3. c.frees = {}
                    BY <5>2 DEF Sound, BusySound, AllFit, FreesFit
                <5> QED
                    BY <5>1, <5>3 DEF HeldBy
            <4>2. row.ends \subseteq all
                BY DEF HeldBy
            <4> QED
                BY <3>3, <4>1, <4>2 DEF FreesFit
        <3>5. \A s \in t.shows : Loosely(t, s[2]) => s[3] \notin F2
            BY LeftHidesNothing DEF Sound, ShowSound
        <3>6. F2 \subseteq BusyFlags(t)
            BY <1>1, <3>2 DEF HeldBy, BusyFlags
        <3>7. Started(t, eff.then)
            BY <3>3 DEF Started
        <3> HIDE DEF F2, all
        <3>8. MayBegin(t, q, rest, D2, F2, eff.then)
            BY <3>2, <3>3, <3>4, <3>5, <3>6, <3>7 DEF MayBegin
        <3>9. Sound(t, q, rest, D2, X2, F2, {})
            BY <1>4, <1>5, <1>6 DEF Sound
        <3> QED
            BY <1>1, <3>1, <3>8, <3>9, BeginSound
    <2> QED
        BY <2>1, <2>2
<1>8. eff.also \in Seq(DOMAIN t.rows) /\ \A n \in DOMAIN eff.also : FreeStart(t, eff.also[n])
    <2> HIDE DEF eff
    <2>1. eff.also \in Seq(DOMAIN t.rows)
        BY <1>1, <1>2 DEF Rules, Linked
    <2>2. ASSUME NEW n \in DOMAIN eff.also
          PROVE  FreeStart(t, eff.also[n])
        <3>1. eff.also[n] \in DOMAIN t.rows /\ eff.also[n] \in Listed(eff.also)
            BY <2>1 DEF Listed
        <3>2. Launched(t, eff.also[n])
            BY <1>1, <1>2, <3>1 DEF Launched
        <3> QED
            BY <3>1, <3>2 DEF FreeStart, Started, OnlyAwaited
    <2> QED
        BY <2>1, <2>2
<1>9. SoundAt(t, BeginAll(t, st1, eff.also, c.it), D2, X2, {})
    <2>1. st1 = [page |-> st1.page, calls |-> st1.calls] /\ Sound(t, st1.page, st1.calls, D2, X2, {}, {})
        BY <1>7 DEF SoundAt
    <2> HIDE DEF st1, eff
    <2>2. eff.also # <<>> => 1 \in DOMAIN eff.also
        BY <1>8
    <2>3. SoundAt(t, BeginAll(t, [page |-> st1.page, calls |-> st1.calls], eff.also, c.it), D2, X2, {})
        BY <1>1, <1>8, <2>1, <2>2, BeginAllSound
    <2> QED
        BY <2>1, <2>3
<1> QED
    BY <1>9 DEF D2, X2, rest

LEMMA OutcomeKeepsPage ==
    ASSUME ThingsAssumption, NEW t, Rules(t), NEW i \in DOMAIN calls,
           NEW o, o \in DOMAIN t.rows[calls[i].h].after, NEW x \in Things,
           Sound(t, page, calls, dropped, crossed, {}, {}), Outcome(t, i, o, x)
    PROVE  Sound(t, page', calls', dropped', crossed', {}, {})
<1> DEFINE c == calls[i]
           eff == EffectOf(t, page, c, o)
           st == BeginAll(t, StartOf(t, page, calls, i, o, x), eff.also, c.it)
           D2 == DroppedBy(t, page, c, o, RestOf(calls, i, eff), dropped)
           X2 == CrossedBy(t, page, c, eff, crossed)
<1>1. /\ page' = st.page /\ calls' = st.calls
      /\ dropped' = (IF calls' = <<>> THEN {} ELSE D2)
      /\ crossed' = DOMAIN page' \cap X2
    BY OutcomeIs
<1>2. x \in Given
    BY DEF Given
<1>3. SoundAt(t, st, D2, X2, {})
    BY <1>2, OutcomeLeavesSound
<1> HIDE DEF st, D2, X2
<1> QED
    BY <1>1, <1>3, HistoryKeeps DEF SoundAt

-----------------------------------------------------------------------------
LEMMA TheRules == ASSUME PanelsAssumption, panel \in DOMAIN PanelOf
                  PROVE  Rules(PanelOf[panel])
    BY DEF PanelsAssumption, Rules

LEMMA PagesInvInit ==
    ASSUME ThingsAssumption, PanelsAssumption, PagesInit
    PROVE  PagesInv
<1> DEFINE t == PanelOf[panel]
           b == Begin(t, [page |-> <<>>, calls |-> <<>>], t.mount[1], Someone, {})
           st == BeginAll(t, [page |-> <<>>, calls |-> <<>>], t.mount, Someone)
<1>1. /\ panel \in DOMAIN PanelOf /\ page = st.page /\ calls = st.calls
      /\ dropped = {} /\ crossed = {}
    BY DEF PagesInit
<1>2. Rules(t) /\ t.mount \in Seq(DOMAIN t.rows) /\ Someone \in Given
    <2>1. Rules(t)
        BY <1>1, TheRules
    <2>2. Someone \in Given
        BY DEF Someone, Given, ThingsAssumption
    <2> QED
        BY <2>1, <2>2 DEF Rules, Linked
<1> HIDE DEF t
<1>3. Sound(t, <<>>, <<>>, {}, {}, {}, {})
    <2>1. <<>> \in Seq(CallOf(t)) /\ DOMAIN <<>> = {}
        OBVIOUS
    <2>2. Typed(t, <<>>, <<>>)
        BY <2>1 DEF Typed
    <2>3. BusySound(t, <<>>, <<>>, {}, {})
        BY <2>1 DEF BusySound, Returns, LocksUp, LatchesUp, Single, AllFit
    <2>4. ShowSound(t, <<>>, <<>>, {}, {})
        BY <2>1 DEF ShowSound, Agree, Shown, HidersFree
    <2> QED
        BY <2>2, <2>3, <2>4 DEF Sound
<1>4. \A i \in DOMAIN t.mount : t.mount[i] \in DOMAIN t.rows /\ t.mount[i] \in Listed(t.mount)
    BY <1>2 DEF Listed
<1>5. \A i \in DOMAIN t.mount : i # 1 => FreeStart(t, t.mount[i])
    BY <1>4 DEF FreeStart, Started, OnlyAwaited
<1>6. ASSUME t.mount # <<>>
      PROVE  SoundAt(t, b, {}, {}, {})
    <2>1. 1 \in DOMAIN t.mount
        BY <1>2, <1>6
    <2>2. FreesFit(t, t.mount[1], {})
        BY <1>4, <2>1 DEF FreesFit, OnlyAwaited
    <2>3. DOMAIN <<>> = {}
        OBVIOUS
    <2>4. MayBegin(t, <<>>, <<>>, {}, {}, t.mount[1])
        BY <1>4, <2>1, <2>2, <2>3 DEF MayBegin
    <2> QED
        BY <1>2, <1>3, <2>4, BeginSound
<1>7. SoundAt(t, st, {}, {}, {})
    <2> HIDE DEF b
    <2>1. CASE t.mount = <<>>
        BY <1>2, <1>3, <1>5, <2>1, BeginAllSound
    <2>2. CASE t.mount # <<>>
        BY <1>2, <1>5, <1>6, <2>2, BeginAllSound DEF b
    <2> QED
        BY <2>1, <2>2
<1> HIDE DEF st
<1>8. Sound(t, page, calls, dropped, crossed, {}, {})
    BY <1>1, <1>7 DEF SoundAt
<1> QED
    BY <1>1, <1>8 DEF PagesInv, t

LEMMA PagesInvStep ==
    ASSUME ThingsAssumption, PanelsAssumption, PagesInv, PagesNext
    PROVE  PagesInv'
<1> DEFINE t == PanelOf[panel]
<1>1. panel \in DOMAIN PanelOf /\ Sound(t, page, calls, dropped, crossed, {}, {})
    BY DEF PagesInv
<1>2. Rules(t)
    BY <1>1, TheRules
<1>3. panel' = panel /\ Sound(t, page', calls', dropped', crossed', {}, {})
    <2>1. ASSUME NEW h \in DOMAIN t.offers, NEW x \in Things, Click(t, h, x)
          PROVE  panel' = panel /\ Sound(t, page', calls', dropped', crossed', {}, {})
        <3> HIDE DEF t
        <3>1. panel' = panel
            BY <2>1 DEF Click
        <3> QED
            BY <1>1, <1>2, <2>1, <3>1, ClickKeepsPage
    <2>2. ASSUME NEW i \in DOMAIN calls, NEW o \in DOMAIN t.rows[calls[i].h].after, NEW x \in Things,
                 Outcome(t, i, o, x)
          PROVE  panel' = panel /\ Sound(t, page', calls', dropped', crossed', {}, {})
        <3> HIDE DEF t
        <3>1. panel' = panel
            BY <2>2, OutcomeIs
        <3> QED
            BY <1>1, <1>2, <2>2, <3>1, OutcomeKeepsPage
    <2> QED
        BY <2>1, <2>2 DEF PagesNext
<1> QED
    BY <1>1, <1>3 DEF PagesInv

(* A busy flag comes down; what must not be sent twice is guarded.          *)
LEMMA BusyHolds == ASSUME PanelsAssumption, PagesInv PROVE BusyFlagsHold
<1> DEFINE t == PanelOf[panel]
<1>1. panel \in DOMAIN PanelOf /\ Sound(t, page, calls, dropped, crossed, {}, {})
    BY DEF PagesInv
<1>2. Rules(t) /\ Typed(t, page, calls) /\ BusySound(t, page, calls, dropped, {})
    BY <1>1, TheRules DEF Sound
<1> HIDE DEF t
<1>3. ASSUME NEW i \in DOMAIN calls, NEW j \in DOMAIN calls, i # j, calls[i].h = calls[j].h,
             t.rows[calls[i].h].kind = "once"
      PROVE  Held(t, <<calls[i], calls[j]>>) \cap dropped # {}
    <2> DEFINE h == calls[i].h
               two == <<calls[i], calls[j]>>
    <2>1. h \in DOMAIN t.rows
        BY <1>2, CallsTyped
    <2>2. \A n \in DOMAIN calls : calls[n].h = h /\ n \in {i, j} => HeldBy(t, calls[n]) \subseteq Held(t, two)
        <3>1. DOMAIN two = {1, 2} /\ two[1] = calls[i] /\ two[2] = calls[j]
            OBVIOUS
        <3> HIDE DEF two
        <3> QED
            BY <3>1 DEF Held, HeldBy
    <2> HIDE DEF two
    <2>3. CASE Locked(t, h)
        <3>1. PICK g \in BusyFlags(t) :
                  /\ IsLock(t, g)
                  /\ \/ g \in t.rows[h].ends
                     \/ OnlyAwaited(t, h) /\ \A k \in Awaiting(t, h) : g \in t.rows[k].ends
            BY <2>3 DEF Locked
        <3>2. ASSUME NEW n \in DOMAIN calls, calls[n].h = h
              PROVE  g \in HeldBy(t, calls[n])
            <4>1. CASE g \in t.rows[h].ends
                BY <3>2, <4>1 DEF HeldBy
            <4>2. CASE OnlyAwaited(t, h) /\ \A k \in Awaiting(t, h) : g \in t.rows[k].ends
                <5>1. FreesFit(t, h, calls[n].frees)
                    BY <1>2, <3>2 DEF BusySound, AllFit
                <5>2. g \in calls[n].frees
                    BY <4>2, <5>1 DEF FreesFit
                <5> QED
                    BY <5>2 DEF HeldBy
            <4> QED
                BY <3>1, <4>1, <4>2
        <3>3. g \in HeldBy(t, calls[i]) /\ g \in HeldBy(t, calls[j])
            BY <1>3, <3>2
        <3>4. g \in dropped
            BY <1>2, <1>3, <3>1, <3>3 DEF BusySound, LocksUp, Locks
        <3> QED
            BY <2>2, <3>3, <3>4 DEF two
    <2>4. CASE h \in t.rows[h].cancels
        BY <1>2, <1>3, <2>4 DEF BusySound, Single
    <2>5. CASE \E g \in t.rows[h].sets : Latch(t, h, g)
        BY <1>2, <1>3, <2>1, <2>5 DEF BusySound, LatchesUp
    <2> QED
        BY <1>2, <1>3, <2>1, <2>3, <2>4, <2>5 DEF Rules, OnceIsGuarded
<1>4. ASSUME calls = <<>>, NEW h \in DOMAIN t.rows
      PROVE  t.rows[h].ends \cap DOMAIN page = {}
    <2>1. DOMAIN calls = {}
        BY <1>4
    <2>2. t.rows[h].ends \subseteq BusyFlags(t)
        BY DEF BusyFlags
    <2> QED
        BY <1>2, <2>1, <2>2 DEF BusySound, Returns
<1> QED
    BY <1>3, <1>4 DEF BusyFlagsHold, t

LEMMA ShownHolds == ASSUME PagesInv PROVE ShownBelongs
<1> DEFINE t == PanelOf[panel]
<1>1. Shown(t, page, calls, crossed, {})
    BY DEF PagesInv, Sound, ShowSound
<1> HIDE DEF t
<1>2. \A s \in t.shows :
          /\ Up_(page, s[1]) /\ Up_(page, s[2]) /\ ~Up_(page, s[3])
          /\ s[1] \notin crossed
          => page[s[1]] = page[s[2]]
    BY <1>1 DEF Shown, Up_
<1> QED
    BY <1>2 DEF ShownBelongs, t

(***************************************************************************)
(* The queues of the reviewers.  Filtering a list never makes it longer,   *)
(* and taking out a project that is not in it changes nothing.             *)
(***************************************************************************)

QueueInv == queue \in Seq(AllProjects) /\ idx \in Nat /\ PositionInQueue

LEMMA WithinIs ==
    ASSUME NEW s \in Seq(AllProjects), NEW S
    PROVE  /\ Within(s, S) \in Seq(AllProjects)
           /\ Len(Within(s, S)) \in Nat /\ Len(Within(s, S)) <= Len(s)
           /\ DOMAIN Within(s, S) = 1 .. Len(Within(s, S))
           /\ AllProjects \subseteq S => Len(Within(s, S)) = Len(s)
<1> DEFINE places == {i \in DOMAIN s : s[i] \in S}
<1>1. places \in SUBSET DOMAIN s
    OBVIOUS
<1>2. /\ Within(s, S) \in Seq(AllProjects) /\ Cardinality(places) \in Nat
      /\ Cardinality(places) <= Len(s) /\ Len(Within(s, S)) = Cardinality(places)
      /\ DOMAIN Within(s, S) = 1 .. Cardinality(places)
    <2> HIDE DEF places
    <2>1. /\ Sublist(s, places) \in Seq(AllProjects) /\ Cardinality(places) \in Nat
          /\ Cardinality(places) <= Len(s) /\ Len(Sublist(s, places)) = Cardinality(places)
          /\ DOMAIN Sublist(s, places) = 1 .. Cardinality(places)
        BY <1>1, SublistIs
    <2>2. Within(s, S) = Sublist(s, places)
        BY DEF Within, places
    <2> QED
        BY <2>1, <2>2
<1>3. ASSUME AllProjects \subseteq S
      PROVE  Cardinality(places) = Len(s)
    <2>1. places = 1 .. Len(s) /\ Len(s) \in Nat
        BY <1>3
    <2>2. 1 \in Int /\ Len(s) \in Int
        BY <2>1
    <2>3. Cardinality(1 .. Len(s)) = IF 1 > Len(s) THEN 0 ELSE Len(s) - 1 + 1
        BY <2>2, FS_Interval
    <2> HIDE DEF places
    <2> QED
        BY <2>1, <2>3
<1> QED
    BY <1>2, <1>3

LEMMA QueueInvInit == QueueInit => QueueInv
    BY DEF QueueInit, QueueInv, PositionInQueue

LEMMA QueueInvStep ==
    ASSUME QueueAssumption, QueueInv, [QueueNext]_queueVars
    PROVE  QueueInv'
<1>1. queue \in Seq(AllProjects) /\ idx \in Nat /\ (queue # <<>> => idx \in DOMAIN queue)
    BY DEF QueueInv, PositionInQueue
<1>2. ASSUME UNCHANGED <<queue, idx>>
      PROVE  QueueInv'
    BY <1>1, <1>2 DEF QueueInv, PositionInQueue
<1>3. ASSUME NEW i \in DOMAIN reloads, QueueLoaded(i)
      PROVE  QueueInv'
    <2>1. Backlog \in Seq(AllProjects)
        BY DEF QueueAssumption, AllProjects
    <2>2. queue' = Within(Backlog, reloads[i]) /\ idx' = 1
        BY <1>3 DEF QueueLoaded
    <2>3. queue' \in Seq(AllProjects)
        BY <2>1, <2>2, WithinIs
    <2>4. queue' # <<>> => 1 \in DOMAIN queue'
        BY <2>3
    <2> QED
        BY <2>2, <2>3, <2>4 DEF QueueInv, PositionInQueue
<1>4. ASSUME NEW i \in DOMAIN filtered, go(i)
      PROVE  QueueInv'
    <2>1. queue' = queue /\ idx' = i
        BY <1>4 DEF go
    <2>2. i \in 1 .. Len(filtered) /\ Len(filtered) <= Len(queue) /\ Len(filtered) \in Nat
        BY <1>1, WithinIs DEF filtered
    <2>3. i \in Nat /\ i \in DOMAIN queue
        BY <1>1, <2>2
    <2> QED
        BY <1>1, <2>1, <2>3 DEF QueueInv, PositionInQueue
<1>5. ASSUME dropCurrent
      PROVE  QueueInv'
    <2> DEFINE left == Len(Within(queue', search))
    <2>1. /\ queue' = Within(queue, AllProjects \ {current})
          /\ idx' = IF current # Nobody /\ idx > left THEN (IF left = 0 THEN 1 ELSE left) ELSE idx
        BY <1>5 DEF dropCurrent
    <2>2. queue' \in Seq(AllProjects)
        BY <1>1, <2>1, WithinIs
    <2>3. left \in Nat /\ left <= Len(queue')
        BY <2>2, WithinIs
    <2> HIDE DEF left
    <2>4. CASE current = Nobody
        <3>1. AllProjects \subseteq AllProjects \ {current}
            BY <2>4 DEF QueueAssumption, AllProjects
        <3>2. Len(queue') = Len(queue)
            BY <1>1, <2>1, <3>1, WithinIs
        <3>3. idx' = idx
            BY <2>1, <2>4
        <3>4. queue' # <<>> => idx' \in DOMAIN queue'
            BY <1>1, <2>2, <3>2, <3>3
        <3> QED
            BY <1>1, <2>2, <3>3, <3>4 DEF QueueInv, PositionInQueue
    <2>5. CASE current # Nobody
        <3>1. idx \in DOMAIN filtered
            BY <2>5 DEF current
        <3>2. idx >= 1
            BY <1>1, <3>1, WithinIs DEF filtered
        <3>3. idx' \in Nat /\ (queue' # <<>> => idx' \in 1 .. Len(queue'))
            BY <1>1, <2>1, <2>2, <2>3, <2>5, <3>2
        <3> QED
            BY <2>2, <3>3 DEF QueueInv, PositionInQueue
    <2> QED
        BY <2>4, <2>5
<1>6. ASSUME QueueNext
      PROVE  \/ \E i \in DOMAIN reloads : QueueLoaded(i)
             \/ \E i \in DOMAIN filtered : go(i)
             \/ dropCurrent
             \/ UNCHANGED <<queue, idx>>
    BY <1>6 DEF QueueNext, loadQueue, submit, Decide, Refused, ReadQueue, QueueLost, Search, Elsewhere
<1>7. UNCHANGED queueVars => UNCHANGED <<queue, idx>>
    BY DEF queueVars
<1> QED
    BY <1>2, <1>3, <1>4, <1>5, <1>6, <1>7

(* Previous, next, the search box, a verdict and a reload: whatever comes   *)
(* between a click and its answer, the position stands in the queue as long *)
(* as anything is in it, for a backlog of any length and any number of      *)
(* reloads on their way.                                                    *)
THEOREM QueuePositions == QueueSpec => []PositionInQueue
<1>1. QueueInit => QueueInv
    BY QueueInvInit
<1>2. QueueInv /\ [QueueNext]_queueVars => QueueInv'
    BY QueueAssumption, QueueInvStep
<1>3. QueueInv => PositionInQueue
    BY DEF QueueInv
<1> QED
    BY <1>1, <1>2, <1>3, PTL DEF QueueSpec

-----------------------------------------------------------------------------
(* Signup.  pendingEmails is up while a call of createRsvp runs, so one     *)
(* runs at a time; and one that found no record has the backend's only      *)
(* record, if there is one, still ahead of it: every other is a POST that   *)
(* was given up.                                                            *)
OneCall ==
    /\ \A c \in Callers : rsvp[c] # "idle" => pendingEmails
    /\ \A c, d \in Callers : rsvp[c] # "idle" /\ rsvp[d] # "idle" => c = d

Accounted ==
    /\ adrift <= gone /\ records + adrift <= 1 + gone
    /\ (\E c \in Callers : rsvp[c] = "create") => records + adrift <= gone

SignupInv == SignupTypeOK /\ OneCall /\ Accounted

(* A sign-in moves through stages in which it calls nothing.                *)
LEMMA LoginMoves ==
    ASSUME SignupInv, NEW l \in Logins,
           \/ StartLogin(l) \/ Callback(l) \/ Answer(l) \/ TurnBack(l)
           \/ ReadUser(l) \/ SaveUser(l) \/ CheckPerms(l) \/ CreateSession(l)
    PROVE  SignupInv'
<1>1. PICK stage \in {"out", "away", "reply"} \cup InBackend : flow' = [flow EXCEPT ![l] = stage]
  BY DEF StartLogin, Callback, Answer, TurnBack, ReadUser, SaveUser, CheckPerms, CreateSession, Moves, InBackend
<1>2. flow[l] # "rsvp" /\ UNCHANGED <<rsvp, pendingEmails, records, adrift, gone>>
  BY DEF StartLogin, Callback, Answer, TurnBack, ReadUser, SaveUser, CheckPerms, CreateSession
<1>3. cookie' \in Logins \cup {NoState} /\ userRow' \in BOOLEAN
  BY DEF SignupInv, SignupTypeOK, StartLogin, Callback, Answer, TurnBack, ReadUser, SaveUser, CheckPerms, CreateSession
<1>4. SignupTypeOK'
  BY <1>1, <1>2, <1>3 DEF SignupInv, SignupTypeOK
<1>5. QED
  BY <1>2, <1>4 DEF SignupInv, OneCall, Accounted

(* What a step of one call leaves to be shown.                              *)
LEMMA CallMoves ==
    ASSUME SignupInv, NEW c \in Callers, NEW stage \in {"idle", "lookup", "create"}, Turns(c, stage),
           stage = "idle" => GoesOn(c), stage # "idle" => UNCHANGED flow /\ (c \in Logins => flow[c] = "rsvp"),
           pendingEmails' \in BOOLEAN, stage # "idle" => pendingEmails', \A d \in Callers \ {c} : rsvp[d] = "idle",
           UNCHANGED <<cookie, userRow>>, records' \in Nat, adrift' \in Nat, gone' \in 0 .. MaxLost,
           adrift' <= gone', records' + adrift' <= 1 + gone',
           stage = "create" => records' + adrift' <= gone'
    PROVE  SignupInv'
<1>1. /\ rsvp' \in [Callers -> {"idle", "lookup", "create"}] /\ rsvp'[c] = stage
      /\ \A d \in Callers \ {c} : rsvp'[d] = "idle"
  BY DEF SignupInv, SignupTypeOK, Turns
<1>2. flow' \in [Logins -> {"out", "away", "reply"} \cup InBackend]
  BY DEF SignupInv, SignupTypeOK, GoesOn, InBackend
<1>3. ASSUME NEW l \in Logins, rsvp'[l] # "idle" PROVE flow'[l] = "rsvp"
  <2>1. l \in Callers
    BY DEF Callers
  <2>2. l = c /\ stage # "idle"
    BY <1>1, <1>3, <2>1
  <2>3. QED
    BY <2>2
<1>4. SignupTypeOK'
  BY <1>1, <1>2, <1>3 DEF SignupInv, SignupTypeOK
<1>5. OneCall'
  BY <1>1 DEF OneCall
<1>6. Accounted'
  BY <1>1 DEF Accounted
<1>7. QED
  BY <1>4, <1>5, <1>6 DEF SignupInv

(* A call that leaves.                                                      *)
LEMMA CallLeaves ==
    ASSUME SignupInv, NEW c \in Callers, Leaves(c), \A d \in Callers \ {c} : rsvp[d] = "idle",
           UNCHANGED <<cookie, userRow>>, records' \in Nat, adrift' \in Nat, gone' \in 0 .. MaxLost,
           adrift' <= gone', records' + adrift' <= 1 + gone'
    PROVE  SignupInv'
<1>1. Turns(c, "idle") /\ GoesOn(c) /\ pendingEmails' = FALSE
  BY DEF Leaves
<1>2. pendingEmails' \in BOOLEAN
  BY <1>1, Zenon
<1>3. QED
  BY <1>1, <1>2, CallMoves

LEMMA RsvpStep ==
    ASSUME SignupInv, NEW c \in Callers,
           EnterRsvp(c) \/ RefuseRsvp(c) \/ LookUpRecord(c) \/ CreateRecord(c) \/ CreateFails(c)
    PROVE  SignupInv'
<1>1. /\ SignupTypeOK /\ OneCall /\ records \in Nat /\ adrift \in Nat /\ gone \in 0 .. MaxLost
      /\ MaxLost \in Nat /\ adrift <= gone /\ records + adrift <= 1 + gone
      /\ rsvp[c] = "create" => records + adrift <= gone
      /\ rsvp[c] # "idle" => \A d \in Callers \ {c} : rsvp[d] = "idle"
  BY SignupAssumption DEF SignupInv, SignupTypeOK, OneCall, Accounted
<1>2. CASE EnterRsvp(c)
  <2>1. /\ Turns(c, "lookup") /\ pendingEmails' = TRUE /\ ~pendingEmails
        /\ UNCHANGED <<cookie, flow, userRow, records, adrift, gone>>
        /\ c \in Logins => flow[c] = "rsvp"
    BY <1>2 DEF EnterRsvp, Wants
  <2>2. pendingEmails' \in BOOLEAN /\ pendingEmails'
    BY <2>1, Zenon
  <2>3. \A d \in Callers \ {c} : rsvp[d] = "idle"
    BY <1>1, <2>1 DEF OneCall
  <2>4. QED
    BY <1>1, <2>1, <2>2, <2>3, CallMoves
<1>3. CASE RefuseRsvp(c)
  <2>1. /\ UNCHANGED <<cookie, rsvp, pendingEmails, userRow, records, adrift, gone>>
        /\ rsvp[c] = "idle" /\ GoesOn(c)
    BY <1>3 DEF RefuseRsvp, Wants
  <2>2. flow' \in [Logins -> {"out", "away", "reply"} \cup InBackend]
    BY <1>1, <2>1 DEF SignupTypeOK, GoesOn, InBackend
  <2>3. \A l \in Logins : rsvp'[l] # "idle" => flow'[l] = "rsvp"
    BY <1>1, <2>1 DEF SignupTypeOK, GoesOn
  <2>4. QED
    BY <2>1, <2>2, <2>3 DEF SignupInv, SignupTypeOK, OneCall, Accounted
<1>4. CASE LookUpRecord(c)
  <2>1. /\ UNCHANGED <<cookie, userRow, records, adrift, gone>>
        /\ \A d \in Callers \ {c} : rsvp[d] = "idle"
    BY <1>1, <1>4 DEF LookUpRecord
  <2>2. CASE Leaves(c)
    BY <1>1, <2>1, <2>2, CallLeaves
  <2>3. CASE records = 0 /\ Turns(c, "create") /\ UNCHANGED <<flow, pendingEmails>>
    <3>1. (c \in Logins => flow[c] = "rsvp") /\ pendingEmails' /\ pendingEmails' \in BOOLEAN
      BY <1>1, <1>4, <2>3 DEF LookUpRecord, SignupTypeOK, OneCall
    <3>2. QED
      BY <1>1, <2>1, <2>3, <3>1, CallMoves
  <2>4. QED
    BY <1>4, <2>2, <2>3 DEF LookUpRecord
<1>5. CASE CreateRecord(c)
  BY <1>1, <1>5, CallLeaves DEF CreateRecord
<1>6. CASE CreateFails(c)
  <2>1. /\ gone' \in 0 .. MaxLost /\ adrift' \in Nat /\ adrift' <= gone' /\ records' = records
        /\ records + adrift' <= 1 + gone'
    BY <1>1, <1>6 DEF CreateFails
  <2>2. QED
    BY <1>1, <1>6, <2>1, CallLeaves DEF CreateFails
<1>7. QED
  BY <1>2, <1>3, <1>4, <1>5, <1>6

LEMMA RestartKeeps ==
    ASSUME SignupInv, RestartBackend
    PROVE  SignupInv'
<1> DEFINE posted == Cardinality({c \in Callers : rsvp[c] = "create"})
<1>1. /\ gone + posted <= MaxLost
      /\ flow' = [l \in Logins |-> IF flow[l] \in InBackend THEN "reply" ELSE flow[l]]
      /\ rsvp' = [c \in Callers |-> "idle"] /\ pendingEmails' = FALSE
      /\ gone' = gone + posted /\ adrift' = adrift + posted
      /\ UNCHANGED <<cookie, userRow, records>>
  BY DEF RestartBackend
<1>2. posted \in Nat
  <2>1. IsFiniteSet(Callers)
    BY SignupAssumption, FS_AddElement DEF Callers
  <2>2. IsFiniteSet({c \in Callers : rsvp[c] = "create"})
    BY <2>1, FS_Subset
  <2>3. QED
    BY <2>2, FS_CardinalityType
<1> HIDE DEF posted
<1>3. /\ records \in Nat /\ adrift \in Nat /\ gone \in Nat /\ MaxLost \in Nat
      /\ adrift <= gone /\ records + adrift <= 1 + gone
  BY SignupAssumption DEF SignupInv, SignupTypeOK, Accounted
<1>4. gone' \in 0 .. MaxLost /\ adrift' \in Nat
  BY <1>1, <1>2, <1>3
<1>5. SignupTypeOK'
  BY <1>1, <1>4 DEF SignupInv, SignupTypeOK, InBackend, Callers
<1>6. OneCall'
  BY <1>1 DEF OneCall
<1>7. Accounted'
  <2>1. ~\E c \in Callers : rsvp'[c] = "create"
    BY <1>1
  <2>2. adrift' <= gone' /\ records' + adrift' <= 1 + gone'
    BY <1>1, <1>2, <1>3
  <2>3. QED
    BY <2>1, <2>2 DEF Accounted
<1>8. QED
  BY <1>5, <1>6, <1>7 DEF SignupInv

LEMMA ArriveKeeps ==
    ASSUME SignupInv, Arrive
    PROVE  SignupInv'
<1>1. /\ records \in Nat /\ adrift \in Nat /\ gone \in Nat /\ adrift > 0 /\ adrift' = adrift - 1
      /\ records' = records \/ records' = records + 1
      /\ UNCHANGED <<cookie, flow, rsvp, pendingEmails, userRow, gone>>
  BY DEF SignupInv, SignupTypeOK, Arrive
<1>2. records' \in Nat /\ adrift' \in Nat /\ records' + adrift' <= records + adrift /\ adrift' <= adrift
  BY <1>1
<1>3. SignupTypeOK' /\ OneCall'
  BY <1>1, <1>2 DEF SignupInv, SignupTypeOK, OneCall
<1>4. Accounted'
  <2>1. /\ adrift <= gone /\ records + adrift <= 1 + gone /\ gone' = gone /\ rsvp' = rsvp
        /\ (\E c \in Callers : rsvp[c] = "create") => records + adrift <= gone
    BY <1>1 DEF SignupInv, Accounted
  <2>2. CASE records' = records
    BY <1>1, <2>1, <2>2 DEF Accounted
  <2>3. CASE records' = records + 1
    BY <1>1, <2>1, <2>3 DEF Accounted
  <2>4. QED
    BY <1>1, <2>2, <2>3
<1>5. QED
  BY <1>3, <1>4 DEF SignupInv

LEMMA SignupInvInit == SignupInit => SignupInv
<1> SUFFICES ASSUME SignupInit PROVE SignupInv
  OBVIOUS
<1>1. /\ cookie = NoState /\ flow = [l \in Logins |-> "out"] /\ rsvp = [c \in Callers |-> "idle"]
      /\ records = 0 /\ adrift = 0 /\ gone = 0 /\ MaxLost \in Nat
  BY SignupAssumption DEF SignupInit
<1>2. pendingEmails \in BOOLEAN /\ userRow \in BOOLEAN
  BY Zenon DEF SignupInit
<1>3. SignupTypeOK
  BY <1>1, <1>2 DEF SignupTypeOK, Callers
<1>4. QED
  BY <1>1, <1>3 DEF SignupInv, OneCall, Accounted

LEMMA SignupInvStep == SignupInv /\ [SignupNext]_signupVars => SignupInv'
<1> SUFFICES ASSUME SignupInv, [SignupNext]_signupVars PROVE SignupInv'
  OBVIOUS
<1>1. CASE UNCHANGED signupVars
  BY <1>1 DEF signupVars, SignupInv, SignupTypeOK, OneCall, Accounted
<1>2. QED
  BY <1>1, LoginMoves, RsvpStep, RestartKeeps, ArriveKeeps DEF SignupNext

(* The sign-ins, the calls of createRsvp and the counts of records keep     *)
(* their types; a sign-in waits while its own call runs.                    *)
THEOREM SignupTypeCorrect == SignupSpec => []SignupTypeOK
<1>1. SignupInv => SignupTypeOK
  BY DEF SignupInv
<1>2. QED
  BY <1>1, SignupInvInit, SignupInvStep, PTL DEF SignupSpec

(* createRsvp makes one record, for any number of sign-ins, clicks and      *)
(* restarts, but for POSTs whose answer the backend never saw.              *)
THEOREM RsvpMakesOne == SignupSpec => []OneRecord
<1>1. SignupInv => OneRecord
  BY DEF SignupInv, SignupTypeOK, Accounted, OneRecord
<1>2. QED
  BY <1>1, SignupInvInit, SignupInvStep, PTL DEF SignupSpec

-----------------------------------------------------------------------------
(* Impersonation.  A lent token never stands beside a refresh token: what   *)
(* sets the one removes the other.  So no copy of the cookies that a later  *)
(* impersonation stashes holds a lent token, and none is given back for the *)
(* admin's own; until an impersonation ends that had stashed no access      *)
(* token.                                                                   *)
Cell(k) ==
    /\ k \in [CookieNames -> Contents \cup {Nothing}]
    /\ k.auth_token \in {"admin", "lent", "bare", Nothing} /\ k.refresh_token \in {"session", Nothing}
    /\ k.admin_auth_token \in {"admin", "lent", "bare", Nothing}
    /\ k.admin_refresh_token \in {"session", Nothing} /\ k.impersonating \in {"1", Nothing}

Change(k) ==
    /\ k \in [CookieNames -> Contents \cup {Nothing, "kept"}]
    /\ k.auth_token \in {"admin", "lent", "bare", Nothing, "kept"}
    /\ k.refresh_token \in {"session", Nothing, "kept"}
    /\ k.admin_auth_token \in {"admin", "lent", "bare", Nothing, "kept"}
    /\ k.admin_refresh_token \in {"session", Nothing, "kept"} /\ k.impersonating \in {"1", Nothing, "kept"}

SoundCookies(k) ==
    /\ k.auth_token = "lent" => (k.impersonating = "1" /\ k.refresh_token = Nothing) \/ unrestored
    /\ k.admin_auth_token = "lent" => unrestored
    /\ k.impersonating = "1" => k.admin_auth_token = "admin" \/ k.admin_refresh_token = "session"

SoundCopy(k) ==
    /\ k.auth_token = "lent" => k.refresh_token = Nothing \/ unrestored
    /\ k.admin_auth_token = "lent" => unrestored

SoundChange(k) ==
    /\ k.auth_token = "lent" => (k.impersonating = "1" /\ k.refresh_token = Nothing) \/ unrestored
    /\ k.refresh_token = "session" => k.auth_token # "kept" \/ k.impersonating = Nothing \/ unrestored
    /\ k.admin_auth_token = "lent" => unrestored
    /\ k.impersonating = "1" => k.admin_auth_token = "admin" \/ k.admin_refresh_token = "session"
    /\ k.impersonating = "kept" => k.admin_auth_token = "kept" /\ k.admin_refresh_token = "kept"

ClickRecord == [stage: {"none", "sent", "back"}, asks: Askings \cup {"none"},
          carries: [CookieNames -> Contents \cup {Nothing}],
          sets: [CookieNames -> Contents \cup {Nothing, "kept"}]]

SoundClick(q) ==
    /\ q \in ClickRecord
    /\ q.stage = "sent" => q.asks \in Askings
    /\ Cell(q.carries) /\ SoundCopy(q.carries) /\ Change(q.sets) /\ SoundChange(q.sets)

ImpInv ==
    /\ unrestored \in BOOLEAN /\ Cell(cookies) /\ SoundCookies(cookies)
    /\ click \in [Clicks -> ClickRecord] /\ \A c \in Clicks : SoundClick(click[c])

LEMMA NothingElse == Nothing \notin {"admin", "lent", "bare", "session", "1", "kept"}
  BY ImpersonationAssumption DEF Contents

LEMMA OverIs ==
    ASSUME NEW sets, Change(sets), NEW brought, Cell(brought)
    PROVE  /\ Cell(Over(sets, brought))
           /\ \A n \in CookieNames :
                Over(sets, brought)[n] = IF sets[n] = "kept" THEN brought[n] ELSE sets[n]
<1>1. \A n \in CookieNames :
        Over(sets, brought)[n] = IF sets[n] = "kept" THEN brought[n] ELSE sets[n]
  BY DEF Over
<1>2. Over(sets, brought) \in [CookieNames -> Contents \cup {Nothing}]
  BY DEF Over, Change, Cell
<1>3. QED
  BY <1>1, <1>2, NothingElse DEF Cell, Change, CookieNames

(* What an answer may do, before anybody is impersonated.                   *)
LEMMA PlainChanges ==
    /\ Change(Kept) /\ SoundChange(Kept) /\ Change(Fresh) /\ SoundChange(Fresh)
    /\ \A n \in CookieNames : Kept[n] = "kept"
    /\ Fresh.auth_token = "admin" /\ Fresh.refresh_token = "session"
    /\ \A n \in CookieNames \ {"auth_token", "refresh_token"} : Fresh[n] = "kept"
  BY NothingElse DEF Kept, Fresh, Change, SoundChange, CookieNames, Contents

LEMMA RemovedIs ==
    ASSUME NEW names
    PROVE  /\ Change(Removed(names))
           /\ \A n \in CookieNames : Removed(names)[n] = IF n \in names THEN Nothing ELSE "kept"
  BY DEF Removed, Change, CookieNames, Contents

LEMMA ProxySound ==
    ASSUME NEW brought, Cell(brought), NEW sets \in Proxyings(brought)
    PROVE  /\ Change(sets) /\ SoundChange(sets)
           /\ \A n \in {"admin_auth_token", "admin_refresh_token", "impersonating"} : sets[n] = "kept"
           /\ \/ sets.auth_token = "kept" /\ sets.refresh_token = "kept" /\ brought.auth_token # Nothing
              \/ /\ sets.auth_token = "admin" /\ sets.refresh_token = "session"
                 /\ brought.refresh_token = "session"
              \/ sets.auth_token = Nothing /\ sets.refresh_token \in {"kept", Nothing}
<1>1. \/ sets = Kept /\ brought.auth_token # Nothing
      \/ sets = Fresh /\ brought.refresh_token = "session"
      \/ sets = Removed({"auth_token"})
      \/ sets = Removed({"auth_token", "refresh_token"})
  BY DEF Proxyings, Refreshings, Cell
<1>2. CASE sets = Kept /\ brought.auth_token # Nothing
  BY <1>2, PlainChanges, NothingElse DEF CookieNames
<1>3. CASE sets = Fresh /\ brought.refresh_token = "session"
  BY <1>3, PlainChanges, NothingElse DEF CookieNames
<1>4. CASE sets = Removed({"auth_token"}) \/ sets = Removed({"auth_token", "refresh_token"})
  BY <1>4, RemovedIs, NothingElse DEF CookieNames, SoundChange
<1>5. QED
  BY <1>1, <1>2, <1>3, <1>4

LEMMA ImpersonatedSound ==
    ASSUME NEW brought, Cell(brought), SoundCopy(brought), NEW sets \in Proxyings(brought)
    PROVE  Change(Impersonated(brought, sets)) /\ SoundChange(Impersonated(brought, sets))
<1> DEFINE seen == Over(sets, brought)
           next == Impersonated(brought, sets)
<1>1. Change(sets) /\ SoundChange(sets)
  BY ProxySound
<1>2. seen.auth_token = IF sets.auth_token = "kept" THEN brought.auth_token ELSE sets.auth_token
  BY <1>1, OverIs DEF CookieNames
<1>3. CASE seen.auth_token # "admin"
  BY <1>1, <1>3 DEF Impersonated
<1>4. CASE seen.auth_token = "admin"
  <2>1. brought.auth_token = "admin" \/ brought.refresh_token = "session"
    BY <1>2, <1>4, ProxySound, NothingElse
  <2>2. next = [[Kept EXCEPT !.admin_auth_token = Copied(brought.auth_token),
                            !.admin_refresh_token = Copied(brought.refresh_token)]
                EXCEPT !.auth_token = "lent", !.refresh_token = Nothing, !.impersonating = "1"]
    BY <1>4 DEF Impersonated, Stash
  <2>3. /\ Copied(brought.auth_token) \in {"admin", "lent", "bare", "kept"}
        /\ Copied(brought.refresh_token) \in {"session", "kept"}
        /\ brought.auth_token = "admin" => Copied(brought.auth_token) = "admin"
        /\ brought.refresh_token = "session" => Copied(brought.refresh_token) = "session"
        /\ Copied(brought.auth_token) = "lent" => brought.auth_token = "lent"
    BY NothingElse DEF Copied, Cell
  <2>4. /\ next.auth_token = "lent" /\ next.refresh_token = Nothing /\ next.impersonating = "1"
        /\ next.admin_auth_token = Copied(brought.auth_token)
        /\ next.admin_refresh_token = Copied(brought.refresh_token)
        /\ next \in [CookieNames -> Contents \cup {Nothing, "kept"}]
    BY <2>2, <2>3 DEF Kept, CookieNames, Contents
  <2>5. brought.auth_token = "lent" => unrestored
    BY <2>1, NothingElse DEF SoundCopy
  <2>6. QED
    BY <2>1, <2>3, <2>4, <2>5, NothingElse DEF Change, SoundChange
<1>5. QED
  BY <1>3, <1>4

LEMMA ProfiledSound ==
    ASSUME NEW brought, Cell(brought), NEW sets \in Proxyings(brought)
    PROVE  Change(Profiled(brought, sets)) /\ SoundChange(Profiled(brought, sets))
<1> DEFINE token == Edited(Over(sets, brought).auth_token)
           next == Profiled(brought, sets)
<1>1. Change(sets) /\ SoundChange(sets)
  BY ProxySound
<1>2. token \in {"admin", "bare", Nothing}
  BY <1>1, OverIs DEF Cell, Edited
<1> HIDE DEF token
<1>3. next = [sets EXCEPT !.auth_token = token]
  BY DEF Profiled, token
<1>4. /\ next.auth_token = token /\ next \in [CookieNames -> Contents \cup {Nothing, "kept"}]
      /\ \A n \in CookieNames \ {"auth_token"} : next[n] = sets[n]
  BY <1>1, <1>2, <1>3 DEF Change, CookieNames, Contents
<1>5. QED
  BY <1>1, <1>2, <1>4, NothingElse DEF Change, SoundChange, CookieNames

LEMMA RestoredSound ==
    ASSUME NEW brought, Cell(brought), SoundCopy(brought)
    PROVE  Change(Restored(brought)) /\ SoundChange(Restored(brought))
<1> DEFINE next == Restored(brought)
           removed == Removed({"admin_auth_token", "admin_refresh_token", "impersonating"})
<1>1. CASE brought.admin_auth_token = Nothing /\ brought.admin_refresh_token = Nothing
  BY <1>1, PlainChanges DEF Restored
<1>2. CASE ~(brought.admin_auth_token = Nothing /\ brought.admin_refresh_token = Nothing)
  <2>1. next = [removed EXCEPT !.auth_token = Copied(brought.admin_auth_token),
                               !.refresh_token = Copied(brought.admin_refresh_token)]
    BY <1>2 DEF Restored
  <2>2. /\ Copied(brought.admin_auth_token) \in {"admin", "lent", "bare", "kept"}
        /\ Copied(brought.admin_refresh_token) \in {"session", "kept"}
        /\ Copied(brought.admin_auth_token) = "lent" => unrestored
    BY NothingElse DEF Copied, Cell, SoundCopy
  <2>3. /\ removed \in [CookieNames -> Contents \cup {Nothing, "kept"}]
        /\ removed.admin_auth_token = Nothing /\ removed.admin_refresh_token = Nothing
        /\ removed.impersonating = Nothing
    BY RemovedIs DEF Change, CookieNames
  <2> HIDE DEF next, removed
  <2>4. /\ next.auth_token = Copied(brought.admin_auth_token)
        /\ next.refresh_token = Copied(brought.admin_refresh_token)
        /\ next.admin_auth_token = Nothing /\ next.admin_refresh_token = Nothing
        /\ next.impersonating = Nothing
        /\ next \in [CookieNames -> Contents \cup {Nothing, "kept"}]
    BY <2>1, <2>2, <2>3 DEF CookieNames, Contents
  <2>5. Change(next) /\ SoundChange(next)
    BY <2>2, <2>4, NothingElse DEF Change, SoundChange
  <2>6. QED
    BY <2>5 DEF next
<1>3. QED
  BY <1>1, <1>2

(* Every answer, to whatever was asked with a sound copy, is sound.         *)
LEMMA OutcomeSound ==
    ASSUME NEW asks \in Askings, NEW brought, Cell(brought), SoundCopy(brought), NEW sets \in Outcomes(asks, brought)
    PROVE  Change(sets) /\ SoundChange(sets)
<1>1. CASE asks = "impersonate"
  <2>1. sets \in {Impersonated(brought, s) : s \in Proxyings(brought)} \cup Proxyings(brought)
    BY <1>1 DEF Outcomes
  <2>2. QED
    BY <2>1, ImpersonatedSound, ProxySound
<1>2. CASE asks = "profile"
  <2>1. sets \in {Profiled(brought, s) : s \in Proxyings(brought)}
    BY <1>2 DEF Outcomes
  <2>2. QED
    BY <2>1, ProfiledSound
<1>3. CASE asks = "proxy"
  BY <1>3, ProxySound DEF Outcomes
<1>4. CASE asks = "end"
  BY <1>4, RestoredSound DEF Outcomes
<1>5. CASE asks = "logout"
  <2>1. sets = Removed({"auth_token", "refresh_token"})
    BY <1>5 DEF Outcomes
  <2>2. QED
    BY <2>1, RemovedIs, NothingElse DEF SoundChange, CookieNames
<1>6. QED
  BY <1>1, <1>2, <1>3, <1>4, <1>5 DEF Askings

LEMMA NoClickSound == SoundClick(NoClick)
<1>1. Cell(Empty) /\ SoundCopy(Empty)
  BY NothingElse DEF Empty, Cell, SoundCopy, CookieNames, Contents
<1>2. Change(Kept) /\ SoundChange(Kept)
  BY PlainChanges
<1>3. QED
  BY <1>1, <1>2 DEF NoClick, SoundClick, ClickRecord, Cell, Change

(* One click moves, and no cookie does.                                     *)
LEMMA ClickKeeps ==
    ASSUME ImpInv, NEW c \in Clicks, NEW q, SoundClick(q), click' = [click EXCEPT ![c] = q],
           UNCHANGED <<cookies, unrestored>>
    PROVE  ImpInv'
<1>1. click' \in [Clicks -> ClickRecord] /\ \A d \in Clicks : SoundClick(click'[d])
  BY DEF ImpInv, SoundClick
<1>2. ASSUME NEW d \in Clicks PROVE SoundClick(click[d])'
  BY <1>1 DEF SoundClick, Cell, Change, SoundCopy, SoundChange
<1>3. QED
  BY <1>1, <1>2 DEF ImpInv, Cell, SoundCookies

LEMMA AskKeeps ==
    ASSUME ImpInv, NEW c \in Clicks, NEW what \in Askings, Ask(c, what)
    PROVE  ImpInv'
<1> DEFINE copy == [n \in CookieNames |-> IF n \in LooksAt(what) THEN cookies[n] ELSE Nothing]
           q == [stage |-> "sent", asks |-> what, sets |-> Kept, carries |-> copy]
<1>1. Cell(copy)
  BY DEF ImpInv, Cell, CookieNames, Contents
<1>2. SoundCopy(copy)
  <2>1. LooksAt(what) \in {{"admin_auth_token", "admin_refresh_token"}, {},
                           {"auth_token", "refresh_token"}}
    BY DEF LooksAt
  <2>2. /\ copy.auth_token = (IF "auth_token" \in LooksAt(what) THEN cookies.auth_token ELSE Nothing)
        /\ copy.refresh_token = (IF "refresh_token" \in LooksAt(what) THEN cookies.refresh_token ELSE Nothing)
        /\ copy.admin_auth_token =
             (IF "admin_auth_token" \in LooksAt(what) THEN cookies.admin_auth_token ELSE Nothing)
    BY DEF CookieNames
  <2>3. SoundCookies(cookies)
    BY DEF ImpInv
  <2> HIDE DEF copy
  <2>4. QED
    BY <2>1, <2>2, <2>3, NothingElse DEF SoundCopy, SoundCookies
<1> HIDE DEF copy
<1>3. SoundClick(q)
  BY <1>1, <1>2, PlainChanges DEF SoundClick, ClickRecord, Cell, Change
<1>4. click' = [click EXCEPT ![c] = q] /\ UNCHANGED <<cookies, unrestored>>
  BY DEF Ask, copy
<1> HIDE DEF q
<1>5. QED
  BY <1>3, <1>4, ClickKeeps

LEMMA HandleKeeps ==
    ASSUME ImpInv, NEW c \in Clicks, Handle(c)
    PROVE  ImpInv'
<1>1. SoundClick(click[c]) /\ click[c].stage = "sent" /\ UNCHANGED <<cookies, unrestored>>
  BY DEF ImpInv, Handle
<1>2. PICK sets \in Outcomes(click[c].asks, click[c].carries) :
        click' = [click EXCEPT ![c].stage = "back", ![c].carries = Empty, ![c].sets = sets]
  BY DEF Handle
<1>3. Change(sets) /\ SoundChange(sets)
  BY <1>1, <1>2, OutcomeSound DEF SoundClick
<1>4. Cell(Empty) /\ SoundCopy(Empty)
  BY NothingElse DEF Empty, Cell, SoundCopy, CookieNames, Contents
<1> DEFINE q == [click[c] EXCEPT !.stage = "back", !.carries = Empty, !.sets = sets]
<1>5. click' = [click EXCEPT ![c] = q]
  BY <1>2
<1>6. SoundClick(q)
  BY <1>1, <1>3, <1>4 DEF SoundClick, ClickRecord, Cell, Change
<1> HIDE DEF q
<1>7. QED
  BY <1>1, <1>5, <1>6, ClickKeeps

(* The cookies take on a sound change; whoever is still under way does not  *)
(* notice.                                                                  *)
LEMMA ReceiveKeeps ==
    ASSUME ImpInv, NEW c \in Clicks, Receive(c)
    PROVE  ImpInv'
<1> DEFINE sets == click[c].sets
<1>1. /\ Change(sets) /\ SoundChange(sets) /\ Cell(cookies) /\ SoundCookies(cookies)
      /\ cookies' = Over(sets, cookies) /\ click' = [click EXCEPT ![c] = NoClick]
      /\ unrestored' = (unrestored \/ (sets.impersonating = Nothing /\ sets.auth_token = "kept"))
      /\ unrestored \in BOOLEAN
  BY DEF ImpInv, SoundClick, Receive, Ends
<1>2. unrestored' \in BOOLEAN /\ (unrestored => unrestored')
  BY <1>1
<1>3. Cell(cookies') /\ \A n \in CookieNames : cookies'[n] = IF sets[n] = "kept" THEN cookies[n] ELSE sets[n]
  BY <1>1, OverIs
<1>4. (sets.impersonating = Nothing /\ sets.auth_token = "kept") => unrestored'
  BY <1>1
<1> HIDE DEF sets
<1>5. SoundCookies(cookies)'
  BY <1>1, <1>2, <1>3, <1>4, NothingElse DEF SoundCookies, SoundChange, Change, Cell, CookieNames
<1>6. ASSUME NEW d \in Clicks PROVE SoundClick(click[d])'
  <2>1. SoundClick(click'[d])
    BY <1>1, NoClickSound DEF ImpInv
  <2>2. QED
    BY <1>2, <2>1 DEF SoundClick, Cell, Change, SoundCopy, SoundChange
<1>7. Cell(cookies)'
  BY <1>3 DEF Cell
<1>8. click' \in [Clicks -> ClickRecord]
  BY <1>1, NoClickSound DEF ImpInv, SoundClick
<1>9. QED
  BY <1>2, <1>5, <1>6, <1>7, <1>8 DEF ImpInv

(* The admin signs in, or an hour goes by.                                  *)
LEMMA CookiesKeep ==
    ASSUME ImpInv, NEW sets, Change(sets), cookies' = Over(sets, cookies), UNCHANGED <<click, unrestored>>,
           \/ sets = Fresh
           \/ \E names : /\ sets = Removed(names) /\ names \subseteq {"impersonating", "admin_auth_token", "auth_token"}
                         /\ cookies.auth_token = "lent" => "auth_token" \in names
                         /\ "admin_auth_token" \in names => "impersonating" \in names
    PROVE  ImpInv'
<1>1. Cell(cookies) /\ SoundCookies(cookies) /\ unrestored' = unrestored /\ click' = click
  BY DEF ImpInv
<1>2. Cell(cookies') /\ \A n \in CookieNames : cookies'[n] = IF sets[n] = "kept" THEN cookies[n] ELSE sets[n]
  BY <1>1, OverIs
<1>3. SoundCookies(cookies)'
  <2>1. CASE sets = Fresh
    BY <1>1, <1>2, <2>1, PlainChanges, NothingElse DEF SoundCookies, CookieNames
  <2>2. CASE sets # Fresh
    <3>1. PICK names : /\ sets = Removed(names)
                       /\ names \subseteq {"impersonating", "admin_auth_token", "auth_token"}
                       /\ cookies.auth_token = "lent" => "auth_token" \in names
                       /\ "admin_auth_token" \in names => "impersonating" \in names
      BY <2>2
    <3>2. \A n \in CookieNames : cookies'[n] = IF n \in names THEN Nothing ELSE cookies[n]
      BY <1>2, <3>1, RemovedIs, NothingElse
    <3>3. QED
      BY <1>1, <3>1, <3>2, NothingElse DEF SoundCookies, CookieNames
  <2>3. QED
    BY <2>1, <2>2
<1>4. Cell(cookies)' /\ \A c \in Clicks : SoundClick(click[c])'
  BY <1>1, <1>2 DEF ImpInv, SoundClick, Cell, Change, SoundCopy, SoundChange
<1>5. QED
  BY <1>1, <1>3, <1>4 DEF ImpInv

LEMMA ElapseKeeps ==
    ASSUME ImpInv, Elapse
    PROVE  ImpInv'
<1> DEFINE names == IF cookies.auth_token = "lent" \/ cookies.impersonating = "1"
                    THEN {"impersonating", "admin_auth_token"}
                         \cup (IF cookies.auth_token = "lent" THEN {"auth_token"} ELSE {})
                    ELSE {"auth_token"}
<1>1. cookies' = Over(Removed(names), cookies) /\ UNCHANGED <<click, unrestored>>
  BY DEF Elapse
<1>2. /\ names \subseteq {"impersonating", "admin_auth_token", "auth_token"}
      /\ cookies.auth_token = "lent" => "auth_token" \in names
      /\ "admin_auth_token" \in names => "impersonating" \in names
  OBVIOUS
<1> HIDE DEF names
<1>3. QED
  BY <1>1, <1>2, RemovedIs, CookiesKeep

LEMMA ImpInvInit == ImpersonationInit => ImpInv
<1> SUFFICES ASSUME ImpersonationInit PROVE ImpInv
  OBVIOUS
<1>1. unrestored \in BOOLEAN
  BY Zenon DEF ImpersonationInit
<1>2. Cell(cookies) /\ SoundCookies(cookies)
  BY NothingElse DEF ImpersonationInit, Empty, Cell, SoundCookies, CookieNames, Contents
<1>3. QED
  BY <1>1, <1>2, NoClickSound DEF ImpersonationInit, ImpInv, SoundClick

LEMMA ImpInvStep == ImpInv /\ [ImpersonationNext]_impVars => ImpInv'
<1> SUFFICES ASSUME ImpInv, [ImpersonationNext]_impVars PROVE ImpInv'
  OBVIOUS
<1>1. CASE UNCHANGED impVars
  BY <1>1 DEF impVars, ImpInv, SoundCookies, SoundClick, Cell, Change, SoundCopy, SoundChange
<1>2. CASE SignIn
  BY <1>2, PlainChanges, CookiesKeep DEF SignIn
<1>3. ASSUME NEW c \in Clicks, Forget(c) PROVE ImpInv'
  BY <1>3, NoClickSound, ClickKeeps DEF Forget
<1>4. QED
  BY <1>1, <1>2, <1>3, ElapseKeeps, HandleKeeps, ReceiveKeeps, AskKeeps DEF ImpersonationNext

(* The cookies, and what every request brought and changes of them, keep    *)
(* their types.                                                             *)
THEOREM ImpersonationTypeCorrect == ImpersonationSpec => []ImpersonationTypeOK
<1>1. ImpInv => ImpersonationTypeOK
  BY DEF ImpInv, Cell, ImpersonationTypeOK, ClickRecord
<1>2. QED
  BY <1>1, ImpInvInit, ImpInvStep, PTL DEF ImpersonationSpec

(* impersonate and end-impersonate: whoever acts by a lent token sees the   *)
(* button that ends it, and it gives the admin's own session back, for any  *)
(* number of requests that cross, but for a token that had run out.         *)
THEOREM WayBackStays == ImpersonationSpec => []WayBack
<1>1. ImpInv => WayBack
  BY DEF ImpInv, SoundCookies, WayBack
<1>2. QED
  BY <1>1, ImpInvInit, ImpInvStep, PTL DEF ImpersonationSpec
-----------------------------------------------------------------------------
(***************************************************************************)
(* Perms.  A ban that stands is the latest verdict on record for as long   *)
(* as nothing lifts it: a failure of ownership that is logged after it     *)
(* ends that, and takes the mark off a sweep on its way.  So a sweep that  *)
(* saw the ban when it came to the user finds it in the log, and ends      *)
(* there.                                                                   *)
(***************************************************************************)

PermsInv ==
    /\ PermsTypeOK
    /\ held => hasManualBanAfterOwnershipFail
    /\ sweep.deliberate => hasManualBanAfterOwnershipFail /\ sweep.stage \in {"perms", "audit"}

Sweeps == [stage : {"asleep", "perms", "audit", "lookups", "clear"},
           id : Known, deliberate : BOOLEAN]
Verdicts == [failed : BOOLEAN, manual : BOOLEAN, last : {"none", "fail", "ban"}]

(* What moving the sweep on, or taking its mark off, keeps of it.           *)
LEMMA SweepMoves ==
    ASSUME sweep \in Sweeps
    PROVE  /\ \A stage \in {"asleep", "perms", "audit", "lookups", "clear"} :
                /\ [sweep EXCEPT !.stage = stage] \in Sweeps
                /\ [sweep EXCEPT !.stage = stage].stage = stage
                /\ [sweep EXCEPT !.stage = stage].deliberate = sweep.deliberate
           /\ [sweep EXCEPT !.deliberate = FALSE] \in Sweeps
           /\ ~[sweep EXCEPT !.deliberate = FALSE].deliberate
    BY DEF Sweeps

(* What the log says after an entry of either kind.                         *)
LEMMA VerdictMoves ==
    ASSUME audit \in Verdicts
    PROVE  LET failing == [audit EXCEPT !.failed = TRUE, !.last = "fail"]
               staffs == [audit EXCEPT !.manual = TRUE, !.last = "ban"]
           IN  /\ failing \in Verdicts /\ failing.failed /\ failing.last = "fail"
               /\ staffs \in Verdicts /\ staffs.manual /\ staffs.last = "ban"
    BY DEF Verdicts

(* A mark that says so is true of the log, and the sweep that bears it has  *)
(* not read the log yet.                                                    *)
Marked ==
    /\ held => hasManualBanAfterOwnershipFail
    /\ sweep.deliberate => hasManualBanAfterOwnershipFail /\ sweep.stage \in {"perms", "audit"}

(* A sweep that goes on, or ends, by what it has read.                      *)
LEMMA SweepStepKeepsMarks ==
    ASSUME PermsInv, SweepStart \/ SweepStep \/ SweepJudgesBlindly \/ SweepFails
    PROVE  sweep' \in Sweeps /\ Marked'
<1> USE DEF Marked, SweepAlone, hasManualBanAfterOwnershipFail
<1>1. /\ sweep \in Sweeps /\ Asleep \in Sweeps /\ ~Asleep.deliberate
      /\ held \in BOOLEAN /\ linked \in Known /\ Marked
  BY DEF PermsInv, PermsTypeOK, Sweeps, Known, Asleep
<1>2. audit' = audit /\ held' = held
  BY DEF SweepStart, SweepStep, SweepReadsPerms, SweepReadsAudit, SweepJudges,
         SweepJudgesBlindly, SweepClears, SweepFails
<1>3. CASE SweepStart
  BY <1>1, <1>2, <1>3 DEF SweepStart, Sweeps
<1>4. CASE SweepReadsPerms
  <2>1. \/ sweep' = Asleep
        \/ sweep' = [sweep EXCEPT !.stage = "audit"] /\ sweep.stage = "perms"
    BY <1>4 DEF SweepReadsPerms, Sweep
  <2> QED
    BY <2>1, <1>1, <1>2, SweepMoves
<1>5. CASE SweepReadsAudit
  <2>1. \/ sweep' = Asleep
        \/ sweep' = [sweep EXCEPT !.stage = "lookups"] /\ ~hasManualBanAfterOwnershipFail
    BY <1>5 DEF SweepReadsAudit, Sweep
  <2> QED
    BY <2>1, <1>1, <1>2, SweepMoves
<1>6. CASE SweepJudges \/ SweepJudgesBlindly
  <2>1. sweep' = Asleep \/ sweep' = [sweep EXCEPT !.stage = "clear"]
    BY <1>6 DEF SweepJudges, SweepJudgesBlindly, Sweep
  <2>2. sweep.stage = "lookups"
    BY <1>6 DEF SweepJudges, SweepJudgesBlindly
  <2> QED
    BY <2>1, <2>2, <1>1, <1>2, SweepMoves
<1>7. CASE SweepClears \/ SweepFails
  BY <1>1, <1>2, <1>7 DEF SweepClears, SweepFails
<1> QED
  BY <1>3, <1>4, <1>5, <1>6, <1>7 DEF SweepStep

LEMMA SweepKeepsPermsInv ==
    ASSUME PermsInv, SweepStart \/ SweepStep \/ SweepJudgesBlindly \/ SweepFails
    PROVE  PermsInv'
<1>1. /\ UNCHANGED <<flagged, check, audit, held, linked, connecting, banning, duty>>
      /\ perms' \in {perms, "Allowed"}
  BY DEF SweepStart, SweepStep, SweepReadsPerms, SweepReadsAudit, SweepJudges,
         SweepJudgesBlindly, SweepClears, SweepFails, SweepAlone, userVars, staffVars
<1>2. faults' \in 0 .. MaxFaults
  BY PermsAssumption DEF SweepStart, SweepStep, SweepReadsPerms, SweepReadsAudit, SweepJudges,
         SweepJudgesBlindly, SweepClears, SweepFails, PermsInv, PermsTypeOK
<1> QED
  BY <1>1, <1>2, SweepStepKeepsMarks DEF Marked, PermsInv, PermsTypeOK, Sweeps, Known

(* The check of an account: only its entry in the log says anything of bans *)
(* by the staff, and it takes the marks off.                                *)
LEMMA CheckKeepsPermsInv ==
    ASSUME PermsInv, CheckStart \/ CheckVerdict \/ CheckLog \/ CheckBans
    PROVE  PermsInv'
<1>1. CASE CheckStart \/ CheckVerdict \/ CheckBans
  BY <1>1 DEF CheckStart, CheckVerdict, CheckBans, Now, PermsInv, PermsTypeOK, Known,
              userVars, staffVars, sweepVars, hasManualBanAfterOwnershipFail
<1>2. CASE CheckLog /\ UNCHANGED <<audit, held, sweep>>
  BY <1>2 DEF CheckLog, Now, PermsInv, PermsTypeOK, Known, userVars, staffVars, sweepVars,
              hasManualBanAfterOwnershipFail
<1>3. CASE CheckLog /\ ~UNCHANGED <<audit, held, sweep>>
  <2>1. sweep \in Sweeps /\ audit \in Verdicts
    BY DEF PermsInv, PermsTypeOK, Sweeps, Verdicts
  <2>2. /\ audit' = [audit EXCEPT !.failed = TRUE, !.last = "fail"]
        /\ sweep' = [sweep EXCEPT !.deliberate = FALSE] /\ held' = FALSE
    BY <1>3 DEF CheckLog
  <2>3. /\ audit' \in Verdicts /\ audit'.failed /\ audit'.last = "fail"
        /\ sweep' \in Sweeps /\ ~sweep'.deliberate
    BY <2>1, <2>2, SweepMoves, VerdictMoves
  <2>4. check' \in [stage : {"idle", "lookups", "log", "perms"}, id : Known]
    BY <1>3 DEF CheckLog, Now, Known
  <2> QED
    BY <1>3, <2>2, <2>3, <2>4 DEF CheckLog, PermsInv, PermsTypeOK, Known, userVars, staffVars,
       Sweeps, Verdicts
<1> QED
  BY <1>1, <1>2, <1>3

(* The staff: whatever they log makes a ban the latest verdict, and         *)
(* updatePerms takes the marks off.                                         *)
LEMMA StaffKeepPermsInv ==
    ASSUME PermsInv,
           BanBegins \/ BanWrites \/ BanThrows \/ BanLogs \/ BansSomebody \/ SetPerms
    PROVE  PermsInv'
<1>0. sweep \in Sweeps /\ audit \in Verdicts
  BY DEF PermsInv, PermsTypeOK, Sweeps, Verdicts
<1>1. CASE UNCHANGED <<audit, held, sweep>>
  <2>1. /\ perms' \in {"Allowed", "Banned"} /\ banning' \in {"idle", "perms", "log"}
        /\ duty' \in BOOLEAN
        /\ UNCHANGED <<flagged, check, linked, connecting, faults>>
    BY DEF BanBegins, BanWrites, BanThrows, BanLogs, BansSomebody, SetPerms, PermsInv,
           PermsTypeOK, userVars, staffVars, sweepVars
  <2> QED
    BY <1>1, <2>1 DEF PermsInv, PermsTypeOK, Known, hasManualBanAfterOwnershipFail
<1>2. CASE LogBan /\ (BanLogs \/ BansSomebody)
  <2>1. audit' \in Verdicts /\ audit'.manual /\ audit'.last = "ban"
    BY <1>0, <1>2, VerdictMoves DEF LogBan
  <2>2. /\ banning' \in {"idle", "perms", "log"} /\ duty' \in BOOLEAN /\ held' \in BOOLEAN
        /\ UNCHANGED <<perms, flagged, check, linked, connecting, sweep, faults>>
    BY <1>2 DEF BanLogs, BansSomebody, PermsInv, PermsTypeOK, userVars, sweepVars
  <2>3. sweep.deliberate => sweep.stage \in {"perms", "audit"}
    BY DEF PermsInv
  <2> HIDE <1>2
  <2> QED
    BY <2>1, <2>2, <2>3 DEF PermsInv, PermsTypeOK, Known, Verdicts,
       hasManualBanAfterOwnershipFail
<1>3. CASE SetPerms
  <2>1. sweep' \in Sweeps /\ ~sweep'.deliberate
    BY <1>0, <1>3, SweepMoves DEF SetPerms
  <2>2. /\ perms' = "Allowed" /\ held' = FALSE
        /\ UNCHANGED <<flagged, check, audit, linked, connecting, banning, duty, faults>>
    BY <1>3 DEF SetPerms, userVars, staffVars
  <2>3. PermsTypeOK'
    BY <2>1, <2>2 DEF PermsInv, PermsTypeOK, Known, Sweeps
  <2> QED
    BY <2>1, <2>2, <2>3 DEF PermsInv
<1> QED
  BY <1>1, <1>2, <1>3 DEF BanBegins, BanWrites, BanThrows, BanLogs, BansSomebody, sweepVars

(* Connecting an account, and what Hackatime says of it, log nothing.       *)
LEMMA UserKeepsPermsInv ==
    ASSUME PermsInv,
           ConnectChecks \/ ConnectSaves \/ \E a \in Accounts : Connect(a) \/ Hackatime(a)
    PROVE  PermsInv'
<1>1. CASE ConnectChecks \/ ConnectSaves
  BY <1>1 DEF ConnectChecks, ConnectSaves, Now, PermsInv, PermsTypeOK, Known,
              staffVars, sweepVars, hasManualBanAfterOwnershipFail
<1>2. ASSUME NEW a \in Accounts, Connect(a) \/ Hackatime(a)
      PROVE  PermsInv'
  BY <1>2 DEF Connect, Hackatime, PermsInv, PermsTypeOK, Known, userVars,
              staffVars, sweepVars, hasManualBanAfterOwnershipFail
<1> QED
  BY <1>1, <1>2

LEMMA PermsInvInit == PermsInit => PermsInv
<1> SUFFICES ASSUME PermsInit PROVE PermsInv
  OBVIOUS
<1>1. sweep \in Sweeps /\ ~sweep.deliberate
  BY DEF PermsInit, Asleep, Sweeps, Known
<1>2. audit \in Verdicts /\ audit.last = "none"
  BY DEF PermsInit, Verdicts
<1>3. /\ perms = "Allowed" /\ linked \in Known /\ flagged \subseteq Accounts
      /\ check \in [stage : {"idle", "lookups", "log", "perms"}, id : Known]
      /\ connecting \in [stage : {"idle", "me", "save"}, id : Known]
      /\ banning = "idle" /\ duty = FALSE /\ held = FALSE /\ faults \in 0 .. MaxFaults
  BY PermsAssumption DEF PermsInit, Known, Now
<1>4. PermsTypeOK
  BY <1>1, <1>2, <1>3 DEF PermsTypeOK, Sweeps, Verdicts
<1> QED
  BY <1>1, <1>3, <1>4 DEF PermsInv

LEMMA PermsInvStep == PermsInv /\ [PermsNext]_permsVars => PermsInv'
<1> SUFFICES ASSUME PermsInv, [PermsNext]_permsVars PROVE PermsInv'
  OBVIOUS
<1>1. CASE PermsNext
  BY <1>1, SweepKeepsPermsInv, CheckKeepsPermsInv, StaffKeepPermsInv, UserKeepsPermsInv
     DEF PermsNext
<1>2. CASE UNCHANGED permsVars
  BY <1>2 DEF permsVars, userVars, staffVars, sweepVars, PermsInv, PermsTypeOK, Known,
              hasManualBanAfterOwnershipFail
<1> QED
  BY <1>1, <1>2

(* The bans on record and what the sweep has seen of them, always.          *)
THEOREM PermsInvariant == PermsSpec => []PermsInv
  BY PermsInvInit, PermsInvStep, PTL DEF PermsSpec

(* The user's Perms, the log and every flow that sets them keep their types.*)
THEOREM PermsTypeCorrect == PermsSpec => []PermsTypeOK
<1>1. PermsInv => PermsTypeOK
  BY DEF PermsInv
<1> QED
  BY <1>1, PermsInvariant, PTL

(* hasManualBanAfterOwnershipFail keeps what it is for: however the sweep   *)
(* and a ban interleave, no sweep lifts a ban by the staff that stood when  *)
(* it came to the user.                                                     *)
THEOREM ManualBansAreKept == PermsSpec => ManualBanHeld
<1>1. PermsInv => (SweepClears => ~sweep.deliberate)
  BY DEF PermsInv, SweepClears
<1>2. PermsInv /\ [PermsNext]_permsVars => [SweepClears => ~sweep.deliberate]_permsVars
  BY <1>1
<1> QED
  BY <1>2, PermsInvariant, PTL DEF PermsSpec, ManualBanHeld

-----------------------------------------------------------------------------
(***************************************************************************)
(* Access.  What a request that is past its lookup knows: the role it asks *)
(* for may be given by who asks, and the user it is about was not elevated *)
(* unless somebody else has elevated them since.                            *)
(***************************************************************************)

(* The request is a record with these fields.                               *)
IsAsk(a) == a = [stage |-> a.stage, route |-> a.route, to |-> a.to, as |-> a.as,
                 blind |-> a.blind, moved |-> a.moved, late |-> a.late]

Elevates(a) == ~isSuperAdmin(a.as) /\ a.to \in ELEVATED_PERMS

AskInv ==
    /\ IsAsk(ask) /\ DOMAIN roles = {"me", "user"}
    /\ ask.stage \in {"lookup", "write"} => ~Elevates(ask)
    /\ ask.stage = "write" /\ ~isSuperAdmin(ask.as) /\ roles["user"] \in ELEVATED_PERMS => ask.late

LEMMA NoAskIs == IsAsk(NoAsk) /\ NoAsk.stage = "none"
  BY DEF IsAsk, NoAsk

(* The handler: the check of the role asked for comes before the lookup.    *)
LEMMA HandlingKeepsAskInv == AskInv /\ HandleAsk => AskInv'
<1> SUFFICES ASSUME AskInv, HandleAsk PROVE AskInv'
  OBVIOUS
<1> DEFINE moved(stage) == [ask EXCEPT !.stage = stage]
<1>1. UNCHANGED roles
  BY DEF HandleAsk
<1>2. \/ ask' = NoAsk \/ ask' = moved("refused")
      \/ /\ ~Elevates(ask)
         /\ ask' = moved(IF isSuperAdmin(ask.as) THEN "write" ELSE "lookup")
  <2>1. CASE Elevates(ask)
    <3>1. ask.to # "Banned" /\ ask.to \in ELEVATED_PERMS /\ ~isSuperAdmin(ask.as)
          /\ ask.to # Untold
      BY <2>1 DEF Elevates, ELEVATED_PERMS, Untold
    <3> QED
      BY <3>1 DEF HandleAsk
  <2>2. CASE ~Elevates(ask)
    BY <2>2 DEF HandleAsk, Elevates
  <2> QED
    BY <2>1, <2>2
<1>3. \A stage \in {"refused", "write", "lookup"} :
         /\ IsAsk(moved(stage)) /\ moved(stage).stage = stage
         /\ moved(stage).as = ask.as /\ moved(stage).to = ask.to
  BY DEF AskInv, IsAsk
<1> HIDE DEF moved
<1>4. CASE ask' = NoAsk \/ ask' = moved("refused")
  BY <1>1, <1>3, <1>4, NoAskIs DEF AskInv
<1>5. CASE isSuperAdmin(ask.as) /\ ~Elevates(ask) /\ ask' = moved("write")
  BY <1>1, <1>3, <1>5 DEF AskInv, Elevates
<1>6. CASE ~isSuperAdmin(ask.as) /\ ~Elevates(ask) /\ ask' = moved("lookup")
  BY <1>1, <1>3, <1>6 DEF AskInv, Elevates
<1> QED
  BY <1>2, <1>4, <1>5, <1>6

(* The lookup of the user's role, and somebody who changes it after that.   *)
LEMMA LookingUpKeepsAskInv == AskInv /\ LookUpTarget => AskInv'
<1> SUFFICES ASSUME AskInv, LookUpTarget PROVE AskInv'
  OBVIOUS
<1>1. PICK stage \in {"refused", "write"} :
         /\ ask' = [ask EXCEPT !.stage = stage] /\ UNCHANGED roles
         /\ stage = "write" => roles["user"] \notin ELEVATED_PERMS
         /\ ask.stage = "lookup"
  BY DEF LookUpTarget
<1>2. /\ IsAsk(ask') /\ ask'.stage = stage
      /\ ask'.as = ask.as /\ ask'.to = ask.to
  BY <1>1 DEF AskInv, IsAsk
<1> QED
  BY <1>1, <1>2 DEF AskInv, Elevates

LEMMA ChangingKeepsAskInv ==
    ASSUME AskInv, NEW who \in {"me", "user"}, ChangeRole(who)
    PROVE  AskInv'
<1>1. PICK role \in VALID_PERMS : roles' = [roles EXCEPT ![who] = role]
  BY DEF ChangeRole
<1>2. DOMAIN roles' = {"me", "user"} /\ (who = "me" => roles'["user"] = roles["user"])
  BY <1>1 DEF AskInv
<1>3. CASE ask = NoAsk /\ ask' = ask
  BY <1>2, <1>3, NoAskIs DEF AskInv
<1>4. CASE ask' = [ask EXCEPT !.moved = @ \cup {who},
                              !.late = @ \/ (who = "user" /\ ask.stage = "write")]
  <2>1. /\ IsAsk(ask') /\ ask'.stage = ask.stage
        /\ ask'.as = ask.as /\ ask'.to = ask.to
        /\ ask'.late = (ask.late \/ (who = "user" /\ ask.stage = "write"))
    BY <1>4 DEF AskInv, IsAsk
  <2> QED
    BY <1>2, <2>1 DEF AskInv, Elevates
<1> QED
  BY <1>3, <1>4 DEF ChangeRole

LEMMA AskInvStep == AskInv /\ [AccessNext]_accessVars => AskInv'
<1> SUFFICES ASSUME AskInv, [AccessNext]_accessVars PROVE AskInv'
  OBVIOUS
<1>1. CASE UNCHANGED <<roles, ask>>
  BY <1>1 DEF AskInv
<1>2. CASE AskFor
  <2>1. IsAsk(ask') /\ ask'.stage = "sent" /\ UNCHANGED roles
    BY <1>2 DEF AskFor, NoAsk, IsAsk
  <2> QED
    BY <2>1 DEF AskInv
<1>3. CASE Guard
  <2>1. IsAsk(ask') /\ ask'.stage \in {"passed", "refused"} /\ UNCHANGED roles
    BY <1>3 DEF Guard, IsAsk, AskInv
  <2> QED
    BY <2>1 DEF AskInv
<1>4. CASE WritePerms \/ Done
  <2>1. ask' = NoAsk /\ DOMAIN roles' = {"me", "user"}
    BY <1>4 DEF WritePerms, Done, AskInv
  <2> QED
    BY <2>1, NoAskIs DEF AskInv
<1>5. CASE selectUser \/ \E at \in DOMAIN Scope : Open(at)
  <2>1. UNCHANGED <<roles, ask>>
    BY <1>5 DEF selectUser, Open
  <2> QED
    BY <2>1, <1>1
<1> QED
  BY <1>1, <1>2, <1>3, <1>4, <1>5, HandlingKeepsAskInv, LookingUpKeepsAskInv, ChangingKeepsAskInv
     DEF AccessNext, accessVars

(* updatePerms and banUser: for any number of changes of roles while a      *)
(* request is on its way, only a Super Admin gives the role of Fulfiller or *)
(* Super Admin; and nobody else takes it from a user who had it when their  *)
(* role was looked up.                                                      *)
THEOREM ElevationIsGuarded == AccessSpec => ElevatedBySuperAdmins
<1> DEFINE Just == WritePerms /\ ~isSuperAdmin(ask.as) =>
                          /\ ask.to \notin ELEVATED_PERMS
                          /\ roles["user"] \in ELEVATED_PERMS => ask.late
<1>1. AccessInit => AskInv
  BY NoAskIs DEF AccessInit, AskInv
<1>2. AskInv => Just
  BY DEF AskInv, WritePerms, Elevates
<1>3. AskInv /\ [AccessNext]_accessVars => [Just]_accessVars
  BY <1>2
<1> QED
  BY <1>1, <1>3, AskInvStep, PTL DEF AccessSpec, ElevatedBySuperAdmins

(***************************************************************************)
(* Access, the other half: the guards of the routes mirror what the pages  *)
(* offer.  While a request is on its way the page it was sent from still   *)
(* offers it, and tells of every role that has changed since.              *)
(***************************************************************************)

(* The routes, by their guard.                                              *)
FulfillerRoutes ==
    {"users", "users/:id", "users/:id/ban", "users/:id/perms", "stats/dau", "stats/signups",
     "stats/funnel", "news", "news/:id", "shop", "shop/reorder", "shop/:id", "shop/:id/buyers",
     "orders", "orders/:id/detail", "orders/:id/fulfill", "orders/:id/refund",
     "orders/:id/merge", "orders/:id/message", "silo/status", "silo/grant"}
ReviewerRoutes ==
    {"users/:id/watchlist", "users/:id/cool-builder", "projects", "projects/hours",
     "projects/my-claims", "projects/:id/hackatime", "projects/:id/claim",
     "projects/:id/review", "projects/:id/reviews", "projects/:id/devlogs",
     "projects/:id/devlogs/export", "devlogs/:id/review", "projects/:id/lookout",
     "lookout-sessions/:id/mirror", "review-leaderboard"}
FraudRoutes ==
    {"audit/queue", "audit/:id/iframe-context", "audit/:id/decision", "fraud/queue",
     "fraud/:id/clear", "fraud/:id/ban"}
SuperRoutes ==
    {"users/:id/pipes", "users/:id/identity-override", "users/:id/submission-extension",
     "users/:id/unrestricted-access", "users/:id/impersonate", "users/:id/attend-invite",
     "events", "events/:id", "stats/unreviewed-hours", "stats/pipes", "stats/pipes/holders",
     "settings/resubmission-paused", "audit/load-unreviewed", "golden/backfill-cool-builders",
     "shop/notify-closing", "shop/sync-closing-email", "projects/:id/resync-airtable",
     "hcb/status", "hcb/connect", "hcb/card-grant/bulk"}

(* f is a table of the routes in D.                                         *)
Table(f, D) ==
    /\ DOMAIN f = D
    /\ \A r \in D \cap FulfillerRoutes : f[r] = FulfillerGuard
    /\ \A r \in D \cap ReviewerRoutes : f[r] = ReviewerGuard
    /\ \A r \in D \cap FraudRoutes : f[r] = FraudReviewerGuard
    /\ \A r \in D \cap SuperRoutes : f[r] = SuperAdminGuard

LEMMA MergeIs ==
    ASSUME NEW f, NEW g
    PROVE  /\ DOMAIN (f ++ g) = DOMAIN f \cup DOMAIN g
           /\ \A r \in DOMAIN f : (f ++ g)[r] = f[r]
           /\ \A r \in DOMAIN g \ DOMAIN f : (f ++ g)[r] = g[r]
    BY DEF ++

LEMMA MergeTables ==
    ASSUME NEW f, NEW D, NEW g, NEW E, Table(f, D), Table(g, E), D \cap E = {}
    PROVE  Table(f ++ g, D \cup E)
<1> DEFINE h == f ++ g
<1>1. /\ DOMAIN h = D \cup E
      /\ \A r \in D : h[r] = f[r]
      /\ \A r \in E : h[r] = g[r]
    <2>1. /\ DOMAIN h = DOMAIN f \cup DOMAIN g
          /\ \A r \in DOMAIN f : h[r] = f[r]
          /\ \A r \in DOMAIN g \ DOMAIN f : h[r] = g[r]
        BY MergeIs
    <2> HIDE DEF h
    <2> QED
        BY <2>1 DEF Table
<1> HIDE DEF h
<1>2. Table(h, D \cup E)
    BY <1>1 DEF Table
<1> QED
    BY <1>2 DEF h

LEMMA GuardsAre ==
    Table(Guards, FulfillerRoutes \cup ReviewerRoutes \cup FraudRoutes \cup SuperRoutes)
<1> DEFINE D1 == {"users", "users/:id", "users/:id/ban", "users/:id/perms",
                  "users/:id/watchlist", "users/:id/cool-builder", "users/:id/pipes",
                  "users/:id/identity-override", "users/:id/submission-extension"}
           D2 == {"users/:id/unrestricted-access", "users/:id/impersonate",
                  "users/:id/attend-invite", "events", "events/:id", "stats/dau",
                  "stats/signups", "stats/funnel"}
           D3 == {"stats/unreviewed-hours", "stats/pipes", "stats/pipes/holders",
                  "settings/resubmission-paused"}
           D4 == {"projects", "projects/hours", "projects/my-claims",
                  "projects/:id/hackatime", "projects/:id/claim", "projects/:id/review"}
           D5 == {"projects/:id/reviews", "projects/:id/devlogs",
                  "projects/:id/devlogs/export", "devlogs/:id/review",
                  "projects/:id/lookout", "lookout-sessions/:id/mirror",
                  "review-leaderboard"}
           D6 == {"audit/queue", "audit/:id/iframe-context", "audit/:id/decision",
                  "fraud/queue", "fraud/:id/clear", "fraud/:id/ban",
                  "audit/load-unreviewed", "golden/backfill-cool-builders",
                  "shop/notify-closing", "shop/sync-closing-email",
                  "projects/:id/resync-airtable"}
           D7 == {"news", "news/:id", "shop", "shop/reorder", "shop/:id", "shop/:id/buyers"}
           D8 == {"orders", "orders/:id/detail", "orders/:id/fulfill", "orders/:id/refund",
                  "orders/:id/merge", "orders/:id/message"}
           D9 == {"hcb/status", "hcb/connect", "hcb/card-grant/bulk", "silo/status",
                  "silo/grant"}
<1>1. Table(UserRoutes, D1)
    BY DEF UserRoutes, Guarded, ++, Table, FulfillerRoutes, ReviewerRoutes, FraudRoutes, SuperRoutes
<1>2. Table(EventRoutes, D2)
    BY DEF EventRoutes, Guarded, ++, Table, FulfillerRoutes, ReviewerRoutes, FraudRoutes, SuperRoutes
<1>3. Table(StatsRoutes, D3)
    BY DEF StatsRoutes, Guarded, ++, Table, FulfillerRoutes, ReviewerRoutes, FraudRoutes, SuperRoutes
<1>4. Table(ProjectRoutes, D4)
    BY DEF ProjectRoutes, Guarded, ++, Table, FulfillerRoutes, ReviewerRoutes, FraudRoutes, SuperRoutes
<1>5. Table(EvidenceRoutes, D5)
    BY DEF EvidenceRoutes, Guarded, ++, Table, FulfillerRoutes, ReviewerRoutes, FraudRoutes, SuperRoutes
<1>6. Table(AuditRoutes, D6)
    BY DEF AuditRoutes, Guarded, ++, Table, FulfillerRoutes, ReviewerRoutes, FraudRoutes, SuperRoutes
<1>7. Table(ShopRoutes, D7)
    BY DEF ShopRoutes, Guarded, ++, Table, FulfillerRoutes, ReviewerRoutes, FraudRoutes, SuperRoutes
<1>8. Table(OrderRoutes, D8)
    BY DEF OrderRoutes, Guarded, ++, Table, FulfillerRoutes, ReviewerRoutes, FraudRoutes, SuperRoutes
<1>9. Table(GrantRoutes, D9)
    BY DEF GrantRoutes, Guarded, ++, Table, FulfillerRoutes, ReviewerRoutes, FraudRoutes, SuperRoutes
<1>10. Table(UserRoutes ++ EventRoutes,
             D1 \cup D2)
    <2>1. (D1) \cap D2 = {}
        OBVIOUS
    <2> HIDE DEF D1, D2
    <2> QED
        BY <1>1, <1>2, <2>1, MergeTables
<1>11. Table(UserRoutes ++ EventRoutes ++ StatsRoutes,
             D1 \cup D2 \cup D3)
    <2>1. (D1 \cup D2) \cap D3 = {}
        OBVIOUS
    <2> HIDE DEF D1, D2, D3
    <2> QED
        BY <1>10, <1>3, <2>1, MergeTables
<1>12. Table(UserRoutes ++ EventRoutes ++ StatsRoutes ++ ProjectRoutes,
             D1 \cup D2 \cup D3 \cup D4)
    <2>1. (D1 \cup D2 \cup D3) \cap D4 = {}
        OBVIOUS
    <2> HIDE DEF D1, D2, D3, D4
    <2> QED
        BY <1>11, <1>4, <2>1, MergeTables
<1>13. Table(UserRoutes ++ EventRoutes ++ StatsRoutes ++ ProjectRoutes ++ EvidenceRoutes,
             D1 \cup D2 \cup D3 \cup D4 \cup D5)
    <2>1. (D1 \cup D2 \cup D3 \cup D4) \cap D5 = {}
        OBVIOUS
    <2> HIDE DEF D1, D2, D3, D4, D5
    <2> QED
        BY <1>12, <1>5, <2>1, MergeTables
<1>14. Table(UserRoutes ++ EventRoutes ++ StatsRoutes ++ ProjectRoutes ++ EvidenceRoutes ++ AuditRoutes,
             D1 \cup D2 \cup D3 \cup D4 \cup D5 \cup D6)
    <2>1. (D1 \cup D2 \cup D3 \cup D4 \cup D5) \cap D6 = {}
        OBVIOUS
    <2> HIDE DEF D1, D2, D3, D4, D5, D6
    <2> QED
        BY <1>13, <1>6, <2>1, MergeTables
<1>15. Table(UserRoutes ++ EventRoutes ++ StatsRoutes ++ ProjectRoutes ++ EvidenceRoutes ++ AuditRoutes ++ ShopRoutes,
             D1 \cup D2 \cup D3 \cup D4 \cup D5 \cup D6 \cup D7)
    <2>1. (D1 \cup D2 \cup D3 \cup D4 \cup D5 \cup D6) \cap D7 = {}
        OBVIOUS
    <2> HIDE DEF D1, D2, D3, D4, D5, D6, D7
    <2> QED
        BY <1>14, <1>7, <2>1, MergeTables
<1>16. Table(UserRoutes ++ EventRoutes ++ StatsRoutes ++ ProjectRoutes ++ EvidenceRoutes ++ AuditRoutes ++ ShopRoutes ++ OrderRoutes,
             D1 \cup D2 \cup D3 \cup D4 \cup D5 \cup D6 \cup D7 \cup D8)
    <2>1. (D1 \cup D2 \cup D3 \cup D4 \cup D5 \cup D6 \cup D7) \cap D8 = {}
        OBVIOUS
    <2> HIDE DEF D1, D2, D3, D4, D5, D6, D7, D8
    <2> QED
        BY <1>15, <1>8, <2>1, MergeTables
<1>17. Table(UserRoutes ++ EventRoutes ++ StatsRoutes ++ ProjectRoutes ++ EvidenceRoutes ++ AuditRoutes ++ ShopRoutes ++ OrderRoutes ++ GrantRoutes,
             D1 \cup D2 \cup D3 \cup D4 \cup D5 \cup D6 \cup D7 \cup D8 \cup D9)
    <2>1. (D1 \cup D2 \cup D3 \cup D4 \cup D5 \cup D6 \cup D7 \cup D8) \cap D9 = {}
        OBVIOUS
    <2> HIDE DEF D1, D2, D3, D4, D5, D6, D7, D8, D9
    <2> QED
        BY <1>16, <1>9, <2>1, MergeTables
<1> DEFINE all == FulfillerRoutes \cup ReviewerRoutes \cup FraudRoutes \cup SuperRoutes
<1>18. D1 \cup D2 \cup D3 \cup D4 \cup D5 \cup D6 \cup D7 \cup D8 \cup D9 = all
    <2>1. D1 \subseteq all
        BY DEF FulfillerRoutes, ReviewerRoutes, SuperRoutes
    <2>2. D2 \subseteq all /\ D3 \subseteq all
        BY DEF FulfillerRoutes, SuperRoutes
    <2>3. D4 \subseteq all /\ D5 \subseteq all
        BY DEF ReviewerRoutes
    <2>4. D6 \subseteq all
        BY DEF FraudRoutes, SuperRoutes
    <2>5. D7 \subseteq all /\ D8 \subseteq all
        BY DEF FulfillerRoutes
    <2>6. D9 \subseteq all
        BY DEF FulfillerRoutes, SuperRoutes
    <2>7. FulfillerRoutes \subseteq D1 \cup D2 \cup D7 \cup D8 \cup D9
        BY DEF FulfillerRoutes
    <2>8. ReviewerRoutes \subseteq D1 \cup D4 \cup D5
        BY DEF ReviewerRoutes
    <2>9. FraudRoutes \subseteq D6
        BY DEF FraudRoutes
    <2>10. SuperRoutes \subseteq D1 \cup D2 \cup D3 \cup D6 \cup D9
        BY DEF SuperRoutes
    <2> HIDE DEF D1, D2, D3, D4, D5, D6, D7, D8, D9
    <2> QED
        BY <2>1, <2>2, <2>3, <2>4, <2>5, <2>6, <2>7, <2>8, <2>9, <2>10
<1> HIDE DEF D1, D2, D3, D4, D5, D6, D7, D8, D9
<1> QED
    BY <1>17, <1>18 DEF Guards

LEMMA EveryGuard ==
    ASSUME NEW r \in DOMAIN Guards
    PROVE  Guards[r] \subseteq ReviewerGuard /\ "Super Admin" \in Guards[r]
<1>1. Guards[r] \in {FulfillerGuard, ReviewerGuard, FraudReviewerGuard, SuperAdminGuard}
    BY GuardsAre DEF Table
<1> QED
    BY <1>1 DEF FulfillerGuard, ReviewerGuard, FraudReviewerGuard, SuperAdminGuard

(* What a page offers whoever has a role, without naming another role; and  *)
(* what it offers to make the user banned, or of another role.              *)
Reads(role, offer) ==
    /\ offer = <<offer[1], Untold>> /\ offer[1] \in DOMAIN Guards
    /\ offer[1] \in Quiet \/ role \in Guards[offer[1]]
Changes(p, offer) ==
    /\ offer = <<offer[1], offer[2]>> /\ offer[1] \in DOMAIN Guards
    /\ p.role \in Guards[offer[1]]
    /\ offer[2] \in VALID_PERMS /\ offer[1] \in Bans \cup {"users/:id/perms"}
    /\ offer[2] \in ELEVATED_PERMS => isSuperAdmin(p.role)
    /\ offer[1] \in DOMAIN BanNeeds => p.role \in BanNeeds[offer[1]]
    /\ p.selected /\ p.target \in ELEVATED_PERMS => isSuperAdmin(p.role)

LEMMA ReadsFrom ==
    ASSUME NEW role, NEW routes, routes \subseteq DOMAIN Guards,
           \A r \in routes : r \in Quiet \/ role \in Guards[r]
    PROVE  \A offer \in Plain(routes) : Reads(role, offer)
    BY DEF Plain, Reads

(* A page drawn for somebody that its loader let in.                        *)
Drawn(p) ==
    /\ p.at \in {"admin", "audit", "fraud"} /\ p.role \in Scope[p.at]
    /\ p.selected => p.at = "admin" /\ canFulfill(p.role)

LEMMA RolesPass ==
    /\ \A r \in FulfillerRoutes : r \in DOMAIN Guards /\ Guards[r] = FulfillerGuard
    /\ \A r \in ReviewerRoutes : r \in DOMAIN Guards /\ Guards[r] = ReviewerGuard
    /\ \A r \in FraudRoutes : r \in DOMAIN Guards /\ Guards[r] = FraudReviewerGuard
    /\ \A r \in SuperRoutes : r \in DOMAIN Guards /\ Guards[r] = SuperAdminGuard
    BY GuardsAre DEF Table

(* The parts of the admin page.                                             *)
LEMMA FulfillersMay ==
    ASSUME NEW role, NEW routes \in SUBSET (FulfillerRoutes \cup Quiet)
    PROVE  \A offer \in Plain(Only(canFulfill(role), routes)) : Reads(role, offer)
<1>1. CASE canFulfill(role)
    <2>1. Quiet \subseteq DOMAIN Guards
        BY RolesPass DEF Quiet, SuperRoutes
    <2>2. routes \subseteq DOMAIN Guards
        BY <2>1, RolesPass
    <2>3. role \in FulfillerGuard
        BY <1>1 DEF canFulfill, FulfillerGuard
    <2>4. \A r \in routes : r \in Quiet \/ role \in Guards[r]
        BY <2>3, RolesPass
    <2>5. Only(canFulfill(role), routes) = routes
        BY <1>1 DEF Only
    <2> QED
        BY <2>2, <2>4, <2>5, ReadsFrom
<1>2. CASE ~canFulfill(role)
    BY <1>2 DEF Only, Plain
<1> QED
    BY <1>1, <1>2

LEMMA SuperAdminsMay ==
    ASSUME NEW role, NEW condition, condition => isSuperAdmin(role),
           NEW routes \in SUBSET (DOMAIN Guards)
    PROVE  \A offer \in Plain(Only(condition, routes)) : Reads(role, offer)
<1>1. CASE condition
    <2>1. \A r \in routes : role \in Guards[r]
        BY <1>1, EveryGuard DEF isSuperAdmin
    <2>2. Only(condition, routes) = routes
        BY <1>1 DEF Only
    <2> QED
        BY <2>1, <2>2, ReadsFrom
<1>2. CASE ~condition
    BY <1>2 DEF Only, Plain
<1> QED
    BY <1>1, <1>2

LEMMA PlainBoth ==
    ASSUME NEW role, NEW R, NEW S,
           \A offer \in Plain(R) : Reads(role, offer), \A offer \in Plain(S) : Reads(role, offer)
    PROVE  \A offer \in Plain(R \cup S) : Reads(role, offer)
    BY DEF Plain

LEMMA AdminReads ==
    ASSUME NEW role \in ReviewerGuard
    PROVE  \A offer \in UsersTab(role) \cup ShopTab(role) \cup StatsTab(role) \cup EventsTab(role)
                        \cup FulfillmentTab(role) \cup ProjectsTab(role) : Reads(role, offer)
<1>1. \A offer \in UsersTab(role) \cup ShopTab(role) : Reads(role, offer)
    <2>1. /\ {"users", "users/:id"} \in SUBSET (FulfillerRoutes \cup Quiet)
          /\ {"news", "news/:id", "shop", "shop/reorder", "shop/:id", "shop/:id/buyers"}
                 \in SUBSET (FulfillerRoutes \cup Quiet)
        BY DEF FulfillerRoutes
    <2>2. \A offer \in UsersTab(role) : Reads(role, offer)
        BY <2>1, FulfillersMay DEF UsersTab
    <2>3. \A offer \in ShopTab(role) : Reads(role, offer)
        BY <2>1, FulfillersMay DEF ShopTab
    <2> QED
        BY <2>2, <2>3
<1>2. \A offer \in StatsTab(role) : Reads(role, offer)
    <2> DEFINE R == {"stats/dau", "stats/signups", "stats/funnel"}
               S == {"stats/unreviewed-hours", "stats/pipes",
                     "stats/pipes/holders", "settings/resubmission-paused",
                     "golden/backfill-cool-builders", "shop/notify-closing",
                     "shop/sync-closing-email"}
    <2>1. R \in SUBSET (FulfillerRoutes \cup Quiet)
        BY DEF FulfillerRoutes
    <2>2. S \subseteq SuperRoutes
        BY DEF SuperRoutes
    <2>3. S \in SUBSET (DOMAIN Guards)
        BY <2>2, RolesPass
    <2>4. StatsTab(role) = Plain(Only(canFulfill(role), R) \cup Only(isSuperAdmin(role), S))
        BY DEF StatsTab
    <2> HIDE DEF R, S
    <2> QED
        BY <2>1, <2>3, <2>4, FulfillersMay, SuperAdminsMay, PlainBoth
<1>3. \A offer \in EventsTab(role) : Reads(role, offer)
    <2>1. {"events", "events/:id"} \subseteq SuperRoutes
        BY DEF SuperRoutes
    <2>2. {"events", "events/:id"} \in SUBSET (DOMAIN Guards)
        BY <2>1, RolesPass
    <2> QED
        BY <2>2, SuperAdminsMay DEF EventsTab
<1>4. \A offer \in FulfillmentTab(role) : Reads(role, offer)
    <2> DEFINE R == {"orders", "orders/:id/detail", "orders/:id/fulfill",
                     "orders/:id/refund", "orders/:id/merge",
                     "orders/:id/message", "silo/status", "hcb/status"}
               S == {"hcb/card-grant/bulk"}
    <2>1. R \in SUBSET (FulfillerRoutes \cup Quiet)
        BY DEF FulfillerRoutes, Quiet
    <2>2. S \subseteq SuperRoutes
        BY DEF SuperRoutes
    <2>3. S \in SUBSET (DOMAIN Guards)
        BY <2>2, RolesPass
    <2>4. FulfillmentTab(role) = Plain(Only(canFulfill(role), R) \cup Only(isSuperAdmin(role), S))
        BY DEF FulfillmentTab
    <2> HIDE DEF R, S
    <2> QED
        BY <2>1, <2>3, <2>4, FulfillersMay, SuperAdminsMay, PlainBoth
<1>5. \A offer \in ProjectsTab(role) : Reads(role, offer)
    <2> DEFINE S == {"audit/:id/iframe-context"}
    <2>1. S \subseteq FraudRoutes
        BY DEF FraudRoutes
    <2>2. S \in SUBSET (DOMAIN Guards)
        BY <2>1, RolesPass
    <2>3. ProjectsTab(role) = Plain(ReviewerRoutes \cup Only(isSuperAdmin(role), S))
        <3> DEFINE R == {"projects", "projects/hours", "projects/my-claims",
                         "projects/:id/hackatime", "projects/:id/claim", "projects/:id/reviews",
                         "projects/:id/devlogs", "projects/:id/devlogs/export",
                         "devlogs/:id/review", "projects/:id/lookout",
                         "lookout-sessions/:id/mirror", "review-leaderboard",
                         "users/:id/watchlist", "users/:id/cool-builder", "projects/:id/review"}
        <3>1. R \subseteq ReviewerRoutes
            BY DEF ReviewerRoutes
        <3>2. ReviewerRoutes \subseteq R
            BY DEF ReviewerRoutes
        <3>3. ProjectsTab(role) = Plain(R \cup Only(isSuperAdmin(role), S))
            BY DEF ProjectsTab
        <3> HIDE DEF R, S
        <3>4. R = ReviewerRoutes
            BY <3>1, <3>2
        <3> QED
            BY <3>3, <3>4
    <2>4. \A offer \in Plain(ReviewerRoutes) : Reads(role, offer)
        <3>1. ReviewerRoutes \subseteq DOMAIN Guards /\ \A r \in ReviewerRoutes : role \in Guards[r]
            BY RolesPass
        <3> QED
            BY <3>1, ReadsFrom
    <2> HIDE DEF S
    <2> QED
        BY <2>2, <2>3, <2>4, SuperAdminsMay, PlainBoth
<1> QED
    BY <1>1, <1>2, <1>3, <1>4, <1>5

LEMMA AuditReads ==
    ASSUME NEW role \in FraudReviewerGuard
    PROVE  \A offer \in AuditPage(role) :
               \/ Reads(role, offer)
               \/ isSuperAdmin(role) /\ offer = <<"audit/:id/decision", "Banned">>
<1> DEFINE R == {"audit/queue", "audit/:id/iframe-context", "projects/:id/hackatime",
                 "users/:id/watchlist", "users/:id/cool-builder", "audit/:id/decision"}
           S == {"audit/load-unreviewed"}
<1>1. R \subseteq ReviewerRoutes \cup FraudRoutes
    BY DEF ReviewerRoutes, FraudRoutes
<1>2. S \subseteq SuperRoutes
    BY DEF SuperRoutes
<1>3. S \in SUBSET (DOMAIN Guards) /\ R \subseteq DOMAIN Guards
    BY <1>1, <1>2, RolesPass
<1>4. role \in ReviewerGuard
    BY DEF FraudReviewerGuard, ReviewerGuard
<1>5. \A r \in R : role \in Guards[r]
    BY <1>1, <1>4, RolesPass
<1>6. \A offer \in AuditPage(role) :
          \/ offer \in Plain(R \cup Only(isSuperAdmin(role), S))
          \/ isSuperAdmin(role) /\ offer = <<"audit/:id/decision", "Banned">>
    BY DEF AuditPage
<1> HIDE DEF R, S
<1>7. \A offer \in Plain(R) : Reads(role, offer)
    BY <1>3, <1>5, ReadsFrom
<1>8. \A offer \in Plain(R \cup Only(isSuperAdmin(role), S)) : Reads(role, offer)
    BY <1>3, <1>7, SuperAdminsMay, PlainBoth
<1> QED
    BY <1>6, <1>8

LEMMA FraudReads ==
    ASSUME NEW role \in FraudReviewerGuard
    PROVE  \A offer \in FraudPage : Reads(role, offer) \/ offer = <<"fraud/:id/ban", "Banned">>
<1> DEFINE R == {"fraud/queue", "audit/:id/iframe-context", "projects/:id/hackatime", "fraud/:id/clear"}
<1>1. R \subseteq ReviewerRoutes \cup FraudRoutes
    BY DEF ReviewerRoutes, FraudRoutes
<1>2. role \in ReviewerGuard
    BY DEF FraudReviewerGuard, ReviewerGuard
<1>3. R \subseteq DOMAIN Guards /\ \A r \in R : role \in Guards[r]
    BY <1>1, <1>2, RolesPass
<1>4. \A offer \in FraudPage : offer \in Plain(R) \/ offer = <<"fraud/:id/ban", "Banned">>
    BY DEF FraudPage
<1> HIDE DEF R
<1> QED
    BY <1>3, <1>4, ReadsFrom

LEMMA BanNeedsAre ==
    /\ DOMAIN BanNeeds = {"projects/:id/review", "audit/:id/decision"}
    /\ BanNeeds["projects/:id/review"] = FraudReviewerGuard
    /\ BanNeeds["audit/:id/decision"] = SuperAdminGuard
    BY DEF BanNeeds, Guarded, ++

(* The actions on a user who is selected.                                   *)
LEMMA ActionsMay ==
    ASSUME NEW p, canFulfill(p.role)
    PROVE  \A offer \in UserActions(p.role, p.target) : Reads(p.role, offer) \/ Changes(p, offer)
<1> DEFINE role == p.role
           target == p.target
           R == {"users/:id/attend-invite", "users/:id/submission-extension",
                 "users/:id/unrestricted-access", "users/:id/pipes", "users/:id/identity-override"}
           S == {"users/:id/impersonate"}
           E == {"users/:id/perms"} \X (assignablePerms(role) \ {target})
           F == {"users/:id/ban"} \X ({"Banned"} \ {target})
<1>1. R \subseteq SuperRoutes /\ S \subseteq SuperRoutes
    BY DEF SuperRoutes
<1>2. R \in SUBSET (DOMAIN Guards) /\ S \in SUBSET (DOMAIN Guards)
    BY <1>1, RolesPass
<1>3. ASSUME NEW offer \in E \cup F, canActOnTarget(role, target)
      PROVE  Changes(p, offer)
    <2>1. role \in FulfillerGuard
        BY DEF canFulfill, FulfillerGuard
    <2>2. {"users/:id/ban", "users/:id/perms"} \subseteq FulfillerRoutes
        BY DEF FulfillerRoutes
    <2>3. \A r \in {"users/:id/ban", "users/:id/perms"} : r \in DOMAIN Guards /\ role \in Guards[r]
        BY <2>1, <2>2, RolesPass
    <2>4. /\ offer = <<offer[1], offer[2]>> /\ offer[1] \in {"users/:id/ban", "users/:id/perms"}
          /\ offer[2] \in {"Banned"} \cup assignablePerms(role)
        OBVIOUS
    <2>5. offer[2] \in VALID_PERMS /\ (offer[2] \in ELEVATED_PERMS => isSuperAdmin(role))
        BY <2>4 DEF assignablePerms, VALID_PERMS, ELEVATED_PERMS
    <2>6. offer[1] \notin DOMAIN BanNeeds /\ offer[1] \in Bans \cup {"users/:id/perms"}
        BY <2>4, BanNeedsAre DEF Bans
    <2>7. target \in ELEVATED_PERMS => isSuperAdmin(role)
        BY <1>3 DEF canActOnTarget
    <2> HIDE DEF role, target, E, F
    <2>8. role = p.role /\ target = p.target
        BY DEF role, target
    <2> QED
        BY <2>3, <2>4, <2>5, <2>6, <2>7, <2>8 DEF Changes
<1>4. \A offer \in UserActions(role, target) :
          \/ offer \in Plain(Only(isSuperAdmin(role), R)
                             \cup Only(isSuperAdmin(role) /\ target # "Banned", S))
          \/ canActOnTarget(role, target) /\ offer \in E \cup F
    BY DEF UserActions
<1> HIDE DEF R, S, E, F
<1>5. \A offer \in Plain(Only(isSuperAdmin(role), R)
                         \cup Only(isSuperAdmin(role) /\ target # "Banned", S)) : Reads(role, offer)
    BY <1>2, SuperAdminsMay, PlainBoth
<1> QED
    BY <1>3, <1>4, <1>5

(* Whatever a page offers whoever it was drawn for, the guards let through; *)
(* and what it offers to do to a user, the handler too.                     *)
LEMMA OffersMay ==
    ASSUME NEW p, Drawn(p)
    PROVE  \A offer \in Offered(p) : Reads(p.role, offer) \/ Changes(p, offer)
<1>1. CASE p.at = "admin"
    <2>1. p.role \in ReviewerGuard
        BY <1>1 DEF Drawn, Scope
    <2>2. Offered(p) = UsersTab(p.role) \cup ShopTab(p.role) \cup StatsTab(p.role) \cup EventsTab(p.role)
                       \cup FulfillmentTab(p.role) \cup ProjectsTab(p.role) \cup ReviewBan(p.role)
                       \cup (IF p.selected THEN UserActions(p.role, p.target) ELSE {})
        BY <1>1 DEF Offered
    <2>3. \A offer \in ReviewBan(p.role) : Changes(p, offer)
        <3> SUFFICES ASSUME canBan(p.role), NEW offer, offer = <<"projects/:id/review", "Banned">>
                     PROVE  Changes(p, offer)
            BY DEF ReviewBan
        <3>1. "projects/:id/review" \in ReviewerRoutes
            BY DEF ReviewerRoutes
        <3>2. "projects/:id/review" \in DOMAIN Guards /\ p.role \in Guards["projects/:id/review"]
            BY <2>1, <3>1, RolesPass
        <3>3. p.role \in FraudReviewerGuard
            BY DEF canBan, FraudReviewerGuard
        <3>4. p.selected => isSuperAdmin(p.role)
            BY DEF Drawn, canFulfill, canBan, isSuperAdmin
        <3> QED
            BY <3>2, <3>3, <3>4, BanNeedsAre DEF Changes, VALID_PERMS, ELEVATED_PERMS, Bans
    <2>4. p.selected => \A offer \in UserActions(p.role, p.target) :
              Reads(p.role, offer) \/ Changes(p, offer)
        BY ActionsMay DEF Drawn
    <2> QED
        BY <2>1, <2>2, <2>3, <2>4, AdminReads
<1>2. CASE p.at = "audit"
    <2>1. p.role \in FraudReviewerGuard /\ ~p.selected
        BY <1>2 DEF Drawn, Scope
    <2>2. Offered(p) = AuditPage(p.role)
        BY <1>2 DEF Offered
    <2>3. "audit/:id/decision" \in FraudRoutes
        BY DEF FraudRoutes
    <2>4. ASSUME isSuperAdmin(p.role), NEW offer, offer = <<"audit/:id/decision", "Banned">>
          PROVE  Changes(p, offer)
        <3>1. "audit/:id/decision" \in DOMAIN Guards /\ p.role \in Guards["audit/:id/decision"]
            BY <2>1, <2>3, RolesPass
        <3>2. p.role \in SuperAdminGuard
            BY <2>4 DEF isSuperAdmin, SuperAdminGuard
        <3> QED
            BY <2>4, <3>1, <3>2, BanNeedsAre DEF Changes, VALID_PERMS, ELEVATED_PERMS, Bans
    <2> QED
        BY <2>1, <2>2, <2>4, AuditReads
<1>3. CASE p.at = "fraud"
    <2>1. p.role \in FraudReviewerGuard /\ ~p.selected
        BY <1>3 DEF Drawn, Scope
    <2>2. Offered(p) = FraudPage
        BY <1>3 DEF Offered
    <2>3. "fraud/:id/ban" \in FraudRoutes
        BY DEF FraudRoutes
    <2>4. ASSUME NEW offer, offer = <<"fraud/:id/ban", "Banned">>
          PROVE  Changes(p, offer)
        <3>1. "fraud/:id/ban" \in DOMAIN Guards /\ p.role \in Guards["fraud/:id/ban"]
            BY <2>1, <2>3, RolesPass
        <3> QED
            BY <2>1, <2>4, <3>1, BanNeedsAre DEF Changes, VALID_PERMS, ELEVATED_PERMS, Bans
    <2> QED
        BY <2>1, <2>2, <2>4, FraudReads
<1> QED
    BY <1>1, <1>2, <1>3 DEF Drawn

(* What the page knows: the role it was drawn for and that of the user      *)
(* selected, unless it tells of a change.                                   *)
ScreenInv ==
    /\ screen = [at |-> screen.at, role |-> screen.role, selected |-> screen.selected,
                 target |-> screen.target, moved |-> screen.moved]
    /\ screen.at = "none" => screen = Closed
    /\ screen.at # "none" => Drawn(screen)
    /\ screen.at # "none" /\ "me" \notin screen.moved => roles["me"] = screen.role
    /\ screen.selected /\ "user" \notin screen.moved => screen.target \in {roles["user"], Untold}

(* What is true of a request on its way: the page still offers it, and what *)
(* it was let through as is the role that it was drawn for.                 *)
Standing ==
    /\ screen.at # "none" /\ <<ask.route, ask.to>> \in Offered(screen)
    /\ ask.moved = screen.moved
    /\ ask.blind = (~screen.selected \/ screen.target = Untold)
    /\ ask.stage \in {"passed", "lookup", "write"} => ask.as \in ReviewerGuard
    /\ ask.stage = "passed" /\ "me" \notin ask.moved => ask.as = roles["me"]
    /\ ask.stage = "lookup" /\ "me" \notin ask.moved => ask.as = roles["me"]
    /\ ask.stage = "lookup" => ~isSuperAdmin(ask.as)
    /\ ask.stage \in {"lookup", "write"} => ask.to # Untold

AccessInv == AskInv /\ AccessTypeOK /\ ScreenInv /\ (ask.stage # "none" => Standing) /\ OfferedIsAllowed

(* A page that tells of another change offers what it did.                  *)
LEMMA OfferedStays ==
    ASSUME NEW p, NEW q, q.at = p.at, q.role = p.role, q.selected = p.selected, q.target = p.target
    PROVE  Offered(q) = Offered(p)
    BY DEF Offered

(* What the request may do.                                                 *)
LEMMA AskMay ==
    ASSUME AccessInv, ask.stage # "none"
    PROVE  LET offer == <<ask.route, ask.to>> IN
           /\ Drawn(screen) /\ ask.route \in DOMAIN Guards
           /\ \/ ask.to = Untold /\ (ask.route \in Quiet \/ screen.role \in Guards[ask.route])
              \/ Changes(screen, offer) /\ ask.to \in VALID_PERMS
<1>1. Drawn(screen) /\ <<ask.route, ask.to>> \in Offered(screen)
    BY DEF AccessInv, ScreenInv, Standing
<1>2. Reads(screen.role, <<ask.route, ask.to>>) \/ Changes(screen, <<ask.route, ask.to>>)
    BY <1>1, OffersMay
<1> QED
    BY <1>1, <1>2 DEF Reads, Changes

(* A step of the request that leaves the page and the roles alone.          *)
LEMMA AskMoves ==
    ASSUME AccessInv, AskInv', UNCHANGED <<roles, screen, changes>>,
           NEW stage \in {"passed", "lookup", "write", "refused"}, ask.stage # "none",
           ask' = [ask EXCEPT !.stage = stage] \/ ask' = [ask EXCEPT !.stage = stage, !.as = roles["me"]],
           stage \in {"passed", "lookup", "write"} => ask'.as \in ReviewerGuard,
           stage \in {"passed", "lookup"} /\ "me" \notin ask.moved => ask'.as = roles["me"],
           stage = "lookup" => ~isSuperAdmin(ask'.as),
           stage \in {"lookup", "write"} => ask.to # Untold,
           stage = "refused" =>
               \/ ask.moved # {}
               \/ ask.blind /\ ask.route \in Bans \cup {"users/:id/perms"}
                    /\ roles["user"] \in ELEVATED_PERMS
               \/ ask.route \in Quiet
    PROVE  AccessInv'
<1>1. /\ ask'.stage = stage /\ ask'.route = ask.route /\ ask'.to = ask.to
      /\ ask'.blind = ask.blind /\ ask'.moved = ask.moved
    BY DEF AccessInv, AskInv, IsAsk
<1>2. Standing
    BY DEF AccessInv
<1>3. AccessTypeOK'
    BY <1>1 DEF AccessInv, AccessTypeOK
<1>4. ScreenInv'
    BY DEF AccessInv, ScreenInv
<1>5. Standing'
    BY <1>1, <1>2 DEF Standing
<1>6. OfferedIsAllowed'
    BY <1>1 DEF OfferedIsAllowed
<1> QED
    BY <1>3, <1>4, <1>5, <1>6 DEF AccessInv

(* The request is over.                                                     *)
LEMMA AskEnds ==
    ASSUME AccessInv, AskInv', UNCHANGED <<roles, screen, changes>>, ask' = NoAsk
    PROVE  AccessInv'
<1>1. ask'.stage = "none" /\ ask'.moved = {}
    BY DEF NoAsk
<1>2. AccessTypeOK'
    BY <1>1 DEF AccessInv, AccessTypeOK
<1>3. ScreenInv'
    BY DEF AccessInv, ScreenInv
<1> QED
    BY <1>1, <1>2, <1>3 DEF AccessInv, OfferedIsAllowed

LEMMA GuardKeepsAccess ==
    ASSUME AccessInv, AskInv', Guard
    PROVE  AccessInv'
<1>1. ask.stage = "sent" /\ UNCHANGED <<roles, screen, changes>>
    BY DEF Guard
<1>2. Standing /\ Drawn(screen) /\ ask.route \in DOMAIN Guards
    BY <1>1, AskMay DEF AccessInv
<1>3. CASE roles["me"] \in Guards[ask.route]
    <2>1. ask' = [ask EXCEPT !.stage = "passed", !.as = roles["me"]]
        BY <1>3 DEF Guard
    <2>2. roles["me"] \in ReviewerGuard
        BY <1>2, <1>3, EveryGuard
    <2>3. ask'.as = roles["me"]
        BY <2>1 DEF AccessInv, AskInv, IsAsk
    <2> QED
        BY <1>1, <2>1, <2>2, <2>3, AskMoves
<1>4. CASE roles["me"] \notin Guards[ask.route]
    <2>1. ask' = [ask EXCEPT !.stage = "refused"]
        BY <1>4 DEF Guard
    <2>2. ask.moved # {} \/ ask.route \in Quiet
        <3> SUFFICES ASSUME ask.moved = {}
                     PROVE  ask.route \in Quiet
            OBVIOUS
        <3>1. roles["me"] = screen.role
            BY <1>2 DEF Standing, AccessInv, ScreenInv
        <3>2. ask.route \in Quiet \/ screen.role \in Guards[ask.route]
            BY <1>1, AskMay DEF Changes
        <3> QED
            BY <1>4, <3>1, <3>2
    <2> QED
        BY <1>1, <2>1, <2>2, AskMoves
<1> QED
    BY <1>3, <1>4

LEMMA HandleKeepsAccess ==
    ASSUME AccessInv, AskInv', HandleAsk
    PROVE  AccessInv'
<1>1. ask.stage = "passed" /\ UNCHANGED <<roles, screen, changes>>
    BY DEF HandleAsk
<1>2. Standing /\ Drawn(screen)
    BY <1>1, AskMay DEF AccessInv
<1>3. CASE ask.to = Untold
    <2>1. ask.to # "Banned" /\ ask.to \notin ELEVATED_PERMS
        BY <1>3 DEF Untold, ELEVATED_PERMS
    <2>2. ask' = NoAsk
        BY <1>3, <2>1 DEF HandleAsk
    <2> QED
        BY <1>1, <2>2, AskEnds
<1>4. CASE ask.to # Untold
    <2>1. Changes(screen, <<ask.route, ask.to>>)
        BY <1>1, <1>4, AskMay
    <2>2. ask.as \in ReviewerGuard
        BY <1>1, <1>2 DEF Standing
    <2>3. ask.moved = {} => ask.as = screen.role
        BY <1>1, <1>2 DEF Standing, AccessInv, ScreenInv
    <2>4. \/ ask' = [ask EXCEPT !.stage = "refused"]
             /\ \/ ask.to = "Banned" /\ ask.route \in DOMAIN BanNeeds /\ ask.as \notin BanNeeds[ask.route]
                \/ ask.to \in ELEVATED_PERMS /\ ~isSuperAdmin(ask.as)
          \/ isSuperAdmin(ask.as) /\ ask' = [ask EXCEPT !.stage = "write"]
          \/ ~isSuperAdmin(ask.as) /\ ask' = [ask EXCEPT !.stage = "lookup"]
        <3>1. CASE ask.to = "Banned" /\ ask.route \in DOMAIN BanNeeds /\ ask.as \notin BanNeeds[ask.route]
            <4>1. ask' = [ask EXCEPT !.stage = "refused"]
                BY <1>4, <3>1 DEF HandleAsk
            <4> QED
                BY <3>1, <4>1
        <3>2. CASE ask.to # "Banned" /\ ask.to \in ELEVATED_PERMS /\ ~isSuperAdmin(ask.as)
            <4>1. ask' = [ask EXCEPT !.stage = "refused"]
                BY <1>4, <3>2 DEF HandleAsk
            <4> QED
                BY <3>2, <4>1
        <3>3. CASE /\ ~(ask.to = "Banned" /\ ask.route \in DOMAIN BanNeeds /\ ask.as \notin BanNeeds[ask.route])
                   /\ ~(ask.to # "Banned" /\ ask.to \in ELEVATED_PERMS /\ ~isSuperAdmin(ask.as))
            <4>1. ask' = [ask EXCEPT !.stage = IF isSuperAdmin(ask.as) THEN "write" ELSE "lookup"]
                BY <1>4, <3>3 DEF HandleAsk
            <4> QED
                BY <4>1
        <3> QED
            BY <3>1, <3>2, <3>3
    <2>5. CASE /\ ask' = [ask EXCEPT !.stage = "refused"]
               /\ \/ ask.to = "Banned" /\ ask.route \in DOMAIN BanNeeds /\ ask.as \notin BanNeeds[ask.route]
                  \/ ask.to \in ELEVATED_PERMS /\ ~isSuperAdmin(ask.as)
        <3>1. ask.moved # {}
            BY <2>1, <2>3, <2>5 DEF Changes
        <3> QED
            BY <1>1, <2>5, <3>1, AskMoves
    <2>6. ASSUME NEW stage \in {"write", "lookup"}, ask' = [ask EXCEPT !.stage = stage]
          PROVE  ask'.as = ask.as
        BY <2>6 DEF AccessInv, AskInv, IsAsk
    <2>7. CASE isSuperAdmin(ask.as) /\ ask' = [ask EXCEPT !.stage = "write"]
        <3>1. ask'.as = ask.as
            BY <2>6, <2>7
        <3> QED
            BY <1>1, <1>4, <2>2, <2>7, <3>1, AskMoves
    <2>8. CASE ~isSuperAdmin(ask.as) /\ ask' = [ask EXCEPT !.stage = "lookup"]
        <3>1. ask'.as = ask.as
            BY <2>6, <2>8
        <3>2. "me" \notin ask.moved => ask.as = roles["me"]
            BY <1>1, <1>2 DEF Standing
        <3> QED
            BY <1>1, <1>4, <2>2, <2>8, <3>1, <3>2, AskMoves
    <2> QED
        BY <2>4, <2>5, <2>7, <2>8
<1> QED
    BY <1>3, <1>4

LEMMA LookUpKeepsAccess ==
    ASSUME AccessInv, AskInv', LookUpTarget
    PROVE  AccessInv'
<1>1. ask.stage = "lookup" /\ UNCHANGED <<roles, screen, changes>>
    BY DEF LookUpTarget
<1>2. Standing /\ Drawn(screen) /\ ask.to # Untold
    BY <1>1, AskMay DEF AccessInv, Standing
<1>3. Changes(screen, <<ask.route, ask.to>>)
    BY <1>1, <1>2, AskMay
<1>4. ASSUME NEW stage \in {"write", "refused"}, ask' = [ask EXCEPT !.stage = stage]
      PROVE  ask'.as = ask.as
    BY <1>4 DEF AccessInv, AskInv, IsAsk
<1>5. CASE roles["user"] \in ELEVATED_PERMS
    <2>1. ask' = [ask EXCEPT !.stage = "refused"]
        BY <1>5 DEF LookUpTarget
    <2>2. ask.moved # {} \/ ask.blind
        <3> SUFFICES ASSUME ask.moved = {}, ~ask.blind
                     PROVE  FALSE
            OBVIOUS
        <3>1. screen.selected /\ screen.target # Untold /\ screen.moved = {}
            BY <1>2 DEF Standing
        <3>2. screen.target = roles["user"]
            BY <3>1 DEF AccessInv, ScreenInv
        <3>3. isSuperAdmin(screen.role)
            BY <1>3, <1>5, <3>1, <3>2 DEF Changes
        <3>4. ask.as = screen.role
            BY <1>1, <1>2, <3>1 DEF Standing, AccessInv, ScreenInv
        <3> QED
            BY <1>1, <1>2, <3>3, <3>4 DEF Standing
    <2>3. ask.route \in Bans \cup {"users/:id/perms"}
        BY <1>3 DEF Changes
    <2> QED
        BY <1>1, <1>5, <2>1, <2>2, <2>3, AskMoves
<1>6. CASE roles["user"] \notin ELEVATED_PERMS
    <2>1. ask' = [ask EXCEPT !.stage = "write"]
        BY <1>6 DEF LookUpTarget
    <2>2. ask'.as = ask.as /\ ask.as \in ReviewerGuard
        BY <1>1, <1>2, <1>4, <2>1 DEF Standing
    <2> QED
        BY <1>1, <1>2, <2>1, <2>2, AskMoves
<1> QED
    BY <1>5, <1>6

(* A request sent from a page that offers it.                               *)
LEMMA SendKeepsAccess ==
    ASSUME AccessInv, AskInv', AskFor
    PROVE  AccessInv'
<1>1. PICK offer \in Offered(screen) :
          ask' = [NoAsk EXCEPT !.stage = "sent", !.route = offer[1], !.to = offer[2],
                               !.moved = screen.moved,
                               !.blind = ~screen.selected \/ screen.target = Untold]
    BY DEF AskFor
<1>2. UNCHANGED <<roles, screen, changes>>
    BY DEF AskFor
<1>3. screen.at # "none"
    BY <1>1 DEF AccessInv, ScreenInv, Closed, Offered
<1>4. Drawn(screen)
    BY <1>3 DEF AccessInv, ScreenInv
<1>5. offer = <<offer[1], offer[2]>>
    <2>1. Reads(screen.role, offer) \/ Changes(screen, offer)
        BY <1>1, <1>4, OffersMay
    <2>2. ASSUME Reads(screen.role, offer) PROVE offer = <<offer[1], offer[2]>>
        BY <2>2 DEF Reads
    <2>3. ASSUME Changes(screen, offer) PROVE offer = <<offer[1], offer[2]>>
        BY <2>3 DEF Changes
    <2> QED
        BY <2>1, <2>2, <2>3
<1>6. /\ ask'.stage = "sent" /\ ask'.route = offer[1] /\ ask'.to = offer[2]
      /\ ask'.moved = screen.moved
      /\ ask'.blind = (~screen.selected \/ screen.target = Untold)
    BY <1>1 DEF NoAsk
<1>7. AccessTypeOK'
    BY <1>2, <1>6 DEF AccessInv, AccessTypeOK
<1>8. ScreenInv'
    BY <1>2 DEF AccessInv, ScreenInv
<1>9. Standing'
    <2>1. <<ask'.route, ask'.to>> \in Offered(screen')
        BY <1>1, <1>2, <1>5, <1>6
    <2> QED
        BY <1>2, <1>3, <1>6, <2>1 DEF Standing
<1> QED
    BY <1>6, <1>7, <1>8, <1>9 DEF AccessInv, OfferedIsAllowed

LEMMA OpenKeepsAccess ==
    ASSUME AccessInv, AskInv', NEW at \in DOMAIN Scope, Open(at)
    PROVE  AccessInv'
<1>1. ask = NoAsk /\ UNCHANGED <<roles, ask, changes>>
    BY DEF Open
<1>2. ask.stage = "none" /\ ask.moved = {}
    BY <1>1 DEF NoAsk
<1>3. at \in {"admin", "audit", "fraud"}
    BY DEF Scope
<1>4. \/ screen' = Closed
      \/ /\ screen' = [at |-> at, role |-> roles["me"], selected |-> FALSE, target |-> Untold, moved |-> {}]
         /\ roles["me"] \in Scope[at]
    BY DEF Open, Closed
<1>5. screen'.at = "none" \/ screen'.at = at
    BY <1>4 DEF Closed
<1>6. ~screen'.selected /\ screen'.moved = {}
    BY <1>4 DEF Closed
<1>7. AccessTypeOK'
    BY <1>1, <1>2, <1>3, <1>5, <1>6 DEF AccessInv, AccessTypeOK
<1>8. ScreenInv'
    <2>1. CASE screen' = Closed
        BY <2>1 DEF ScreenInv, Closed
    <2>2. CASE /\ screen' = [at |-> at, role |-> roles["me"], selected |-> FALSE,
                             target |-> Untold, moved |-> {}]
               /\ roles["me"] \in Scope[at]
        BY <1>1, <1>3, <2>2 DEF ScreenInv, Drawn
    <2> QED
        BY <1>4, <2>1, <2>2
<1> QED
    BY <1>1, <1>2, <1>7, <1>8 DEF AccessInv, OfferedIsAllowed

LEMMA SelectKeepsAccess ==
    ASSUME AccessInv, AskInv', selectUser
    PROVE  AccessInv'
<1>1. /\ ask = NoAsk /\ UNCHANGED <<roles, ask, changes>>
      /\ screen.at = "admin" /\ canFulfill(screen.role)
    BY DEF selectUser
<1>2. ask.stage = "none" /\ ask.moved = {}
    BY <1>1 DEF NoAsk
<1>3. PICK seen \in {roles["user"], Untold} :
          screen' = [screen EXCEPT !.selected = TRUE, !.target = seen, !.moved = @ \ {"user"}]
    BY DEF selectUser
<1>4. screen' = [at |-> screen.at, role |-> screen.role, selected |-> TRUE, target |-> seen,
                 moved |-> screen.moved \ {"user"}]
    BY <1>3 DEF AccessInv, ScreenInv
<1>5. AccessTypeOK'
    BY <1>1, <1>2, <1>4 DEF AccessInv, AccessTypeOK
<1>6. ScreenInv'
    BY <1>1, <1>4 DEF AccessInv, ScreenInv, Drawn
<1> QED
    BY <1>1, <1>2, <1>5, <1>6 DEF AccessInv, OfferedIsAllowed

LEMMA WriteKeepsAccess ==
    ASSUME AccessInv, AskInv', WritePerms
    PROVE  AccessInv'
<1>1. /\ ask.stage = "write" /\ ask' = NoAsk /\ changes' = changes
      /\ roles' = [roles EXCEPT !["user"] = ask.to]
      /\ screen' = [screen EXCEPT !.moved = @ \cup {"user"}]
    BY DEF WritePerms
<1>2. ask'.stage = "none" /\ ask'.moved = {}
    BY <1>1 DEF NoAsk
<1>3. Standing /\ Drawn(screen) /\ ask.to \in VALID_PERMS
    BY <1>1, AskMay DEF AccessInv, Standing
<1>4. /\ screen'.at = screen.at /\ screen'.role = screen.role /\ screen'.selected = screen.selected
      /\ screen'.target = screen.target /\ screen'.moved = screen.moved \cup {"user"}
      /\ screen' = [at |-> screen'.at, role |-> screen'.role, selected |-> screen'.selected,
                    target |-> screen'.target, moved |-> screen'.moved]
    BY <1>1 DEF AccessInv, ScreenInv
<1>5. roles' \in [{"me", "user"} -> VALID_PERMS] /\ roles'["me"] = roles["me"]
    BY <1>1, <1>3 DEF AccessInv, AccessTypeOK
<1>6. AccessTypeOK'
    BY <1>1, <1>2, <1>4, <1>5 DEF AccessInv, AccessTypeOK
<1>7. screen.at # "none"
    BY <1>3 DEF Standing
<1>8. ScreenInv'
    BY <1>3, <1>4, <1>5, <1>7 DEF AccessInv, ScreenInv, Drawn
<1> QED
    BY <1>2, <1>6, <1>8 DEF AccessInv, OfferedIsAllowed

(* Somebody else changes a role: the page and the request tell of it.       *)
LEMMA ChangeKeepsAccess ==
    ASSUME AccessInv, AskInv', NEW who \in {"me", "user"}, ChangeRole(who), MaxChanges \in Nat
    PROVE  AccessInv'
<1>1. /\ changes < MaxChanges /\ changes' = changes + 1
      /\ screen' = [screen EXCEPT !.moved = IF screen = Closed THEN @ ELSE @ \cup {who}]
      /\ ask' = IF ask = NoAsk THEN ask
                ELSE [ask EXCEPT !.moved = @ \cup {who},
                                 !.late = @ \/ (who = "user" /\ ask.stage = "write")]
    BY DEF ChangeRole
<1>2. PICK role \in VALID_PERMS : roles' = [roles EXCEPT ![who] = role]
    BY DEF ChangeRole
<1>3. /\ roles' \in [{"me", "user"} -> VALID_PERMS]
      /\ \A other \in {"me", "user"} \ {who} : roles'[other] = roles[other]
    BY <1>2 DEF AccessInv, AccessTypeOK
<1>4. changes' \in 0 .. MaxChanges
    BY <1>1 DEF AccessInv, AccessTypeOK
<1>5. /\ screen'.at = screen.at /\ screen'.role = screen.role /\ screen'.selected = screen.selected
      /\ screen'.target = screen.target
      /\ screen'.moved = IF screen = Closed THEN screen.moved ELSE screen.moved \cup {who}
      /\ screen' = [at |-> screen'.at, role |-> screen'.role, selected |-> screen'.selected,
                    target |-> screen'.target, moved |-> screen'.moved]
    BY <1>1 DEF AccessInv, ScreenInv
<1>6. screen = Closed => screen' = Closed
    BY <1>1, <1>5 DEF Closed
<1>7. screen = Closed <=> screen.at = "none"
    BY DEF AccessInv, ScreenInv, Closed
<1>8. ScreenInv'
    <2>1. screen'.at = "none" => screen' = Closed
        BY <1>5, <1>6, <1>7
    <2>2. screen'.at # "none" => Drawn(screen')
        BY <1>5 DEF AccessInv, ScreenInv, Drawn
    <2>3. screen'.at # "none" /\ "me" \notin screen'.moved => roles'["me"] = screen'.role
        <3> SUFFICES ASSUME screen'.at # "none", "me" \notin screen'.moved
                     PROVE  roles'["me"] = screen'.role
            OBVIOUS
        <3>1. who # "me" /\ "me" \notin screen.moved
            BY <1>5, <1>7
        <3> QED
            BY <1>3, <1>5, <3>1 DEF AccessInv, ScreenInv
    <2>4. screen'.selected /\ "user" \notin screen'.moved => screen'.target \in {roles'["user"], Untold}
        <3> SUFFICES ASSUME screen'.selected, "user" \notin screen'.moved
                     PROVE  screen'.target \in {roles'["user"], Untold}
            OBVIOUS
        <3>1. screen # Closed
            BY <1>5 DEF Closed
        <3>2. who # "user" /\ "user" \notin screen.moved
            BY <1>5, <3>1
        <3> QED
            BY <1>3, <1>5, <3>2 DEF AccessInv, ScreenInv
    <2> QED
        BY <1>5, <2>1, <2>2, <2>3, <2>4 DEF ScreenInv
<1>9. CASE ask = NoAsk
    <2>1. ask' = ask /\ ask.stage = "none" /\ ask.moved = {}
        BY <1>1, <1>9 DEF NoAsk
    <2>2. AccessTypeOK'
        BY <1>3, <1>4, <1>5, <2>1 DEF AccessInv, AccessTypeOK
    <2> QED
        BY <1>8, <2>1, <2>2 DEF AccessInv, OfferedIsAllowed
<1>10. CASE ask # NoAsk
    <2>1. /\ ask'.stage = ask.stage /\ ask'.route = ask.route /\ ask'.to = ask.to
          /\ ask'.as = ask.as /\ ask'.blind = ask.blind /\ ask'.moved = ask.moved \cup {who}
        BY <1>1, <1>10 DEF AccessInv, AskInv, IsAsk
    <2>2. AccessTypeOK'
        BY <1>3, <1>4, <1>5, <2>1 DEF AccessInv, AccessTypeOK
    <2>3. ASSUME ask.stage # "none" PROVE Standing'
        <3>1. Standing
            BY <2>3 DEF AccessInv
        <3>2. screen.at # "none" /\ ask.moved = screen.moved
            BY <3>1 DEF Standing
        <3>3. screen'.moved = ask'.moved
            BY <1>5, <1>7, <2>1, <3>2
        <3>4. Offered(screen') = Offered(screen)
            BY <1>5, OfferedStays
        <3>5. <<ask'.route, ask'.to>> \in Offered(screen')
            BY <2>1, <3>1, <3>4 DEF Standing
        <3>6. "me" \notin ask'.moved => "me" \notin ask.moved /\ roles'["me"] = roles["me"]
            BY <1>3, <2>1
        <3> HIDE DEF Offered
        <3> QED
            BY <1>5, <2>1, <3>1, <3>3, <3>5, <3>6 DEF Standing
    <2>4. ask'.moved # {}
        BY <2>1
    <2> QED
        BY <1>8, <2>1, <2>2, <2>3, <2>4 DEF AccessInv, OfferedIsAllowed
<1> QED
    BY <1>9, <1>10

LEMMA AccessInvInit ==
    AccessInit /\ MaxChanges \in Nat => AccessInv
<1> SUFFICES ASSUME AccessInit, MaxChanges \in Nat
             PROVE  AccessInv
    OBVIOUS
<1>1. /\ roles \in [{"me", "user"} -> VALID_PERMS] /\ changes = 0
      /\ screen = Closed /\ ask = NoAsk
    BY DEF AccessInit
<1>2. ask.stage = "none" /\ ask.moved = {}
    BY <1>1 DEF NoAsk
<1>3. AccessTypeOK
    BY <1>1, <1>2 DEF AccessTypeOK, Closed
<1>4. ScreenInv
    BY <1>1 DEF ScreenInv, Closed
<1>5. AskInv
    BY <1>1, <1>2, NoAskIs DEF AskInv
<1> QED
    BY <1>2, <1>3, <1>4, <1>5 DEF AccessInv, OfferedIsAllowed

LEMMA AccessInvStep ==
    AccessInv /\ [AccessNext]_accessVars /\ MaxChanges \in Nat => AccessInv'
<1> SUFFICES ASSUME AccessInv, [AccessNext]_accessVars, MaxChanges \in Nat
             PROVE  AccessInv'
    OBVIOUS
<1>1. AskInv'
    BY AskInvStep DEF AccessInv
<1>2. CASE UNCHANGED accessVars
    <2>1. UNCHANGED <<roles, screen, ask, changes>>
        BY <1>2 DEF accessVars
    <2>2. AccessTypeOK' /\ ScreenInv'
        BY <2>1 DEF AccessInv, AccessTypeOK, ScreenInv
    <2>3. Standing => Standing'
        BY <2>1 DEF Standing
    <2>4. OfferedIsAllowed'
        BY <2>1 DEF AccessInv, OfferedIsAllowed
    <2> QED
        BY <1>1, <2>1, <2>2, <2>3, <2>4 DEF AccessInv
<1>3. ASSUME NEW at \in DOMAIN Scope, Open(at) PROVE AccessInv'
    BY <1>1, <1>3, OpenKeepsAccess
<1>4. CASE selectUser
    BY <1>1, <1>4, SelectKeepsAccess
<1>5. CASE AskFor
    BY <1>1, <1>5, SendKeepsAccess
<1>6. CASE Guard
    BY <1>1, <1>6, GuardKeepsAccess
<1>7. CASE HandleAsk
    BY <1>1, <1>7, HandleKeepsAccess
<1>8. CASE LookUpTarget
    BY <1>1, <1>8, LookUpKeepsAccess
<1>9. CASE WritePerms
    BY <1>1, <1>9, WriteKeepsAccess
<1>10. CASE Done
    <2>1. ask' = NoAsk /\ UNCHANGED <<roles, screen, changes>>
        BY <1>10 DEF Done
    <2> QED
        BY <1>1, <2>1, AskEnds
<1>11. ASSUME NEW who \in {"me", "user"}, ChangeRole(who) PROVE AccessInv'
    BY <1>1, <1>11, ChangeKeepsAccess
<1> QED
    BY <1>2, <1>3, <1>4, <1>5, <1>6, <1>7, <1>8, <1>9, <1>10, <1>11 DEF AccessNext

(* OfferedIsAllowed and ElevatedBySuperAdmins, for every number of changes: *)
(* nobody is refused what a page offered them unless a role has changed,    *)
(* the page was blind, or the refusal does not show; and no request gives   *)
(* or takes an elevated role but a Super Admin's.                           *)
THEOREM GuardsMirrored == AccessSpec => GuardsAgree
<1>1. AccessInit => AccessInv
    BY AccessInvInit, AccessAssumption
<1>2. AccessInv /\ [AccessNext]_accessVars => AccessInv'
    BY AccessInvStep, AccessAssumption
<1>3. AccessInv => OfferedIsAllowed
    BY DEF AccessInv
<1>4. AccessSpec => []OfferedIsAllowed
    BY <1>1, <1>2, <1>3, PTL DEF AccessSpec
<1> QED
    BY <1>4, ElevationIsGuarded DEF GuardsAgree

-----------------------------------------------------------------------------
(***************************************************************************)
(* The site: a behaviour is one of its parts, the others stand still.      *)
(***************************************************************************)

SiteInv == PagesInv /\ QueueInv /\ AccessInv /\ ImpInv /\ SignupInv /\ PermsInv

LEMMA SiteInvInit == SiteInit => SiteInv
<1> SUFFICES ASSUME SiteInit PROVE SiteInv
    OBVIOUS
<1>1. /\ PagesInit /\ QueueInit /\ AccessInit
      /\ ImpersonationInit /\ SignupInit /\ PermsInit
    BY DEF SiteInit
<1>2. PagesInv
    BY <1>1, PagesInvInit, ThingsAssumption, PanelsAssumption
<1>3. QueueInv
    BY <1>1, QueueInvInit
<1>4. AccessInv
    BY <1>1, AccessInvInit, AccessAssumption
<1>5. ImpInv /\ SignupInv /\ PermsInv
    BY <1>1, ImpInvInit, SignupInvInit, PermsInvInit
<1> QED
    BY <1>2, <1>3, <1>4, <1>5 DEF SiteInv

(* Every part takes a step of its own, or none.                             *)
LEMMA SiteParts ==
    ASSUME [SiteNext]_siteVars
    PROVE  /\ [PagesNext]_pageVars /\ [QueueNext]_queueVars
           /\ [AccessNext]_accessVars /\ [ImpersonationNext]_impVars
           /\ [SignupNext]_signupVars /\ [PermsNext]_permsVars
<1>1. CASE UNCHANGED siteVars
    BY <1>1 DEF siteVars, pagesPart, staffPart, userPart
<1>2. CASE UNCHANGED <<staffPart, userPart>> /\ (\/ PagesNext /\ UNCHANGED queueVars
                                                 \/ QueueNext /\ UNCHANGED pageVars)
    BY <1>2 DEF staffPart, userPart
<1>3. CASE UNCHANGED <<pagesPart, userPart>> /\ (\/ AccessNext /\ UNCHANGED impVars
                                                 \/ ImpersonationNext /\ UNCHANGED accessVars)
    BY <1>3 DEF pagesPart, userPart
<1>4. CASE UNCHANGED <<pagesPart, staffPart>> /\ (\/ SignupNext /\ UNCHANGED permsVars
                                                  \/ PermsNext /\ UNCHANGED signupVars)
    BY <1>4 DEF pagesPart, staffPart
<1> QED
    BY <1>1, <1>2, <1>3, <1>4 DEF SiteNext

LEMMA SiteInvStep == SiteInv /\ [SiteNext]_siteVars => SiteInv'
<1> SUFFICES ASSUME SiteInv, [SiteNext]_siteVars PROVE SiteInv'
    OBVIOUS
<1>1. /\ [PagesNext]_pageVars /\ [QueueNext]_queueVars
      /\ [AccessNext]_accessVars /\ [ImpersonationNext]_impVars
      /\ [SignupNext]_signupVars /\ [PermsNext]_permsVars
    BY SiteParts
<1>2. PagesInv'
    <2>1. CASE PagesNext
        BY <2>1, PagesInvStep, ThingsAssumption, PanelsAssumption DEF SiteInv
    <2>2. CASE UNCHANGED pageVars
        BY <2>2 DEF pageVars, SiteInv, PagesInv
    <2> QED
        BY <1>1, <2>1, <2>2
<1>3. QueueInv'
    BY <1>1, QueueInvStep, QueueAssumption DEF SiteInv
<1>4. AccessInv'
    BY <1>1, AccessInvStep, AccessAssumption DEF SiteInv
<1>5. ImpInv'
    BY <1>1, ImpInvStep DEF SiteInv
<1>6. SignupInv'
    BY <1>1, SignupInvStep DEF SiteInv
<1>7. PermsInv'
    BY <1>1, PermsInvStep DEF SiteInv
<1> QED
    BY <1>2, <1>3, <1>4, <1>5, <1>6, <1>7 DEF SiteInv

(* What the pages of a browser promise, whichever part of the site runs:    *)
(* for any panel that keeps the rules of Pages, any number of things, of    *)
(* clicks and of answers that come late, are refused or lost, what must not *)
(* be sent twice is not, no busy flag stays up, what is shown belongs to    *)
(* what is chosen; the position in a review queue is in the queue; and the  *)
(* roles, cookies, sign-ins and bans keep their types.                      *)
THEOREM PagesAreSound == SiteSpec => []PagesHold
<1>1. SiteInv => PagesHold
    <2> SUFFICES ASSUME SiteInv PROVE PagesHold
        OBVIOUS
    <2>1. ShownBelongs
        BY ShownHolds DEF SiteInv
    <2>2. BusyFlagsHold
        BY BusyHolds, PanelsAssumption DEF SiteInv
    <2>3. PositionInQueue
        BY DEF SiteInv, QueueInv
    <2>4. AccessTypeOK
        BY DEF SiteInv, AccessInv
    <2>5. ImpersonationTypeOK
        BY DEF SiteInv, ImpInv, Cell, ImpersonationTypeOK, ClickRecord
    <2>6. SignupTypeOK /\ PermsTypeOK
        BY DEF SiteInv, SignupInv, PermsInv
    <2> QED
        BY <2>1, <2>2, <2>3, <2>4, <2>5, <2>6 DEF PagesHold, SiteTypeOK
<1> QED
    BY <1>1, SiteInvInit, SiteInvStep, PTL DEF SiteSpec

(* Who may do what, in the site as the run checks it: the guards of the     *)
(* backend mirror what the pages offer, only a Super Admin gives or takes   *)
(* an elevated role, and no sweep lifts a ban that stood when it came to    *)
(* the user.                                                                *)
THEOREM SitePermissions == SiteSpec => GuardsAgree /\ ManualBanHeld
<1> DEFINE Just == WritePerms /\ ~isSuperAdmin(ask.as) =>
                          /\ ask.to \notin ELEVATED_PERMS
                          /\ roles["user"] \in ELEVATED_PERMS => ask.late
           Keeps == SweepClears => ~sweep.deliberate
<1>1. SiteInv => OfferedIsAllowed /\ AskInv /\ PermsInv
    BY DEF SiteInv, AccessInv
<1>2. AskInv => Just
    BY DEF AskInv, WritePerms, Elevates
<1>3. PermsInv => Keeps
    BY DEF PermsInv, SweepClears
<1>4. SiteInv /\ [SiteNext]_siteVars => [Just]_accessVars /\ [Keeps]_permsVars
    BY <1>1, <1>2, <1>3
<1>5. SiteSpec => []OfferedIsAllowed /\ [][Just]_accessVars /\ [][Keeps]_permsVars
    BY <1>1, <1>4, SiteInvInit, SiteInvStep, PTL DEF SiteSpec
<1> QED
    BY <1>5 DEF GuardsAgree, ElevatedBySuperAdmins, ManualBanHeld
=============================================================================
