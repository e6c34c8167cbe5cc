------------------------------ MODULE Handlers ------------------------------
(* How the pages' modules describe a handler and the markup that offers it; *)
(* Pages says what running one means.                                       *)
EXTENDS Naturals, Sequences, FiniteSets, TLC

(* The elements of a list at some of its places, in their order.  (Not      *)
(* SelectSeq, whose recursion the proofs could not follow.)                 *)
Sublist(s, places) ==
    [n \in 1 .. Cardinality(places) |->
        s[CHOOSE i \in places : Cardinality({j \in places : j <= i}) = n]]

(* What one outcome of a request does to the page, and what it starts: then *)
(* is awaited by the handler, also is not.                                  *)
Eff == [sets |-> {}, takes |-> {}, gives |-> {}, clears |-> {},
        cancels |-> {}, then |-> "", also |-> <<>>]

(* A handler: the thing it is about ("it": the one clicked; or a variable), *)
(* the early returns (needs, bars), what it writes before its first await,  *)
(* the timers it clears, what it starts without waiting, what its answers   *)
(* do (the success code first clears early, then dereferences derefs and    *)
(* throws if one is empty), and the flags it lowers however it ends.        *)
Local ==
    [kind |-> "local", of |-> "", needs |-> {}, bars |-> {},
     sets |-> {}, takes |-> {}, clears |-> {}, cancels |-> {}, starts |-> <<>>,
     early |-> {}, derefs |-> {}, ends |-> {},
     after |-> [ok |-> Eff, refused |-> Eff, lost |-> Eff]]
Read  == [Local EXCEPT !.kind = "read"]
Once  == [Local EXCEPT !.kind = "once"]     \* must not be in flight twice
Again == [Local EXCEPT !.kind = "again"]    \* a write the page lets through twice
Timer == [Local EXCEPT !.kind = "timer", !.after = [ok |-> Eff]]

(* What the markup asks before it offers a handler: variables up, down, and *)
(* (for a button of a list) variables that do not name this very thing.  A  *)
(* handler is offered wherever one of its offers holds.                     *)
Offer(on, off) == {[on |-> on, off |-> off, other |-> {}]}
OfferEach(on, off, other) == {[on |-> on, off |-> off, other |-> other]}
Always == Offer({}, {})

(* The offers of several parts of the markup together.                      *)
Offers(parts) ==
    [h \in UNION {DOMAIN parts[i] : i \in DOMAIN parts} |->
        UNION {parts[i][h] : i \in {j \in DOMAIN parts : h \in DOMAIN parts[j]}}]

(* Outcomes beside success, refusal and loss: what the answer says decides. *)
Or(name, eff) == [o \in {"ok", "refused", "lost", name} |-> IF o = name THEN eff ELSE Eff]
=============================================================================
