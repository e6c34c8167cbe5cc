---------------------------- MODULE GrantsProofs ----------------------------
(* Theorems of Grants, for any number of requests, orders and grant ids.    *)
(* The invariants hold together: a grant is paid under a lock on a row that *)
(* carries none, so money is on record, or still under that lock, before    *)
(* the same order can be paid again.                                        *)
EXTENDS Grants, ShopProofs

Request == [stage: Stages, order: OrderIds \cup {None}, provider: Providers,
            amount: Nat, bulk: BOOLEAN, row: Order \cup {None}, id: GrantIds \cup {None}]

grantAll == <<vars, grantVars>>

(* A request that is at work names an order that was placed.                *)
NamesOrder ==
    \A r \in Requests : req[r].stage # "idle" =>
        req[r].order \in OrderIds /\ orders[req[r].order] # Unused

(* The id a request carries is that of a payment for its order.             *)
CarriesPayment ==
    \A r \in Requests : req[r].stage \in {"issued", "stamping"} =>
        /\ req[r].id \in GrantIds \ Unpaid
        /\ paid[req[r].id].order = req[r].order
        /\ paid[req[r].id].provider = req[r].provider

(* Every payment is for an order that was placed.                           *)
PaidForPlaced == \A g \in GrantIds \ Unpaid : orders[paid[g].order] # Unused

(* What a request asks for stays within the budget while its order may be   *)
(* merged.                                                                  *)
AsksWithinBudget ==
    \A r \in Requests :
        req[r].stage # "idle" /\ req[r].provider = "hcb" /\ req[r].order \in OrderRows =>
            WithinBudget(req[r])

(* The inductive invariant.                                                 *)
GrantsInv ==
    /\ GrantsTypeOK
    /\ NamesOrder /\ CarriesPayment /\ PaidForPlaced
    /\ GrantsOnRecord
    /\ AsksWithinBudget /\ CardWithinBudget

-----------------------------------------------------------------------------
(* What each kind of move does to the requests.                             *)

LEMMA MoveEffect ==
    ASSUME GrantsTypeOK, NEW r \in Requests, NEW stage \in Stages, Move(r, stage)
    PROVE  /\ req' \in [Requests -> Request]
           /\ req'[r].stage = stage
           /\ req'[r].order = req[r].order /\ req'[r].provider = req[r].provider
           /\ req'[r].amount = req[r].amount /\ req'[r].bulk = req[r].bulk
           /\ req'[r].row = req[r].row /\ req'[r].id = req[r].id
           /\ \A s \in Requests \ {r} : req'[s] = req[s]
<1>1. req \in [Requests -> Request]
  BY DEF GrantsTypeOK, Request
<1>2. req' = [req EXCEPT ![r] = [req[r] EXCEPT !.stage = stage]]
  BY DEF Move
<1>3. [req[r] EXCEPT !.stage = stage] \in Request
  BY <1>1 DEF Request
<1>4. QED
  BY <1>1, <1>2, <1>3 DEF Request

LEMMA NoRequestType == NoRequest \in Request /\ NoRequest.stage = "idle"
  BY DEF NoRequest, Request, Stages, Providers

LEMMA EndEffect ==
    ASSUME GrantsTypeOK, NEW r \in Requests, End(r)
    PROVE  /\ req' \in [Requests -> Request]
           /\ req'[r] = NoRequest /\ req'[r].stage = "idle"
           /\ \A s \in Requests \ {r} : req'[s] = req[s]
<1>1. req \in [Requests -> Request]
  BY DEF GrantsTypeOK, Request
<1>2. QED
  BY <1>1, NoRequestType DEF End

LEMMA BeginEffect ==
    ASSUME GrantsTypeOK, NEW r \in Requests, NEW stage \in Stages, NEW o \in OrderIds,
           NEW p \in Providers, NEW amount \in Nat, NEW bulk \in BOOLEAN,
           Begin(r, stage, o, p, amount, bulk)
    PROVE  /\ req' \in [Requests -> Request]
           /\ req'[r].stage = stage /\ req'[r].order = o /\ req'[r].provider = p
           /\ req'[r].amount = amount /\ req'[r].bulk = bulk
           /\ \A s \in Requests \ {r} : req'[s] = req[s]
           /\ UNCHANGED <<vars, paid, troubled>>
<1> DEFINE q == [stage |-> stage, order |-> o, provider |-> p, amount |-> amount,
                 bulk |-> bulk, row |-> None, id |-> None]
<1>1. req \in [Requests -> Request]
  BY DEF GrantsTypeOK, Request
<1>2. q \in Request
  BY DEF Request
<1>3. req' = [req EXCEPT ![r] = q] /\ UNCHANGED <<vars, paid, troubled>>
  BY DEF Begin
<1>4. q.stage = stage /\ q.order = o /\ q.provider = p /\ q.amount = amount /\ q.bulk = bulk
  OBVIOUS
<1> HIDE DEF q
<1>5. QED
  BY <1>1, <1>2, <1>3, <1>4

(* Taking the lock, when the row is there and carries no grant.             *)
LEMMA LockEffect ==
    ASSUME GrantsTypeOK, NEW r \in Requests, LockRow(r), ~End(r)
    PROVE  /\ req' \in [Requests -> Request]
           /\ req[r].stage = "checked" /\ req'[r].stage = "calling"
           /\ req[r].order \in OrderRows \ LockedRows
           /\ orders[req[r].order].grantId[req[r].provider] = None
           /\ req'[r].row = orders[req[r].order]
           /\ req'[r].order = req[r].order /\ req'[r].provider = req[r].provider
           /\ req'[r].amount = req[r].amount /\ req'[r].bulk = req[r].bulk
           /\ \A s \in Requests \ {r} : req'[s] = req[s]
<1>1. req \in [Requests -> Request]
  BY DEF GrantsTypeOK, Request
<1>2. /\ req[r].order \in OrderRows \ LockedRows /\ req[r].stage = "checked"
      /\ orders[req[r].order].grantId[req[r].provider] = None
      /\ req' = [req EXCEPT ![r] = [req[r] EXCEPT !.stage = "calling", !.row = orders[req[r].order]]]
  BY DEF LockRow, LockRowIf
<1>3. orders[req[r].order] \in Order
  BY <1>2 DEF GrantsTypeOK, TypeOK, OrderRows
<1>4. [req[r] EXCEPT !.stage = "calling", !.row = orders[req[r].order]] \in Request
  BY <1>1, <1>3 DEF Request, Stages
<1>5. QED
  BY <1>1, <1>2, <1>4 DEF Request

LEMMA IssuedEffect ==
    ASSUME GrantsTypeOK, NEW r \in Requests, NEW g \in GrantIds, Issued(r, g)
    PROVE  /\ req' \in [Requests -> Request]
           /\ req[r].stage = "calling" /\ req'[r].stage = "issued" /\ req'[r].id = g
           /\ req'[r].row = req[r].row
           /\ req'[r].order = req[r].order /\ req'[r].provider = req[r].provider
           /\ req'[r].amount = req[r].amount /\ req'[r].bulk = req[r].bulk
           /\ \A s \in Requests \ {r} : req'[s] = req[s]
<1>1. req \in [Requests -> Request]
  BY DEF GrantsTypeOK, Request
<1>2. req' = [req EXCEPT ![r] = [req[r] EXCEPT !.stage = "issued", !.id = g]]
  BY DEF Issued
<1>3. [req[r] EXCEPT !.stage = "issued", !.id = g] \in Request
  BY <1>1 DEF Request, Stages
<1>4. QED
  BY <1>1, <1>2, <1>3 DEF Request, Issued
-----------------------------------------------------------------------------
(* What the shop does to an order that was placed: it stays placed, and as  *)
(* long as it has a row it costs no less than it did.                       *)

Grows(y) ==
    orders[y] # Unused =>
        /\ orders'[y] # Unused
        /\ y \in OrderRows' => y \in OrderRows /\ orders'[y].pipesSpent >= orders[y].pipesSpent

LEMMA UntouchedGrows ==
    ASSUME TypeOK, NEW y \in OrderIds, orders'[y] = orders[y]
    PROVE  Grows(y)
<1>1. y \in OrderRows => orders[y].pipesSpent \in Nat
  BY RowOrNot DEF Order
<1>2. QED
  BY <1>1 DEF Grows, OrderRows

LEMMA EditedGrows ==
    ASSUME NEW y \in OrderIds, orders[y] \in Order, orders'[y] \in Order,
           orders'[y].pipesSpent >= orders[y].pipesSpent
    PROVE  Grows(y)
  BY NullAssumption DEF Grows, OrderRows

LEMMA MergeGrows ==
    ASSUME TypeOK, NEW t \in OrderIds, MergeOrders(t), NEW y \in OrderIds
    PROVE  Grows(y)
<1>1. orders[t] \in Order /\ Merged(t) \in Order /\ t \notin Duplicates(t)
  BY MergeType, RowOrNot DEF MergeOrders, Duplicates, OtherPending
<1>2. CASE y = t
  <2>1. Duplicates(t) \subseteq OrderIds
    BY DEF Duplicates, OtherPending, OrderRows
  <2>2. Total(PipesColumn, Duplicates(t)) \in Nat
    BY <2>1, ColumnTotals
  <2>3. Merged(t).pipesSpent = orders[t].pipesSpent + Total(PipesColumn, Duplicates(t))
    BY <1>1 DEF Merged, Order
  <2>4. orders[t].pipesSpent \in Nat /\ orders'[t] = Merged(t)
    BY <1>1 DEF Order, MergeOrders
  <2>5. QED
    BY <1>1, <1>2, <2>2, <2>3, <2>4, EditedGrows
<1>3. CASE y \in Duplicates(t)
  <2>1. orders'[y] = Removed
    BY <1>1, <1>3 DEF MergeOrders
  <2>2. QED
    BY <2>1, NullAssumption DEF Grows, OrderRows
<1>4. CASE y # t /\ y \notin Duplicates(t)
  BY <1>4, UntouchedGrows DEF MergeOrders
<1>5. QED
  BY <1>2, <1>3, <1>4

LEMMA OrderGrows ==
    ASSUME TypeOK, [Next]_vars, NEW y \in OrderIds
    PROVE  Grows(y)
<1>1. ASSUME NEW u \in Users, NEW i \in Items, NEW q \in Quantities,
             NEW o \in OrderIds, Purchase(u, i, q, o)
      PROVE  Grows(y)
  <2>1. orders[o] = Unused /\ \A z \in OrderIds \ {o} : orders'[z] = orders[z]
    BY <1>1 DEF Purchase, PlaceOrder, TypeOK
  <2>2. QED
    BY <2>1, UntouchedGrows DEF Grows
<1>2. ASSUME NEW o \in OrderIds, FulfillOrder(o) \/ RefundOrder(o) PROVE Grows(y)
  <2>1. orders[o] \in Order
    BY <1>2, RowOrNot DEF FulfillOrder, RefundOrder
  <2>2. PICK status \in Statuses : orders' = [orders EXCEPT ![o].status = status]
    BY <1>2 DEF FulfillOrder, MarkFulfilled, RefundOrder, ReturnPipes, Statuses
  <2>3. /\ [orders[o] EXCEPT !.status = status] \in Order
        /\ [orders[o] EXCEPT !.status = status].pipesSpent = orders[o].pipesSpent
        /\ orders[o].pipesSpent \in Nat
    BY <2>1 DEF Order
  <2>4. CASE y = o
    BY <2>1, <2>2, <2>3, <2>4, EditedGrows DEF TypeOK
  <2>5. CASE y # o
    BY <2>2, <2>5, UntouchedGrows DEF TypeOK
  <2>6. QED
    BY <2>4, <2>5
<1>3. ASSUME NEW o \in OrderIds, NEW p \in Providers, NEW g \in GrantIds,
             CommitGrant(o, p, g) \/ StampGrant(o, p, g)
      PROVE  Grows(y)
  <2>1. orders[o] \in Order /\ orders' = [orders EXCEPT ![o].grantId[p] = g]
    BY <1>3, RowOrNot DEF CommitGrant, StampGrant
  <2>2. /\ [orders[o] EXCEPT !.grantId[p] = g] \in Order
        /\ [orders[o] EXCEPT !.grantId[p] = g].pipesSpent = orders[o].pipesSpent
        /\ orders[o].pipesSpent \in Nat
    BY <2>1 DEF Order
  <2>3. CASE y = o
    BY <2>1, <2>2, <2>3, EditedGrows DEF TypeOK
  <2>4. CASE y # o
    BY <2>1, <2>4, UntouchedGrows DEF TypeOK
  <2>5. QED
    BY <2>3, <2>4
<1>4. ASSUME NEW i \in Items, DeleteShopItem(i) PROVE Grows(y)
  <2>1. CASE y \in OrderRows /\ orders[y].shopItemId = i
    <3>1. orders[y] \in Order /\ orders'[y] = [orders[y] EXCEPT !.shopItemId = None]
      BY <1>4, <2>1, RowOrNot DEF DeleteShopItem
    <3>2. /\ orders'[y] \in Order /\ orders'[y].pipesSpent = orders[y].pipesSpent
          /\ orders[y].pipesSpent \in Nat
      BY <3>1 DEF Order
    <3>3. orders'[y].pipesSpent >= orders[y].pipesSpent
      BY <3>2
    <3>4. QED
      BY <3>1, <3>2, <3>3, EditedGrows
  <2>2. CASE ~(y \in OrderRows /\ orders[y].shopItemId = i)
    BY <1>4, <2>2, UntouchedGrows DEF DeleteShopItem
  <2>3. QED
    BY <2>1, <2>2
<1>5. CASE orders' = orders
  BY <1>5, UntouchedGrows
<1>6. CASE orders' # orders
  <2>1. \/ \E u \in Users, i \in Items, q \in Quantities, o \in OrderIds : Purchase(u, i, q, o)
        \/ \E o \in OrderIds : FulfillOrder(o) \/ RefundOrder(o) \/ MergeOrders(o)
        \/ GrantStep
        \/ \E i \in Items : DeleteShopItem(i)
    BY <1>6 DEF Next, ShopStep, RefundOwnOrder, Award, Clawback, AdjustPipes, AddPipes,
                SaveShopItem, vars, rows, history
  <2>2. CASE \E o \in OrderIds : FulfillOrder(o) \/ RefundOrder(o) \/ MergeOrders(o)
    BY <2>2, <1>2, MergeGrows
  <2>3. QED
    BY <2>1, <2>2, <1>1, <1>3, <1>4 DEF GrantStep
<1>7. QED
  BY <1>5, <1>6

(* A row that carries a grant is kept, with an id of that provider.         *)
LEMMA GrantKept ==
    ASSUME TypeOK, [Next]_vars, NEW y \in OrderRows, NEW p \in Providers,
           orders[y].grantId[p] # None
    PROVE  y \in OrderRows' /\ orders'[y].grantId[p] # None
<1>1. y \in OrderIds /\ IsGranted(y) /\ ~Inserts(y)
  BY DEF OrderRows, IsGranted, Inserts
<1>2. Keeps(y)
  BY <1>1, OrderLife DEF Cancels, Folds
<1>3. QED
  BY <1>2 DEF Keeps

-----------------------------------------------------------------------------
(* Refinement: what a grant step does to the rows is a step of the shop.    *)

LEMMA CommitIsGrant ==
    ASSUME GrantsInv, NEW r \in Requests, Commit(r)
    PROVE  /\ req[r].order \in OrderRows /\ req[r].id \in GrantIds
           /\ CommitGrant(req[r].order, req[r].provider, req[r].id)
<1>1. req[r].stage = "issued" /\ HoldsLock(r)
  BY DEF Commit, SaveRow, HoldsLock
<1>2. /\ req[r].order \in OrderRows
      /\ req[r].row = orders[req[r].order]
      /\ req[r].row.grantId[req[r].provider] = None
  BY <1>1 DEF GrantsInv, GrantsOnRecord, LockedRowIsFresh
<1>3. req[r].id \in GrantIds
  BY <1>1 DEF GrantsInv, CarriesPayment
<1>4. QED
  BY <1>1, <1>2, <1>3 DEF Commit, SaveRow, CommitGrant, history

LEMMA StampIsGrant ==
    ASSUME GrantsInv, NEW r \in Requests, Stamp(r)
    PROVE  UNCHANGED vars \/ StampGrant(req[r].order, req[r].provider, req[r].id)
  BY DEF Stamp, StampGrant, vars, rows, history

LEMMA GrantsStepIsShopStep == GrantsInv /\ [GrantsNext]_grantAll => [Next]_vars
<1> SUFFICES ASSUME GrantsInv, [GrantsNext]_grantAll PROVE [Next]_vars
  OBVIOUS
<1>1. CASE ShopRuns
  BY <1>1 DEF ShopRuns, Next
<1>2. ASSUME NEW r \in Requests, Commit(r) PROVE [Next]_vars
  <2>1. /\ req[r].order \in OrderIds /\ req[r].id \in GrantIds /\ req[r].provider \in Providers
        /\ CommitGrant(req[r].order, req[r].provider, req[r].id)
    BY <1>2, CommitIsGrant DEF GrantsInv, GrantsTypeOK, OrderRows
  <2>2. QED
    BY <2>1 DEF Next, GrantStep
<1>3. ASSUME NEW r \in Requests, Stamp(r) PROVE [Next]_vars
  <2>1. CASE StampGrant(req[r].order, req[r].provider, req[r].id)
    <3>1. req[r].order \in OrderIds /\ req[r].id \in GrantIds /\ req[r].provider \in Providers
      BY <1>3, <2>1 DEF Stamp, StampGrant, OrderRows, GrantsInv, GrantsTypeOK, CarriesPayment
    <3>2. QED
      BY <2>1, <3>1 DEF Next, GrantStep
  <2>2. QED
    BY <1>3, <2>1, StampIsGrant
<1>4. ASSUME NEW r \in Requests, FulfillGranted(r) PROVE [Next]_vars
  <2>1. CASE FulfillOrder(req[r].order)
    <3>1. req[r].order \in OrderIds
      BY <2>1 DEF FulfillOrder, OrderRows
    <3>2. QED
      BY <2>1, <3>1 DEF Next, ShopStep
  <2>2. QED
    BY <1>4, <2>1 DEF FulfillGranted
<1>5. ASSUME NEW r \in Requests, NEW o \in OrderIds,
             \/ \E admin \in Staff :
                \/ \E amount \in CardAmounts : RequestCard(r, o, admin, amount)
                \/ RequestSilo(r, o, admin)
             \/ RequestBulkCard(r, o)
      PROVE  UNCHANGED vars
  BY <1>5 DEF RequestCard, RequestSilo, RequestBulkCard, Begin
<1>6. ASSUME NEW r \in Requests,
             \/ GiveUp(r) \/ LockRow(r) \/ Refused(r) \/ CommitFails(r)
             \/ \E admin \in Staff : CheckBulkCard(r, admin)
             \/ \E g \in GrantIds : Issued(r, g) \/ AnswerLost(r, g)
      PROVE  UNCHANGED vars
  BY <1>6 DEF GiveUp, LockRow, LockRowIf, Refused, CommitFails, CheckBulkCard, Issued, AnswerLost
<1>7. CASE Crash
  BY <1>7 DEF Crash
<1>8. CASE UNCHANGED grantAll
  BY <1>8 DEF grantAll
<1>9. QED
  BY <1>1, <1>2, <1>3, <1>4, <1>5, <1>6, <1>7, <1>8 DEF GrantsNext, Resolve
-----------------------------------------------------------------------------
(* The kinds of step, one for each thing that can happen to the payments.   *)

(* A request is asked, priced, dropped or refused: nothing is paid.         *)
Asking(r) ==
    \/ \E o \in OrderIds :
        \/ \E admin \in Staff :
            \/ \E amount \in CardAmounts : RequestCard(r, o, admin, amount)
            \/ RequestSilo(r, o, admin)
        \/ RequestBulkCard(r, o)
    \/ \E admin \in Staff : CheckBulkCard(r, admin)

Leaving(r) == (GiveUp(r) \/ Refused(r) \/ LockRow(r)) /\ End(r)
Locking(r) == LockRow(r) /\ ~End(r)

LEMMA GrantsSteps ==
    ASSUME [GrantsNext]_grantAll
    PROVE  \/ ShopRuns \/ Crash \/ UNCHANGED grantAll
           \/ \E r \in Requests :
                \/ Asking(r) \/ Leaving(r) \/ Locking(r)
                \/ \E g \in GrantIds : Issued(r, g) \/ AnswerLost(r, g)
                \/ Commit(r) \/ CommitFails(r) \/ Stamp(r) \/ FulfillGranted(r)
<1>1. \A r \in Requests : GiveUp(r) \/ Refused(r) => End(r)
  BY DEF GiveUp, Refused
<1>2. QED
  BY <1>1 DEF GrantsNext, Resolve, Asking, Leaving, Locking

(* What is asked for is within the budget of its order.                     *)
Asked(r) ==
    /\ req' \in [Requests -> Request]
    /\ \A s \in Requests \ {r} : req'[s] = req[s]
    /\ UNCHANGED <<vars, paid, troubled>>
    /\ req[r].stage \in {"idle", "priced"} /\ req'[r].stage \in {"idle", "priced", "checked"}
    /\ req'[r].stage # "idle" =>
        /\ req'[r].order \in OrderRows
        /\ req'[r].provider = "hcb" => WithinBudget(req'[r])

LEMMA AskingEffect ==
    ASSUME GrantsInv, NEW r \in Requests, Asking(r)
    PROVE  Asked(r)
<1>1. ASSUME NEW o \in OrderIds, NEW admin \in Staff, NEW amount \in CardAmounts,
             RequestCard(r, o, admin, amount)
      PROVE  /\ Begin(r, "checked", o, "hcb", amount, FALSE) /\ o \in OrderRows
             /\ amount \in Nat /\ amount <= 2 * orders[o].pipesSpent
  BY <1>1, RequestAssumption DEF RequestCard, Recipient
<1>2. ASSUME NEW o \in OrderIds, NEW admin \in Staff, RequestSilo(r, o, admin)
      PROVE  Begin(r, "checked", o, "silo", SiloAmount, FALSE) /\ o \in OrderRows /\ SiloAmount \in Nat
  BY <1>2, RequestAssumption DEF RequestSilo, Recipient
<1>3. ASSUME NEW o \in OrderIds, RequestBulkCard(r, o)
      PROVE  /\ Begin(r, "priced", o, "hcb", orders[o].pipesSpent, TRUE) /\ o \in OrderRows
             /\ orders[o].pipesSpent \in Nat
  <2>1. o \in OrderRows /\ Begin(r, "priced", o, "hcb", orders[o].pipesSpent, TRUE)
    BY <1>3 DEF RequestBulkCard
  <2>2. QED
    BY <2>1, RowOrNot DEF Order, GrantsInv, GrantsTypeOK
<1>4. ASSUME NEW o \in OrderRows, NEW stage \in {"priced", "checked"}, NEW p \in Providers,
             NEW amount \in Nat, NEW bulk \in BOOLEAN, Begin(r, stage, o, p, amount, bulk),
             p = "hcb" => amount <= IF bulk THEN orders[o].pipesSpent ELSE 2 * orders[o].pipesSpent
      PROVE  Asked(r)
  <2>1. o \in OrderIds /\ stage \in Stages
    BY DEF OrderRows, Stages
  <2>2. req[r].stage = "idle"
    BY <1>4, NoRequestType DEF Begin
  <2>3. /\ req' \in [Requests -> Request]
        /\ req'[r].stage = stage /\ req'[r].order = o /\ req'[r].provider = p
        /\ req'[r].amount = amount /\ req'[r].bulk = bulk
        /\ \A s \in Requests \ {r} : req'[s] = req[s]
        /\ UNCHANGED <<vars, paid, troubled>>
    BY <1>4, <2>1, BeginEffect DEF GrantsInv
  <2>4. req'[r].provider = "hcb" => WithinBudget(req'[r])
    BY <1>4, <2>3 DEF WithinBudget
  <2>5. QED
    BY <2>1, <2>2, <2>3, <2>4 DEF Asked
<1>5. ASSUME NEW admin \in Staff, CheckBulkCard(r, admin)
      PROVE  Asked(r)
  <2>1. req[r].stage = "priced" /\ UNCHANGED <<vars, paid, troubled>>
    BY <1>5 DEF CheckBulkCard
  <2>2. CASE End(r)
    BY <2>1, <2>2, EndEffect DEF GrantsInv, Asked
  <2>3. CASE ~End(r)
    <3>1. Recipient(req[r].order, admin) /\ Move(r, "checked")
      BY <1>5, <2>3 DEF CheckBulkCard
    <3>2. req[r].provider = "hcb" => WithinBudget(req[r])
      BY <2>1, <3>1 DEF GrantsInv, AsksWithinBudget, Recipient
    <3>3. /\ req' \in [Requests -> Request] /\ req'[r].stage = "checked"
          /\ req'[r].order = req[r].order /\ req'[r].provider = req[r].provider
          /\ req'[r].amount = req[r].amount /\ req'[r].bulk = req[r].bulk
          /\ \A s \in Requests \ {r} : req'[s] = req[s]
      BY <3>1, MoveEffect DEF GrantsInv, Stages
    <3>4. req'[r].provider = "hcb" => WithinBudget(req'[r])
      BY <3>2, <3>3 DEF WithinBudget
    <3>5. QED
      BY <2>1, <3>1, <3>3, <3>4 DEF Recipient, Asked
  <2>4. QED
    BY <2>2, <2>3
<1>6. ASSUME NEW o \in OrderIds, NEW admin \in Staff, NEW amount \in CardAmounts,
             RequestCard(r, o, admin, amount)
      PROVE  Asked(r)
  BY <1>1, <1>4, <1>6 DEF Providers
<1>7. ASSUME NEW o \in OrderIds, NEW admin \in Staff, RequestSilo(r, o, admin)
      PROVE  Asked(r)
  BY <1>2, <1>4, <1>7 DEF Providers
<1>8. ASSUME NEW o \in OrderIds, RequestBulkCard(r, o)
      PROVE  Asked(r)
  <2>1. orders[o].pipesSpent \in Nat
    BY <1>3, <1>8
  <2>2. orders[o].pipesSpent <= IF TRUE THEN orders[o].pipesSpent ELSE 2 * orders[o].pipesSpent
    BY <2>1
  <2>3. QED
    BY <2>2, <1>3, <1>4, <1>8 DEF Providers
<1>9. QED
  BY <1>5, <1>6, <1>7, <1>8 DEF Asking

(* Every step that is a request's own leaves the other requests alone, and  *)
(* this request goes on for the order and the provider it was asked for, or *)
(* ends.                                                                    *)
Continues(r) ==
    /\ req'[r].order = req[r].order /\ req'[r].provider = req[r].provider
    /\ req'[r].amount = req[r].amount /\ req'[r].bulk = req[r].bulk

OwnStep(r) ==
    /\ req' \in [Requests -> Request]
    /\ \A s \in Requests \ {r} : req'[s] = req[s]

LEMMA OwnSteps ==
    ASSUME GrantsTypeOK, NEW r \in Requests
    PROVE  /\ Leaving(r) => OwnStep(r) /\ req'[r].stage = "idle" /\ UNCHANGED <<vars, paid, troubled>>
           /\ Locking(r) => /\ OwnStep(r) /\ Continues(r) /\ UNCHANGED <<vars, paid, troubled>>
                            /\ req[r].stage = "checked" /\ req'[r].stage = "calling"
           /\ \A g \in GrantIds : Issued(r, g) =>
                /\ OwnStep(r) /\ Continues(r) /\ UNCHANGED <<vars, troubled>>
                /\ req[r].stage = "calling" /\ req'[r].stage = "issued" /\ req'[r].id = g
                /\ req'[r].row = req[r].row
           /\ \A g \in GrantIds : AnswerLost(r, g) =>
                /\ OwnStep(r) /\ req[r].stage = "calling" /\ req'[r].stage = "idle" /\ UNCHANGED vars
           /\ Commit(r) =>
                /\ OwnStep(r) /\ req[r].stage = "issued" /\ UNCHANGED <<paid, troubled>>
                /\ req'[r].stage = "idle" \/ (req'[r].stage = "fulfilling" /\ Continues(r))
           /\ CommitFails(r) =>
                /\ OwnStep(r) /\ Continues(r) /\ UNCHANGED <<vars, paid>>
                /\ req[r].stage = "issued" /\ req'[r].stage = "stamping" /\ req'[r].id = req[r].id
           /\ Stamp(r) => /\ OwnStep(r) /\ req[r].stage = "stamping" /\ req'[r].stage = "idle"
                          /\ UNCHANGED <<paid, troubled>>
           /\ FulfillGranted(r) => /\ OwnStep(r) /\ req[r].stage = "fulfilling" /\ req'[r].stage = "idle"
                                   /\ UNCHANGED <<paid, troubled>>
<1>1. End(r) => OwnStep(r) /\ req'[r].stage = "idle"
  BY EndEffect DEF OwnStep
<1>2. ASSUME NEW stage \in Stages, Move(r, stage)
      PROVE  OwnStep(r) /\ Continues(r) /\ req'[r].stage = stage /\ req'[r].id = req[r].id
  BY <1>2, MoveEffect DEF OwnStep, Continues
<1>3. Leaving(r) => OwnStep(r) /\ req'[r].stage = "idle" /\ UNCHANGED <<vars, paid, troubled>>
  BY <1>1 DEF Leaving, GiveUp, Refused, LockRow, LockRowIf
<1>4. Locking(r) => /\ OwnStep(r) /\ Continues(r) /\ UNCHANGED <<vars, paid, troubled>>
                    /\ req[r].stage = "checked" /\ req'[r].stage = "calling"
  BY LockEffect DEF Locking, OwnStep, Continues, LockRow, LockRowIf
<1>5. ASSUME NEW g \in GrantIds, Issued(r, g)
      PROVE  /\ OwnStep(r) /\ Continues(r) /\ UNCHANGED <<vars, troubled>>
             /\ req[r].stage = "calling" /\ req'[r].stage = "issued" /\ req'[r].id = g
             /\ req'[r].row = req[r].row
  BY <1>5, IssuedEffect DEF OwnStep, Continues, Issued
<1>6. ASSUME NEW g \in GrantIds, AnswerLost(r, g)
      PROVE  /\ OwnStep(r) /\ req[r].stage = "calling" /\ req'[r].stage = "idle" /\ UNCHANGED vars
  BY <1>6, <1>1 DEF AnswerLost
<1>7. Commit(r) =>
        /\ OwnStep(r) /\ req[r].stage = "issued" /\ UNCHANGED <<paid, troubled>>
        /\ req'[r].stage = "idle" \/ (req'[r].stage = "fulfilling" /\ Continues(r))
  BY <1>1, <1>2 DEF Commit, SaveRow, Stages
<1>8. CommitFails(r) =>
        /\ OwnStep(r) /\ Continues(r) /\ UNCHANGED <<vars, paid>>
        /\ req[r].stage = "issued" /\ req'[r].stage = "stamping" /\ req'[r].id = req[r].id
  BY <1>2 DEF CommitFails, Stages
<1>9. Stamp(r) => /\ OwnStep(r) /\ req[r].stage = "stamping" /\ req'[r].stage = "idle"
                  /\ UNCHANGED <<paid, troubled>>
  BY <1>1 DEF Stamp
<1>10. FulfillGranted(r) => /\ OwnStep(r) /\ req[r].stage = "fulfilling" /\ req'[r].stage = "idle"
                            /\ UNCHANGED <<paid, troubled>>
  BY <1>1 DEF FulfillGranted
<1>11. QED
  BY <1>3, <1>4, <1>5, <1>6, <1>7, <1>8, <1>9, <1>10

LEMMA CrashEffect ==
    ASSUME Crash, NEW r \in Requests
    PROVE  req'[r] = NoRequest /\ req'[r].stage = "idle" /\ UNCHANGED <<vars, paid>>
  BY NoRequestType DEF Crash

(* What a payment adds.                                                     *)
LEMMA PaymentEffect ==
    ASSUME GrantsTypeOK, NEW r \in Requests, NEW g \in GrantIds, req[r].order \in OrderIds,
           Issued(r, g) \/ AnswerLost(r, g)
    PROVE  /\ paid' \in [GrantIds -> Payment \cup {None}]
           /\ g \in Unpaid /\ Unpaid' = Unpaid \ {g}
           /\ paid'[g].order = req[r].order /\ paid'[g].provider = req[r].provider
           /\ paid'[g].amount = req[r].amount /\ paid'[g].bulk = req[r].bulk
           /\ \A h \in GrantIds \ {g} : paid'[h] = paid[h]
<1> DEFINE new == [order |-> req[r].order, provider |-> req[r].provider,
                   amount |-> req[r].amount, bulk |-> req[r].bulk]
<1>1. new \in Payment
  BY DEF GrantsTypeOK, Payment
<1>2. paid' = [paid EXCEPT ![g] = new] /\ g \in Unpaid
  BY DEF Issued, AnswerLost
<1>3. /\ new.order = req[r].order /\ new.provider = req[r].provider
      /\ new.amount = req[r].amount /\ new.bulk = req[r].bulk
  OBVIOUS
<1>4. new # None
  BY <1>1, PaymentAssumption
<1> HIDE DEF new
<1>5. QED
  BY <1>1, <1>2, <1>3, <1>4 DEF GrantsTypeOK, Unpaid
-----------------------------------------------------------------------------
(* The invariant, conjunct by conjunct.                                     *)

LEMMA GrantsTypeStep == GrantsInv /\ [GrantsNext]_grantAll => GrantsTypeOK'
<1> SUFFICES ASSUME GrantsInv, [GrantsNext]_grantAll PROVE GrantsTypeOK'
  OBVIOUS
<1>1. GrantsTypeOK /\ TypeOK
  BY DEF GrantsInv, GrantsTypeOK
<1>2. TypeOK'
  BY <1>1, GrantsStepIsShopStep, NextType
<1>3. SUFFICES /\ req' \in [Requests -> Request]
               /\ paid' \in [GrantIds -> Payment \cup {None}]
               /\ troubled' \subseteq GrantIds
  BY <1>2 DEF GrantsTypeOK, Request
<1>4. /\ req \in [Requests -> Request] /\ paid \in [GrantIds -> Payment \cup {None}]
      /\ troubled \subseteq GrantIds
  BY <1>1 DEF GrantsTypeOK, Request
<1>5. \A r \in Requests : req[r].stage \in {"calling", "issued"} => req[r].order \in OrderIds
  BY DEF GrantsInv, NamesOrder
<1>6. \A r \in Requests : req[r].stage = "issued" => req[r].id \in GrantIds
  BY DEF GrantsInv, CarriesPayment
<1>7. CASE ShopRuns \/ UNCHANGED grantAll
  BY <1>4, <1>7 DEF ShopRuns, grantAll, grantVars
<1>8. CASE Crash
  BY <1>4, <1>6, <1>8, NoRequestType DEF Crash
<1>9. ASSUME NEW r \in Requests, Asking(r) \/ Leaving(r) \/ Locking(r) \/ Commit(r) \/ Stamp(r)
                                 \/ FulfillGranted(r)
      PROVE  <1>3!1
  BY <1>1, <1>4, <1>9, AskingEffect, OwnSteps DEF Asked, OwnStep
<1>10. ASSUME NEW r \in Requests, CommitFails(r) PROVE <1>3!1
  BY <1>1, <1>4, <1>6, <1>10, OwnSteps DEF OwnStep, CommitFails
<1>11. ASSUME NEW r \in Requests, NEW g \in GrantIds, Issued(r, g) \/ AnswerLost(r, g)
       PROVE  <1>3!1
  <2>1. req[r].order \in OrderIds
    BY <1>5, <1>11 DEF Issued, AnswerLost
  <2>2. paid' \in [GrantIds -> Payment \cup {None}]
    BY <1>1, <1>11, <2>1, PaymentEffect
  <2>3. QED
    BY <1>1, <1>4, <1>11, <2>2, OwnSteps DEF OwnStep, Issued, AnswerLost
<1>12. QED
  BY <1>7, <1>8, <1>9, <1>10, <1>11, GrantsSteps

LEMMA RowsGrow ==
    ASSUME GrantsInv, [GrantsNext]_grantAll, NEW y \in OrderIds
    PROVE  Grows(y)
  BY GrantsStepIsShopStep, OrderGrows DEF GrantsInv, GrantsTypeOK

LEMMA NamesStep == GrantsInv /\ [GrantsNext]_grantAll => NamesOrder'
<1> SUFFICES ASSUME GrantsInv, [GrantsNext]_grantAll, NEW y \in Requests, req'[y].stage # "idle"
             PROVE  req'[y].order \in OrderIds /\ orders'[req'[y].order] # Unused
  BY DEF NamesOrder
<1>1. GrantsTypeOK
  BY DEF GrantsInv
<1>2. CASE req[y].stage # "idle" /\ req'[y].order = req[y].order
  BY <1>2, RowsGrow DEF GrantsInv, NamesOrder, Grows
<1>3. CASE req'[y].order \in OrderRows
  BY <1>3, RowsGrow DEF OrderRows, Grows
<1>4. CASE ShopRuns \/ UNCHANGED grantAll
  BY <1>2, <1>4 DEF ShopRuns, grantAll, grantVars
<1>5. CASE Crash
  BY <1>5, CrashEffect
<1>6. ASSUME NEW r \in Requests,
             \/ Asking(r) \/ Leaving(r) \/ Locking(r) \/ Commit(r) \/ CommitFails(r) \/ Stamp(r)
             \/ FulfillGranted(r) \/ \E g \in GrantIds : Issued(r, g) \/ AnswerLost(r, g)
      PROVE  \/ req[y].stage # "idle" /\ req'[y].order = req[y].order
             \/ req'[y].order \in OrderRows
  <2>1. CASE Asking(r)
    BY <2>1, AskingEffect DEF Asked
  <2>2. CASE ~Asking(r)
    BY <1>1, <1>6, <2>2, OwnSteps DEF OwnStep, Continues
  <2>3. QED
    BY <2>1, <2>2
<1>7. QED
  BY <1>2, <1>3, <1>4, <1>5, <1>6, GrantsSteps

(* A payment, once made, is never changed; a new one is for the order of    *)
(* the request that asked for it.                                           *)
LEMMA PaymentLife ==
    ASSUME GrantsInv, [GrantsNext]_grantAll, NEW g \in GrantIds \ Unpaid'
    PROVE  \/ g \notin Unpaid /\ paid'[g] = paid[g]
           \/ g \in Unpaid /\ \E r \in Requests :
                /\ Issued(r, g) \/ AnswerLost(r, g)
                /\ req[r].stage = "calling"
                /\ paid'[g].order = req[r].order /\ paid'[g].provider = req[r].provider
                /\ paid'[g].amount = req[r].amount /\ paid'[g].bulk = req[r].bulk
<1>1. GrantsTypeOK
  BY DEF GrantsInv
<1>2. CASE paid' = paid
  BY <1>2 DEF Unpaid
<1>3. ASSUME NEW r \in Requests, NEW h \in GrantIds, Issued(r, h) \/ AnswerLost(r, h)
      PROVE  \/ g \notin Unpaid /\ paid'[g] = paid[g]
             \/ g \in Unpaid /\ h = g
                  /\ req[r].stage = "calling"
                  /\ paid'[g].order = req[r].order /\ paid'[g].provider = req[r].provider
                  /\ paid'[g].amount = req[r].amount /\ paid'[g].bulk = req[r].bulk
  <2>1. req[r].stage = "calling" /\ req[r].order \in OrderIds
    BY <1>3 DEF Issued, AnswerLost, GrantsInv, NamesOrder
  <2>2. QED
    BY <1>1, <1>3, <2>1, PaymentEffect
<1>4. CASE \E r \in Requests, h \in GrantIds : Issued(r, h) \/ AnswerLost(r, h)
  BY <1>3, <1>4
<1>5. CASE ~\E r \in Requests, h \in GrantIds : Issued(r, h) \/ AnswerLost(r, h)
  <2>1. \A r \in Requests : Asking(r) => paid' = paid
    BY AskingEffect DEF Asked
  <2>2. \A r \in Requests : Leaving(r) \/ Locking(r) \/ Commit(r) \/ CommitFails(r) \/ Stamp(r)
                             \/ FulfillGranted(r) => paid' = paid
    BY <1>1, OwnSteps
  <2>3. ShopRuns \/ Crash \/ UNCHANGED grantAll => paid' = paid
    BY DEF ShopRuns, Crash, grantAll, grantVars
  <2>4. QED
    BY <1>2, <1>5, <2>1, <2>2, <2>3, GrantsSteps
<1>6. QED
  BY <1>4, <1>5

LEMMA PlacedStep == GrantsInv /\ [GrantsNext]_grantAll => PaidForPlaced'
<1> SUFFICES ASSUME GrantsInv, [GrantsNext]_grantAll, NEW g \in GrantIds \ Unpaid'
             PROVE  orders'[paid'[g].order] # Unused
  BY DEF PaidForPlaced
<1>1. CASE g \notin Unpaid /\ paid'[g] = paid[g]
  <2>1. paid[g].order \in OrderIds /\ orders[paid[g].order] # Unused
    BY <1>1 DEF GrantsInv, GrantsTypeOK, PaidForPlaced, Unpaid, Payment
  <2>2. QED
    BY <1>1, <2>1, RowsGrow DEF Grows
<1>2. ASSUME NEW r \in Requests, req[r].stage = "calling", paid'[g].order = req[r].order
      PROVE  orders'[paid'[g].order] # Unused
  BY <1>2, RowsGrow DEF GrantsInv, NamesOrder, Grows
<1>3. QED
  BY <1>1, <1>2, PaymentLife

LEMMA PaymentStays ==
    ASSUME GrantsInv, [GrantsNext]_grantAll, NEW g \in GrantIds \ Unpaid
    PROVE  /\ g \notin Unpaid' /\ paid'[g] = paid[g]
           /\ troubled \subseteq troubled'
<1>1. GrantsTypeOK
  BY DEF GrantsInv
<1>2. CASE paid' = paid /\ troubled \subseteq troubled'
  BY <1>2 DEF Unpaid
<1>3. ASSUME NEW r \in Requests, NEW h \in GrantIds, Issued(r, h) \/ AnswerLost(r, h)
      PROVE  g \notin Unpaid' /\ paid'[g] = paid[g] /\ troubled \subseteq troubled'
  <2>1. req[r].order \in OrderIds
    BY <1>3 DEF Issued, AnswerLost, GrantsInv, NamesOrder
  <2>2. QED
    BY <1>1, <1>3, <2>1, PaymentEffect DEF Issued, AnswerLost
<1>4. \A r \in Requests : Asking(r) => <1>2!1
  BY AskingEffect DEF Asked
<1>5. \A r \in Requests : Leaving(r) \/ Locking(r) \/ Commit(r) \/ Stamp(r) \/ FulfillGranted(r) => <1>2!1
  BY <1>1, OwnSteps
<1>6. \A r \in Requests : CommitFails(r) => <1>2!1
  BY DEF CommitFails
<1>7. ShopRuns \/ Crash \/ UNCHANGED grantAll => <1>2!1
  BY DEF ShopRuns, Crash, grantAll, grantVars
<1>8. QED
  BY <1>2, <1>3, <1>4, <1>5, <1>6, <1>7, GrantsSteps

(* What becomes of a request that has been paid, or is paid by the step.    *)
LEMMA PaidRequestLife ==
    ASSUME GrantsInv, [GrantsNext]_grantAll, NEW y \in Requests,
           req'[y].stage \in {"issued", "stamping"}
    PROVE  \/ req[y].stage \in {"issued", "stamping"}
             /\ req'[y].id = req[y].id /\ req'[y].order = req[y].order
             /\ req'[y].provider = req[y].provider
           \/ req[y].stage = "calling" /\ \E g \in GrantIds : Issued(y, g)
<1>1. GrantsTypeOK
  BY DEF GrantsInv
<1>2. CASE ShopRuns \/ UNCHANGED grantAll
  BY <1>2 DEF ShopRuns, grantAll, grantVars
<1>3. CASE Crash
  BY <1>3, CrashEffect
<1>4. ASSUME NEW r \in Requests, Asking(r) PROVE req'[y] = req[y]
  BY <1>4, AskingEffect DEF Asked
<1>5. ASSUME NEW r \in Requests,
             Leaving(r) \/ Locking(r) \/ Commit(r) \/ Stamp(r) \/ FulfillGranted(r)
      PROVE  req'[y] = req[y]
  BY <1>1, <1>5, OwnSteps DEF OwnStep
<1>6. ASSUME NEW r \in Requests,
             CommitFails(r) \/ \E g \in GrantIds : Issued(r, g) \/ AnswerLost(r, g)
      PROVE  \/ req'[y] = req[y]
             \/ r = y /\ CommitFails(y)
             \/ r = y /\ \E g \in GrantIds : Issued(y, g)
  BY <1>1, <1>6, OwnSteps DEF OwnStep
<1>7. CommitFails(y) => /\ req[y].stage = "issued" /\ req'[y].id = req[y].id
                        /\ req'[y].order = req[y].order /\ req'[y].provider = req[y].provider
  BY <1>1, OwnSteps DEF Continues
<1>8. \A g \in GrantIds : Issued(y, g) => req[y].stage = "calling"
  BY DEF Issued
<1>9. QED
  BY <1>2, <1>3, <1>4, <1>5, <1>6, <1>7, <1>8, GrantsSteps

LEMMA CarriesStep == GrantsInv /\ [GrantsNext]_grantAll => CarriesPayment'
<1> SUFFICES ASSUME GrantsInv, [GrantsNext]_grantAll,
                    NEW y \in Requests, req'[y].stage \in {"issued", "stamping"}
             PROVE  /\ req'[y].id \in GrantIds \ Unpaid'
                    /\ paid'[req'[y].id].order = req'[y].order
                    /\ paid'[req'[y].id].provider = req'[y].provider
  BY DEF CarriesPayment
<1>1. CASE /\ req[y].stage \in {"issued", "stamping"}
           /\ req'[y].id = req[y].id /\ req'[y].order = req[y].order
           /\ req'[y].provider = req[y].provider
  BY <1>1, PaymentStays DEF GrantsInv, CarriesPayment
<1>2. ASSUME NEW g \in GrantIds, Issued(y, g)
      PROVE  /\ req'[y].id \in GrantIds \ Unpaid'
             /\ paid'[req'[y].id].order = req'[y].order
             /\ paid'[req'[y].id].provider = req'[y].provider
  <2>1. GrantsTypeOK /\ req[y].order \in OrderIds
    BY <1>2 DEF Issued, GrantsInv, NamesOrder
  <2>2. req'[y].id = g /\ Continues(y)
    BY <1>2, <2>1, OwnSteps
  <2>3. QED
    BY <1>2, <2>1, <2>2, PaymentEffect DEF Continues
<1>3. QED
  BY <1>1, <1>2, PaidRequestLife

-----------------------------------------------------------------------------
(* The row lock: the row one request holds is left alone by the others.     *)
LEMMA LockKeepsRow ==
    ASSUME GrantsInv, NEW y \in Requests, HoldsLock(y), NEW r \in Requests \ {y},
           Commit(r) \/ Stamp(r) \/ FulfillGranted(r)
    PROVE  orders'[req[y].order] = orders[req[y].order]
<1>1. /\ req[y].order \in OrderIds /\ req[y].order \in LockedRows
      /\ orders \in [OrderIds -> Order \cup {Unused, Removed}]
  BY DEF GrantsInv, NamesOrder, HoldsLock, LockedRows, GrantsTypeOK, TypeOK
<1>2. CASE Commit(r)
  <2>1. HoldsLock(r) /\ orders' = [orders EXCEPT ![req[r].order] =
                                    [req[r].row EXCEPT !.grantId[req[r].provider] = req[r].id]]
    BY <1>2 DEF Commit, SaveRow, HoldsLock
  <2>2. req[r].order # req[y].order
    BY <2>1 DEF GrantsInv, GrantsOnRecord, LockedRowIsFresh
  <2>3. QED
    BY <1>1, <2>1, <2>2
<1>3. CASE Stamp(r)
  BY <1>1, <1>3 DEF Stamp
<1>4. CASE FulfillGranted(r)
  BY <1>1, <1>4 DEF FulfillGranted, FulfillOrder, MarkFulfilled, vars, rows
<1>5. QED
  BY <1>2, <1>3, <1>4

LEMMA LockLife ==
    ASSUME GrantsInv, [GrantsNext]_grantAll, NEW y \in Requests, HoldsLock(y)'
    PROVE  \/ /\ HoldsLock(y)
              /\ req'[y].order = req[y].order /\ req'[y].provider = req[y].provider
              /\ req'[y].row = req[y].row
              /\ orders'[req[y].order] = orders[req[y].order]
           \/ Locking(y)
<1>1. GrantsTypeOK /\ req'[y].stage \in {"calling", "issued"}
  BY DEF GrantsInv, HoldsLock
<1>2. CASE ShopRuns
  BY <1>2 DEF ShopRuns, grantVars, HoldsLock, LockedRows
<1>3. CASE UNCHANGED grantAll
  BY <1>3 DEF grantAll, grantVars, vars, rows, HoldsLock
<1>4. CASE Crash
  BY <1>1, <1>4, CrashEffect
<1>5. ASSUME NEW r \in Requests \ {y},
             \/ Asking(r) \/ Leaving(r) \/ Locking(r)
             \/ CommitFails(r) \/ \E g \in GrantIds : Issued(r, g) \/ AnswerLost(r, g)
      PROVE  req'[y] = req[y] /\ UNCHANGED vars
  <2>1. CASE Asking(r)
    BY <2>1, AskingEffect DEF Asked
  <2>2. CASE ~Asking(r)
    BY <1>1, <1>5, <2>2, OwnSteps DEF OwnStep
  <2>3. QED
    BY <2>1, <2>2
<1>6. ASSUME NEW r \in Requests \ {y}, Commit(r) \/ Stamp(r) \/ FulfillGranted(r)
      PROVE  req'[y] = req[y] /\ (HoldsLock(y) => orders'[req[y].order] = orders[req[y].order])
  BY <1>1, <1>6, OwnSteps, LockKeepsRow DEF OwnStep
<1>7. ASSUME NEW r \in Requests \ {y},
             \/ Asking(r) \/ Leaving(r) \/ Locking(r)
             \/ \E g \in GrantIds : Issued(r, g) \/ AnswerLost(r, g)
             \/ Commit(r) \/ CommitFails(r) \/ Stamp(r) \/ FulfillGranted(r)
      PROVE  /\ HoldsLock(y) /\ req'[y] = req[y]
             /\ orders'[req[y].order] = orders[req[y].order]
  BY <1>1, <1>5, <1>6, <1>7 DEF HoldsLock, vars, rows
<1>8. ~Asking(y)
  BY <1>1, AskingEffect DEF Asked
<1>9. ~(Leaving(y) \/ Commit(y) \/ CommitFails(y) \/ Stamp(y) \/ FulfillGranted(y))
  BY <1>1, OwnSteps
<1>10. \A g \in GrantIds : ~AnswerLost(y, g)
  BY <1>1, OwnSteps
<1>11. ASSUME NEW g \in GrantIds, Issued(y, g)
       PROVE  /\ HoldsLock(y)
              /\ req'[y].order = req[y].order /\ req'[y].provider = req[y].provider
              /\ req'[y].row = req[y].row
              /\ orders'[req[y].order] = orders[req[y].order]
  BY <1>1, <1>11, OwnSteps DEF Continues, HoldsLock, vars, rows
<1>12. QED
  BY <1>2, <1>3, <1>4, <1>7, <1>8, <1>9, <1>10, <1>11, GrantsSteps

LEMMA FreshStep == GrantsInv /\ [GrantsNext]_grantAll => LockedRowIsFresh'
<1> SUFFICES ASSUME GrantsInv, [GrantsNext]_grantAll, NEW y \in Requests, HoldsLock(y)'
             PROVE  /\ req'[y].order \in OrderRows'
                    /\ req'[y].row = orders'[req'[y].order]
                    /\ req'[y].row.grantId[req'[y].provider] = None
                    /\ \A s \in Requests \ {y} : HoldsLock(s)' => req'[s].order # req'[y].order
  BY DEF LockedRowIsFresh
<1> DEFINE Kept(s) == /\ HoldsLock(s)
                      /\ req'[s].order = req[s].order /\ req'[s].provider = req[s].provider
                      /\ req'[s].row = req[s].row
                      /\ orders'[req[s].order] = orders[req[s].order]
<1>1. GrantsTypeOK
  BY DEF GrantsInv
<1>2. \A s \in Requests : HoldsLock(s)' => Kept(s) \/ Locking(s)
  BY LockLife
<1>3. ASSUME NEW s \in Requests, Locking(s)
      PROVE  /\ req[s].order \in OrderRows \ LockedRows /\ UNCHANGED vars
             /\ orders[req[s].order].grantId[req[s].provider] = None
             /\ req'[s].row = orders[req[s].order]
             /\ req'[s].order = req[s].order /\ req'[s].provider = req[s].provider
             /\ \A z \in Requests \ {s} : req'[z] = req[z]
             /\ ~HoldsLock(s)
  BY <1>1, <1>3, LockEffect DEF Locking, LockRow, LockRowIf, HoldsLock
<1>4. /\ req'[y].order \in OrderRows' /\ req'[y].row = orders'[req'[y].order]
      /\ req'[y].row.grantId[req'[y].provider] = None
  <2>1. CASE Kept(y)
    BY <2>1 DEF GrantsInv, GrantsOnRecord, LockedRowIsFresh, OrderRows
  <2>2. CASE Locking(y)
    BY <2>2, <1>3 DEF OrderRows, vars, rows
  <2>3. QED
    BY <1>2, <2>1, <2>2
<1>5. ASSUME NEW s \in Requests \ {y}, HoldsLock(s)' PROVE req'[s].order # req'[y].order
  <2>1. CASE Kept(s) /\ Kept(y)
    BY <2>1 DEF GrantsInv, GrantsOnRecord, LockedRowIsFresh
  <2>2. CASE Locking(y)
    <3>1. HoldsLock(s) /\ req'[s] = req[s]
      BY <1>3, <1>5, <2>2 DEF HoldsLock
    <3>2. QED
      BY <1>3, <2>2, <3>1 DEF LockedRows
  <2>3. CASE Locking(s)
    <3>1. HoldsLock(y) /\ req'[y] = req[y]
      BY <1>3, <2>3 DEF HoldsLock
    <3>2. QED
      BY <1>3, <2>3, <3>1 DEF LockedRows
  <2>4. QED
    BY <1>2, <1>5, <2>1, <2>2, <2>3
<1>6. QED
  BY <1>4, <1>5

(* A request that was answered goes on holding the lock, commits the id it  *)
(* was given, or reports it as not committed.                               *)
LEMMA IssuedLife ==
    ASSUME GrantsInv, [GrantsNext]_grantAll, NEW y \in Requests, req[y].stage = "issued"
    PROVE  \/ req'[y].stage = "issued" /\ req'[y].id = req[y].id
           \/ Commit(y)
           \/ req[y].id \in troubled'
<1>1. GrantsTypeOK
  BY DEF GrantsInv
<1>2. CASE ShopRuns \/ UNCHANGED grantAll
  BY <1>2 DEF ShopRuns, grantAll, grantVars
<1>3. CASE Crash
  BY <1>3 DEF Crash
<1>4. ASSUME NEW r \in Requests,
             \/ Leaving(r) \/ Locking(r) \/ Commit(r) \/ CommitFails(r) \/ Stamp(r)
             \/ FulfillGranted(r) \/ \E g \in GrantIds : Issued(r, g) \/ AnswerLost(r, g)
      PROVE  req'[y] = req[y] \/ r = y
  BY <1>1, <1>4, OwnSteps DEF OwnStep
<1>5. \A r \in Requests : Asking(r) => req'[y] = req[y]
  BY AskingEffect DEF Asked
<1>6. ~(Leaving(y) \/ Locking(y) \/ Stamp(y) \/ FulfillGranted(y))
  BY DEF Leaving, Locking, GiveUp, Refused, LockRow, LockRowIf, Stamp, FulfillGranted
<1>7. \A g \in GrantIds : ~(Issued(y, g) \/ AnswerLost(y, g))
  BY DEF Issued, AnswerLost
<1>8. CommitFails(y) => req[y].id \in troubled'
  BY DEF CommitFails
<1>9. QED
  BY <1>2, <1>3, <1>4, <1>5, <1>6, <1>7, <1>8, GrantsSteps

(* A grant that is new, and whose answer arrived, is still under the lock   *)
(* it was paid under.                                                       *)
LEMMA NewGrant ==
    ASSUME GrantsInv, [GrantsNext]_grantAll, NEW g \in Unpaid, g \notin Unpaid' \cup troubled'
    PROVE  \E r \in Requests :
              /\ Issued(r, g) /\ HoldsLock(r) /\ req[r].stage = "calling"
              /\ req'[r].stage = "issued" /\ req'[r].id = g
              /\ paid'[g].order = req[r].order /\ paid'[g].provider = req[r].provider
              /\ Unpaid' = Unpaid \ {g}
<1>1. GrantsTypeOK /\ g \in GrantIds
  BY DEF GrantsInv, Unpaid
<1>2. PICK r \in Requests :
        /\ Issued(r, g) \/ AnswerLost(r, g)
        /\ req[r].stage = "calling"
        /\ paid'[g].order = req[r].order /\ paid'[g].provider = req[r].provider
  BY <1>1, PaymentLife
<1>3. Issued(r, g)
  BY <1>2 DEF AnswerLost
<1>4. req'[r].stage = "issued" /\ req'[r].id = g
  BY <1>1, <1>3, OwnSteps
<1>5. req[r].order \in OrderIds
  BY <1>2 DEF GrantsInv, NamesOrder
<1>6. Unpaid' = Unpaid \ {g}
  BY <1>1, <1>3, <1>5, PaymentEffect
<1>7. QED
  BY <1>2, <1>3, <1>4, <1>6 DEF HoldsLock

LEMMA RecordStep == GrantsInv /\ [GrantsNext]_grantAll => CommittedGrantOnRecord'
<1> SUFFICES ASSUME GrantsInv, [GrantsNext]_grantAll, NEW g \in GrantIds \ (Unpaid' \cup troubled')
             PROVE  \/ \E r \in Requests : req'[r].stage = "issued" /\ req'[r].id = g
                    \/ /\ paid'[g].order \in OrderRows'
                       /\ orders'[paid'[g].order].grantId[paid'[g].provider] # None
  BY DEF CommittedGrantOnRecord
<1>1. CASE g \in Unpaid
  BY <1>1, NewGrant
<1>2. CASE g \notin Unpaid
  <2>1. g \in GrantIds \ (Unpaid \cup troubled) /\ paid'[g] = paid[g]
    BY <1>2, PaymentStays
  <2>2. CASE /\ paid[g].order \in OrderRows
             /\ orders[paid[g].order].grantId[paid[g].provider] # None
    <3>1. TypeOK /\ [Next]_vars /\ paid[g].provider \in Providers
      BY <2>1, GrantsStepIsShopStep DEF GrantsInv, GrantsTypeOK, Payment, Unpaid
    <3>2. QED
      BY <2>1, <2>2, <3>1, GrantKept
  <2>3. ASSUME NEW r \in Requests, req[r].stage = "issued", req[r].id = g
        PROVE  \/ req'[r].stage = "issued" /\ req'[r].id = g
               \/ /\ paid'[g].order \in OrderRows'
                  /\ orders'[paid'[g].order].grantId[paid'[g].provider] # None
    <3>1. CASE Commit(r)
      <4>1. /\ req[r].order \in OrderRows /\ req[r].provider \in Providers
            /\ CommitGrant(req[r].order, req[r].provider, g)
        BY <2>3, <3>1, CommitIsGrant DEF GrantsInv, GrantsTypeOK
      <4>2. orders[req[r].order] \in Order /\ g # None
        BY <4>1, RowOrNot, NullAssumption DEF GrantsInv, GrantsTypeOK, OrderRows
      <4>3. /\ orders'[req[r].order] = [orders[req[r].order] EXCEPT !.grantId[req[r].provider] = g]
            /\ [orders[req[r].order] EXCEPT !.grantId[req[r].provider] = g] \in Order
            /\ [orders[req[r].order] EXCEPT !.grantId[req[r].provider] = g].grantId[req[r].provider] = g
        BY <4>1, <4>2 DEF CommitGrant, Order, GrantsInv, GrantsTypeOK, TypeOK, OrderRows
      <4>4. req[r].order \in OrderRows' /\ orders'[req[r].order].grantId[req[r].provider] # None
        BY <4>1, <4>2, <4>3, NullAssumption DEF OrderRows
      <4>5. paid[g].order = req[r].order /\ paid[g].provider = req[r].provider
        BY <2>3 DEF GrantsInv, CarriesPayment
      <4>6. QED
        BY <2>1, <4>4, <4>5
    <3>2. QED
      BY <2>3, <3>1, IssuedLife
  <2>4. QED
    BY <2>1, <2>2, <2>3 DEF GrantsInv, GrantsOnRecord, CommittedGrantOnRecord
<1>3. QED
  BY <1>1, <1>2

(* A request about to be paid finds no other grant for its order: one that  *)
(* is on record would have been seen under the lock, one that is not yet    *)
(* would still hold it.                                                     *)
LEMMA CallingIsFirst ==
    ASSUME GrantsInv, NEW r \in Requests, req[r].stage = "calling",
           NEW h \in GrantIds \ (Unpaid \cup troubled)
    PROVE  paid[h].order # req[r].order \/ paid[h].provider # req[r].provider
<1>1. HoldsLock(r)
  BY DEF HoldsLock
<1>2. ASSUME NEW s \in Requests, req[s].stage = "issued", req[s].id = h
      PROVE  paid[h].order # req[r].order
  <2>1. HoldsLock(s) /\ s # r /\ paid[h].order = req[s].order
    BY <1>2 DEF HoldsLock, GrantsInv, CarriesPayment
  <2>2. QED
    BY <1>1, <2>1 DEF GrantsInv, GrantsOnRecord, LockedRowIsFresh
<1>3. ASSUME orders[paid[h].order].grantId[paid[h].provider] # None
      PROVE  paid[h].order # req[r].order \/ paid[h].provider # req[r].provider
  BY <1>1, <1>3 DEF GrantsInv, GrantsOnRecord, LockedRowIsFresh
<1>4. QED
  BY <1>2, <1>3 DEF GrantsInv, GrantsOnRecord, CommittedGrantOnRecord

LEMMA OneStep == GrantsInv /\ [GrantsNext]_grantAll => OneGrantPerOrder'
<1> SUFFICES ASSUME GrantsInv, [GrantsNext]_grantAll,
                    NEW g \in GrantIds \ (Unpaid' \cup troubled'),
                    NEW h \in GrantIds \ (Unpaid' \cup troubled'),
                    paid'[g].order = paid'[h].order, paid'[g].provider = paid'[h].provider
             PROVE  g = h
  BY DEF OneGrantPerOrder
<1>1. \A x \in {g, h} : x \notin Unpaid => paid'[x] = paid[x] /\ x \in GrantIds \ (Unpaid \cup troubled)
  BY PaymentStays
<1>2. ASSUME NEW x \in {g, h}, x \in Unpaid
      PROVE  /\ Unpaid' = Unpaid \ {x}
             /\ \E r \in Requests : /\ req[r].stage = "calling"
                                    /\ paid'[x].order = req[r].order
                                    /\ paid'[x].provider = req[r].provider
  BY <1>2, NewGrant
<1>3. CASE g \notin Unpaid /\ h \notin Unpaid
  BY <1>1, <1>3 DEF GrantsInv, GrantsOnRecord, OneGrantPerOrder
<1>4. CASE g \in Unpaid /\ h \in Unpaid
  BY <1>2, <1>4
<1>5. CASE g \in Unpaid /\ h \notin Unpaid
  BY <1>1, <1>2, <1>5, CallingIsFirst
<1>6. CASE g \notin Unpaid /\ h \in Unpaid
  BY <1>1, <1>2, <1>6, CallingIsFirst
<1>7. QED
  BY <1>3, <1>4, <1>5, <1>6

-----------------------------------------------------------------------------
(* The budget: a merge only makes its target dearer.                        *)

LEMMA BudgetGrows ==
    ASSUME GrantsInv, [GrantsNext]_grantAll, NEW o \in OrderRows', orders[o] # Unused,
           NEW q \in Request \cup Payment, q.order = o,
           o \in OrderRows => WithinBudget(q)
    PROVE  WithinBudget(q)'
<1>1. o \in OrderIds
  BY DEF OrderRows
<1>2. o \in OrderRows /\ orders'[o].pipesSpent >= orders[o].pipesSpent
  BY <1>1, RowsGrow DEF Grows
<1>3. orders[o].pipesSpent \in Nat /\ orders'[o].pipesSpent \in Nat
  <2>1. TypeOK /\ TypeOK'
    BY GrantsTypeStep DEF GrantsInv, GrantsTypeOK
  <2>2. orders[o] \in Order /\ orders'[o] \in Order
    BY <1>1, <1>2, <2>1 DEF TypeOK, OrderRows
  <2>3. QED
    BY <2>2 DEF Order
<1>4. q.amount \in Nat /\ q.bulk \in BOOLEAN
  BY DEF Request, Payment
<1>5. CASE q.bulk = TRUE
  BY <1>2, <1>3, <1>4, <1>5 DEF WithinBudget
<1>6. CASE q.bulk = FALSE
  BY <1>2, <1>3, <1>4, <1>6 DEF WithinBudget
<1>7. QED
  BY <1>4, <1>5, <1>6

(* A request at work was just asked for, or was already.                    *)
LEMMA RequestLife ==
    ASSUME GrantsInv, [GrantsNext]_grantAll, NEW y \in Requests, req'[y].stage # "idle"
    PROVE  \/ Asked(y)
           \/ req[y].stage # "idle" /\ Continues(y)
<1>1. GrantsTypeOK
  BY DEF GrantsInv
<1>2. CASE ShopRuns \/ UNCHANGED grantAll
  BY <1>2 DEF ShopRuns, grantAll, grantVars, Continues
<1>3. CASE Crash
  BY <1>3, CrashEffect
<1>4. ASSUME NEW r \in Requests \ {y},
             \/ Leaving(r) \/ Locking(r) \/ Commit(r) \/ CommitFails(r) \/ Stamp(r)
             \/ FulfillGranted(r) \/ \E g \in GrantIds : Issued(r, g) \/ AnswerLost(r, g)
      PROVE  req'[y] = req[y]
  BY <1>1, <1>4, OwnSteps DEF OwnStep
<1>5. \A r \in Requests \ {y} : Asking(r) => req'[y] = req[y]
  BY AskingEffect DEF Asked
<1>6. Asking(y) => Asked(y)
  BY AskingEffect
<1>7. Locking(y) \/ Commit(y) \/ CommitFails(y) => req[y].stage # "idle" /\ Continues(y)
  BY <1>1, OwnSteps
<1>8. \A g \in GrantIds : Issued(y, g) => req[y].stage # "idle" /\ Continues(y)
  BY <1>1, OwnSteps
<1>9. ~(Leaving(y) \/ Stamp(y) \/ FulfillGranted(y))
  BY <1>1, OwnSteps
<1>10. \A g \in GrantIds : ~AnswerLost(y, g)
  BY <1>1, OwnSteps
<1>11. req'[y] = req[y] => req[y].stage # "idle" /\ Continues(y)
  BY DEF Continues
<1>12. QED
  BY <1>2, <1>3, <1>4, <1>5, <1>6, <1>7, <1>8, <1>9, <1>10, <1>11, GrantsSteps

LEMMA AsksStep == GrantsInv /\ [GrantsNext]_grantAll => AsksWithinBudget'
<1> SUFFICES ASSUME GrantsInv, [GrantsNext]_grantAll, NEW y \in Requests,
                    req'[y].stage # "idle", req'[y].provider = "hcb", req'[y].order \in OrderRows'
             PROVE  WithinBudget(req[y])'
  BY DEF AsksWithinBudget
<1>1. req'[y] \in Request /\ req[y] \in Request
  BY GrantsTypeStep DEF GrantsInv, GrantsTypeOK, Request
<1>2. CASE Asked(y)
  BY <1>1, <1>2 DEF Asked, WithinBudget, vars, rows
<1>3. CASE req[y].stage # "idle" /\ Continues(y)
  <2>1. orders[req[y].order] # Unused /\ req[y].order = req'[y].order
    BY <1>3 DEF GrantsInv, NamesOrder, Continues
  <2>2. req'[y].order \in OrderRows => WithinBudget(req[y])
    BY <1>3, <2>1 DEF GrantsInv, AsksWithinBudget, Continues
  <2>3. QED
    BY <1>1, <1>3, <2>1, <2>2, BudgetGrows DEF Continues, WithinBudget
<1>4. QED
  BY <1>2, <1>3, RequestLife

LEMMA CardStep == GrantsInv /\ [GrantsNext]_grantAll => CardWithinBudget'
<1> SUFFICES ASSUME GrantsInv, [GrantsNext]_grantAll, NEW g \in GrantIds \ Unpaid',
                    paid'[g].provider = "hcb", paid'[g].order \in OrderRows'
             PROVE  WithinBudget(paid[g])'
  BY DEF CardWithinBudget
<1>1. paid'[g] \in Payment
  BY GrantsTypeStep DEF GrantsTypeOK, Unpaid
<1>2. CASE g \notin Unpaid /\ paid'[g] = paid[g]
  <2>1. orders[paid[g].order] # Unused
    BY <1>2 DEF GrantsInv, PaidForPlaced
  <2>2. paid[g].order \in OrderRows => WithinBudget(paid[g])
    BY <1>2 DEF GrantsInv, CardWithinBudget
  <2>3. QED
    BY <1>1, <1>2, <2>1, <2>2, BudgetGrows DEF WithinBudget
<1>3. ASSUME NEW r \in Requests, req[r].stage = "calling",
             paid'[g].order = req[r].order, paid'[g].provider = req[r].provider,
             paid'[g].amount = req[r].amount, paid'[g].bulk = req[r].bulk
      PROVE  WithinBudget(paid[g])'
  <2>1. req[r] \in Request /\ orders[req[r].order] # Unused
    BY <1>3 DEF GrantsInv, GrantsTypeOK, Request, NamesOrder
  <2>2. req[r].order \in OrderRows => WithinBudget(req[r])
    BY <1>3 DEF GrantsInv, AsksWithinBudget
  <2>3. QED
    BY <1>3, <2>1, <2>2, BudgetGrows DEF WithinBudget
<1>4. QED
  BY <1>2, <1>3, PaymentLife

-----------------------------------------------------------------------------
LEMMA GrantsInvInit == GrantsInit => GrantsInv
<1> SUFFICES ASSUME GrantsInit PROVE GrantsInv
  OBVIOUS
<1>1. TypeOK
  BY BoundsAssumption DEF GrantsInit, Init, TypeOK
<1>2. \A r \in Requests : req[r] \in Request /\ req[r].stage = "idle" /\ ~HoldsLock(r)
  BY NoRequestType DEF GrantsInit, HoldsLock
<1>3. Unpaid = GrantIds
  BY DEF GrantsInit, Unpaid
<1>4. GrantsTypeOK
  BY <1>1, <1>2 DEF GrantsTypeOK, GrantsInit, Request
<1>5. QED
  BY <1>2, <1>3, <1>4
  DEF GrantsInv, NamesOrder, CarriesPayment, PaidForPlaced, GrantsOnRecord, LockedRowIsFresh,
      OneGrantPerOrder, CommittedGrantOnRecord, AsksWithinBudget, CardWithinBudget

LEMMA GrantsInvStep == GrantsInv /\ [GrantsNext]_grantAll => GrantsInv'
  BY GrantsTypeStep, NamesStep, CarriesStep, PlacedStep, FreshStep, OneStep, RecordStep,
     AsksStep, CardStep
  DEF GrantsInv, GrantsOnRecord

(* The invariant holds of every behaviour.                                  *)
THEOREM GrantsInvariant == GrantsSpec => []GrantsInv
  BY GrantsInvInit, GrantsInvStep, PTL DEF GrantsSpec, grantAll

(* Every request, payment and row keeps its type: what a grant commits, and *)
(* what it stamps after a failed commit, is an id of a provider.            *)
THEOREM GrantsTypeCorrect == GrantsSpec => []GrantsTypeOK
  BY GrantsInvariant, PTL DEF GrantsInv

(* A grant is paid under a lock on a row that carries none, at most once    *)
(* per order and provider among those not reported as troubled, and its     *)
(* order keeps an id: any number of clicks, batches, merges and crashes.    *)
THEOREM GrantsStayOnRecord == GrantsSpec => []GrantsOnRecord
  BY GrantsInvariant, PTL DEF GrantsInv

(* No card is worth more than the policy allows for what its order costs,   *)
(* also when the order was merged after its price was read.                 *)
THEOREM GrantsWithinBudget == GrantsSpec => []CardWithinBudget
  BY GrantsInvariant, PTL DEF GrantsInv

(* The grant transactions implement the shop: seen from the rows, each of   *)
(* their steps is a shop transaction, a stamp, or nothing.                  *)
THEOREM GrantsImplementShop == GrantsSpec => ImplementsShop
<1>1. GrantsInit => Init
  BY DEF GrantsInit
<1>2. GrantsInv /\ [GrantsNext]_grantAll => [Next]_vars
  BY GrantsStepIsShopStep
<1>3. QED
  BY <1>1, <1>2, GrantsInvariant, PTL DEF GrantsSpec, ImplementsShop, Spec, grantAll

(* So what was proved of the shop holds while grants run: pipes and units   *)
(* are conserved, an order is refunded once, and one that was granted is    *)
(* never refunded or merged away.                                           *)
THEOREM GrantsKeepTheBooks ==
    GrantsSpec => /\ [](PipesConserved /\ StockConserved /\ DebtIsClawback /\ RefundedOnce)
                  /\ GrantedRowsAreKept /\ SettledOrdersStay
<1>1. GrantsSpec => Spec
  BY GrantsImplementShop DEF ImplementsShop
<1>2. QED
  BY <1>1, Conservation, StockConservation, NoDebt, NoDoubleRefund, GrantsAreFinal, SettledIsFinal,
     PTL
=============================================================================
