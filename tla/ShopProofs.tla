----------------------------- MODULE ShopProofs -----------------------------
(* Theorems of Shop and of Suggestions, for every set of users, items and   *)
(* order ids, every price list, and every bound.                            *)
EXTENDS Shop, Suggestions, TotalsProofs

(* The columns a merge adds up are naturals, and so are their sums.         *)
LEMMA ColumnTotals ==
    ASSUME TypeOK, NEW S, S \subseteq OrderIds
    PROVE  /\ QuantityColumn \in [OrderIds -> Nat]
           /\ PipesColumn \in [OrderIds -> Nat]
           /\ IsFiniteSet(S)
           /\ Total(QuantityColumn, S) \in Nat
           /\ Total(PipesColumn, S) \in Nat
<1>1. QuantityColumn \in [OrderIds -> Nat] /\ PipesColumn \in [OrderIds -> Nat]
  BY DEF TypeOK, QuantityColumn, PipesColumn, OrderRows, Order
<1>2. IsFiniteSet(S)
  BY OrdersAssumption, FS_Subset
<1>3. QED
  BY <1>1, <1>2, TotalType

(* What standing orders hold and promise is a natural for every order.      *)
LEMMA HeldType ==
    ASSUME TypeOK
    PROVE  /\ \A u \in Users : HeldFrom(u) \in [OrderIds -> Nat]
           /\ \A i \in Items : PromisedOf(i) \in [OrderIds -> Nat]
           /\ \A u \in Users : Total(HeldFrom(u), OrderIds) \in Nat
           /\ \A i \in Items : Total(PromisedOf(i), OrderIds) \in Nat
<1>1. \A u \in Users : HeldFrom(u) \in [OrderIds -> Nat]
  BY DEF TypeOK, HeldFrom, Standing, OrderRows, Order
<1>2. \A i \in Items : PromisedOf(i) \in [OrderIds -> Nat]
  BY DEF TypeOK, PromisedOf, Standing, OrderRows, Order
<1>3. QED
  BY <1>1, <1>2, OrdersAssumption, TotalType

-----------------------------------------------------------------------------
(* Type correctness, action by action.                                      *)

(* A sale and a restock leave a well-formed item.                           *)
LEMMA ItemTypes ==
    ASSUME NEW item \in ShopItem, NEW q \in Nat
    PROVE  /\ (item.stock # Unlimited => item.stock >= q) => Sold(item, q) \in ShopItem
           /\ Restocked(item, q) \in ShopItem
  BY DEF ShopItem, Sold, Restocked

(* A price times a quantity is a natural number of pipes.                   *)
LEMMA CostType ==
    ASSUME NEW u \in Users, NEW i \in Items, NEW q \in Quantities
    PROVE  q \in Nat /\ PriceFor[u][i] * q \in Nat
<1>1. q \in Nat /\ PriceFor[u][i] \in Nat
  BY BoundsAssumption, PriceAssumption
<1>2. \A a, b \in Nat : a * b \in Nat
  OBVIOUS
<1>3. QED
  BY <1>1, <1>2

LEMMA PurchaseType ==
    ASSUME TypeOK, NEW u \in Users, NEW i \in Items, NEW q \in Quantities,
           NEW o \in OrderIds, Purchase(u, i, q, o)
    PROVE  TypeOK'
<1> DEFINE cost == PriceFor[u][i] * q
<1>1. q \in Nat /\ cost \in Nat
  BY CostType
<1> HIDE DEF cost
<1>2. catalog[i] \in ShopItem
  BY DEF TypeOK, Purchase, MayBuy, ItemRows
<1>3. Sold(catalog[i], q) \in ShopItem
  BY <1>1, <1>2, ItemTypes DEF Purchase, InStock
<1>4. pipes' = [pipes EXCEPT ![u] = @ - cost]
  BY DEF Purchase, PlaceOrder, cost
<1>5. pipes' \in [Users -> Int]
  BY <1>1, <1>4 DEF TypeOK
<1>6. catalog' \in [Items -> ShopItem \cup {Unused, Removed}]
  BY <1>3 DEF TypeOK, Purchase, PlaceOrder
<1>7. orders' = [orders EXCEPT ![o] =
                    [userId |-> u, shopItemId |-> i, quantity |-> q,
                     pipesSpent |-> cost, status |-> "pending",
                     grantId |-> [p \in Providers |-> None]]]
  BY DEF Purchase, PlaceOrder, cost
<1>8. [userId |-> u, shopItemId |-> i, quantity |-> q,
       pipesSpent |-> cost, status |-> "pending",
       grantId |-> [p \in Providers |-> None]] \in Order
  BY <1>1 DEF Order, Statuses
<1>9. orders' \in [OrderIds -> Order \cup {Unused, Removed}]
  BY <1>7, <1>8 DEF TypeOK
<1>10. QED
  BY <1>5, <1>6, <1>9 DEF TypeOK, Purchase, PlaceOrder, history

LEMMA FulfillType ==
    ASSUME TypeOK, NEW o \in OrderIds, FulfillOrder(o)
    PROVE  TypeOK'
<1>1. orders[o] \in Order
  BY DEF TypeOK, FulfillOrder, OrderRows
<1>2. [orders[o] EXCEPT !.status = "fulfilled"] \in Order
  BY <1>1 DEF Order, Statuses
<1>3. orders' \in [OrderIds -> Order \cup {Unused, Removed}]
  BY <1>2 DEF TypeOK, FulfillOrder, MarkFulfilled
<1>4. QED
  BY <1>3 DEF TypeOK, FulfillOrder, MarkFulfilled, history

LEMMA RefundType ==
    ASSUME TypeOK, NEW o \in OrderIds, RefundOrder(o)
    PROVE  TypeOK'
<1>1. /\ orders[o] \in Order
      /\ orders[o].userId \in Users /\ orders[o].pipesSpent \in Nat
      /\ orders[o].quantity \in Nat
  BY DEF TypeOK, RefundOrder, OrderRows, Order
<1>2. pipes' \in [Users -> Int]
  BY <1>1 DEF TypeOK, RefundOrder, ReturnPipes
<1>3. catalog' \in [Items -> ShopItem \cup {Unused, Removed}]
  <2>1. CASE orders[o].shopItemId \in ItemRows
    <3>1. Restocked(catalog[orders[o].shopItemId], orders[o].quantity) \in ShopItem
      BY <2>1, <1>1, ItemTypes DEF TypeOK, ItemRows
    <3>2. QED
      BY <2>1, <3>1 DEF TypeOK, RefundOrder, ReturnPipes, ItemRows
  <2>2. CASE orders[o].shopItemId \notin ItemRows
    BY <2>2 DEF TypeOK, RefundOrder, ReturnPipes
  <2>3. QED
    BY <2>1, <2>2
<1>4. [orders[o] EXCEPT !.status = "cancelled"] \in Order
  BY <1>1 DEF Order, Statuses
<1>5. orders' \in [OrderIds -> Order \cup {Unused, Removed}]
  BY <1>4 DEF TypeOK, RefundOrder, ReturnPipes
<1>6. refunds' \in [OrderIds -> Nat]
  BY DEF TypeOK, RefundOrder, ReturnPipes
<1>7. QED
  BY <1>2, <1>3, <1>5, <1>6 DEF TypeOK, RefundOrder, ReturnPipes

LEMMA MergeType ==
    ASSUME TypeOK, NEW t \in OrderIds, MergeOrders(t)
    PROVE  TypeOK' /\ Merged(t) \in Order
<1>1. orders[t] \in Order
  BY DEF TypeOK, MergeOrders, OrderRows
<1>2. Duplicates(t) \subseteq OrderIds
  BY DEF Duplicates, OtherPending, OrderRows
<1>3. Total(QuantityColumn, Duplicates(t)) \in Nat /\ Total(PipesColumn, Duplicates(t)) \in Nat
  BY <1>2, ColumnTotals
<1>4. ASSUME NEW order \in Order, NEW a \in Nat, NEW b \in Nat
      PROVE  [order EXCEPT !.quantity = @ + a, !.pipesSpent = @ + b] \in Order
  <2>1. order.quantity + a \in Nat /\ order.pipesSpent + b \in Nat
    BY DEF Order
  <2>2. ASSUME NEW c \in Nat, NEW d \in Nat
        PROVE  [order EXCEPT !.quantity = c, !.pipesSpent = d] \in Order
    BY DEF Order
  <2>3. QED
    BY <2>1, <2>2
<1>5. Merged(t) \in Order
  BY <1>1, <1>3, <1>4 DEF Merged
<1>6. orders' \in [OrderIds -> Order \cup {Unused, Removed}]
  BY <1>5 DEF TypeOK, MergeOrders
<1>7. QED
  BY <1>5, <1>6 DEF TypeOK, MergeOrders, history

LEMMA OutsideType ==
    ASSUME TypeOK, NEW u \in Users, NEW n \in Amounts,
           \/ Award(u, n) \/ Clawback(u, n)
           \/ \E delta \in {n, -n} : AdjustPipes(u, delta)
    PROVE  TypeOK'
<1>1. n \in Nat
  BY BoundsAssumption
<1>2. CASE Award(u, n)
  BY <1>1, <1>2 DEF TypeOK, Award, Outside
<1>3. CASE Clawback(u, n)
  BY <1>1, <1>3 DEF TypeOK, Clawback, Outside
<1>4. ASSUME NEW delta \in {n, -n}, AdjustPipes(u, delta) PROVE TypeOK'
  BY <1>1, <1>4 DEF TypeOK, AdjustPipes, AddPipes, Outside
<1>5. QED
  BY <1>2, <1>3, <1>4

LEMMA SaveShopItemType ==
    ASSUME TypeOK, NEW i \in Items, NEW stock \in StockLevels \cup CurrentStock(i),
           NEW isActive \in BOOLEAN, SaveShopItem(i, stock, isActive)
    PROVE  TypeOK'
<1>1. stock \in Nat \cup {Unlimited}
  BY BoundsAssumption DEF TypeOK, CurrentStock, ItemRows, ShopItem
<1>2. [stock |-> stock, isActive |-> isActive] \in ShopItem
  BY <1>1 DEF ShopItem
<1>3. catalog' \in [Items -> ShopItem \cup {Unused, Removed}]
  BY <1>2 DEF TypeOK, SaveShopItem
<1>4. Total(PromisedOf(i), OrderIds) \in Nat
  BY HeldType
<1>5. supply' \in [Items -> Nat]
  BY <1>1, <1>4 DEF TypeOK, SaveShopItem
<1>6. QED
  BY <1>3, <1>5 DEF TypeOK, SaveShopItem, Outside

LEMMA DeleteShopItemType ==
    ASSUME TypeOK, NEW i \in Items, DeleteShopItem(i)
    PROVE  TypeOK'
<1>1. ASSUME NEW o \in OrderIds
      PROVE  orders'[o] \in Order \cup {Unused, Removed}
  <2>1. CASE o \in OrderRows /\ orders[o].shopItemId = i
    <3>1. orders[o] \in Order
      BY <2>1 DEF TypeOK, OrderRows
    <3>2. [orders[o] EXCEPT !.shopItemId = None] \in Order
      BY <3>1 DEF Order
    <3>3. QED
      BY <2>1, <3>2 DEF DeleteShopItem
  <2>2. CASE ~(o \in OrderRows /\ orders[o].shopItemId = i)
    BY <2>2 DEF TypeOK, DeleteShopItem
  <2>3. QED
    BY <2>1, <2>2
<1>2. orders' \in [OrderIds -> Order \cup {Unused, Removed}]
  BY <1>1 DEF DeleteShopItem
<1>3. QED
  BY <1>2 DEF TypeOK, DeleteShopItem, Outside

LEMMA GrantType ==
    ASSUME TypeOK, NEW o \in OrderIds, NEW p \in Providers, NEW g \in GrantIds,
           CommitGrant(o, p, g) \/ StampGrant(o, p, g)
    PROVE  TypeOK'
<1>1. orders[o] \in Order
  BY DEF TypeOK, CommitGrant, StampGrant, OrderRows
<1>2. [orders[o] EXCEPT !.grantId[p] = g] \in Order
  BY <1>1 DEF Order
<1>3. orders' \in [OrderIds -> Order \cup {Unused, Removed}]
  BY <1>2 DEF TypeOK, CommitGrant, StampGrant
<1>4. QED
  BY <1>3 DEF TypeOK, CommitGrant, StampGrant, history

LEMMA NextType == TypeOK /\ [Next]_vars => TypeOK'
<1> SUFFICES ASSUME TypeOK, [Next]_vars PROVE TypeOK'
  OBVIOUS
<1>1. CASE UNCHANGED vars
  BY <1>1 DEF TypeOK, vars, rows, history
<1>2. CASE ShopStep
  BY <1>2, OutsideType, SaveShopItemType, DeleteShopItemType, PurchaseType,
     FulfillType, RefundType, MergeType DEF ShopStep, RefundOwnOrder
<1>3. CASE GrantStep
  BY <1>3, GrantType DEF GrantStep
<1>4. QED
  BY <1>1, <1>2, <1>3 DEF Next

(* Every column keeps its type, and no stock goes below zero: the checks a  *)
(* purchase makes on the locked item row are enough.                        *)
THEOREM TypeCorrect == Spec => []TypeOK
<1>1. Init => TypeOK
  BY DEF Init, TypeOK
<1>2. QED
  BY <1>1, NextType, PTL DEF Spec

-----------------------------------------------------------------------------
(* Conservation of pipes.                                                   *)

(* HeldType in the next state.                                              *)
LEMMA HeldTypeNext ==
    ASSUME TypeOK'
    PROVE  /\ \A u \in Users : HeldFrom(u)' \in [OrderIds -> Nat]
           /\ \A i \in Items : PromisedOf(i)' \in [OrderIds -> Nat]
  BY DEF TypeOK, HeldFrom, PromisedOf, Standing, OrderRows, Order

(* An order row is one thing, a missing one another.                        *)
LEMMA RowOrNot ==
    ASSUME TypeOK, NEW o \in OrderIds
    PROVE  /\ o \in OrderRows <=> orders[o] \in Order
           /\ o \notin OrderRows <=> orders[o] \in {Unused, Removed}
  BY NullAssumption DEF TypeOK, OrderRows

LEMMA PurchaseHolds ==
    ASSUME TypeOK, PipesConserved, NEW u \in Users, NEW i \in Items,
           NEW q \in Quantities, NEW o \in OrderIds, Purchase(u, i, q, o)
    PROVE  PipesConserved'
<1> DEFINE cost == PriceFor[u][i] * q
           new  == [userId |-> u, shopItemId |-> i, quantity |-> q,
                    pipesSpent |-> cost, status |-> "pending",
                    grantId |-> [p \in Providers |-> None]]
<1>1. TypeOK'
  BY PurchaseType
<1>2. cost \in Nat /\ new \in Order
  BY CostType DEF Order, Statuses
<1>3. /\ orders' = [orders EXCEPT ![o] = new] /\ orders[o] = Unused
      /\ pipes' = [pipes EXCEPT ![u] = @ - cost] /\ credit' = credit
  BY DEF Purchase, PlaceOrder, history
<1>4. new \notin {Unused, Removed}
  BY <1>2, NullAssumption
<1>5. new.userId = u /\ new.pipesSpent = cost /\ new.status = "pending"
  OBVIOUS
<1> HIDE DEF cost, new
<1> SUFFICES ASSUME NEW w \in Users
             PROVE  pipes'[w] + Total(HeldFrom(w)', OrderIds) = credit'[w]
  BY DEF PipesConserved
<1>6. HeldFrom(w) \in [OrderIds -> Nat] /\ HeldFrom(w)' \in [OrderIds -> Nat]
  BY <1>1, HeldType, HeldTypeNext
<1>7. \A y \in OrderIds \ {o} : HeldFrom(w)'[y] = HeldFrom(w)[y]
  BY <1>3 DEF TypeOK, HeldFrom, Standing, OrderRows
<1>8. HeldFrom(w)[o] = 0
  BY <1>3 DEF HeldFrom, Standing, OrderRows
<1>9. HeldFrom(w)'[o] = IF w = u THEN cost ELSE 0
  BY <1>3, <1>4, <1>5 DEF TypeOK, HeldFrom, Standing, OrderRows
<1>10. Total(HeldFrom(w)', OrderIds) =
         Total(HeldFrom(w), OrderIds) - HeldFrom(w)[o] + HeldFrom(w)'[o]
  BY <1>6, <1>7, OrdersAssumption, TotalUpdate
<1>11. pipes'[w] = IF w = u THEN pipes[w] - cost ELSE pipes[w]
  BY <1>3 DEF TypeOK
<1>12. /\ pipes[w] + Total(HeldFrom(w), OrderIds) = credit[w]
       /\ pipes[w] \in Int /\ Total(HeldFrom(w), OrderIds) \in Nat
  BY HeldType DEF PipesConserved, TypeOK
<1>13. QED
  BY <1>2, <1>3, <1>8, <1>9, <1>10, <1>11, <1>12

LEMMA RefundHolds ==
    ASSUME TypeOK, PipesConserved, NEW o \in OrderIds, RefundOrder(o)
    PROVE  PipesConserved'
<1> DEFINE buyer == orders[o].userId
           spent == orders[o].pipesSpent
<1>1. TypeOK'
  BY RefundType
<1>2. /\ orders' = [orders EXCEPT ![o].status = "cancelled"]
      /\ pipes' = [pipes EXCEPT ![buyer] = @ + spent]
      /\ credit' = credit /\ o \in OrderRows /\ orders[o].status # "cancelled"
  BY DEF RefundOrder, ReturnPipes
<1>3. orders[o] \in Order /\ buyer \in Users /\ spent \in Nat
      /\ orders'[o].status = "cancelled"
  BY <1>2, RowOrNot DEF Order, TypeOK
<1> SUFFICES ASSUME NEW w \in Users
             PROVE  pipes'[w] + Total(HeldFrom(w)', OrderIds) = credit'[w]
  BY DEF PipesConserved
<1>4. HeldFrom(w) \in [OrderIds -> Nat] /\ HeldFrom(w)' \in [OrderIds -> Nat]
  BY <1>1, HeldType, HeldTypeNext
<1>5. \A y \in OrderIds \ {o} : HeldFrom(w)'[y] = HeldFrom(w)[y]
  BY <1>2 DEF TypeOK, HeldFrom, Standing, OrderRows
<1>6. HeldFrom(w)[o] = IF w = buyer THEN spent ELSE 0
  BY <1>2 DEF HeldFrom, Standing, OrderRows
<1>7. HeldFrom(w)'[o] = 0
  BY <1>3 DEF HeldFrom, Standing
<1>8. Total(HeldFrom(w)', OrderIds) =
         Total(HeldFrom(w), OrderIds) - HeldFrom(w)[o] + HeldFrom(w)'[o]
  BY <1>4, <1>5, OrdersAssumption, TotalUpdate
<1>9. pipes'[w] = IF w = buyer THEN pipes[w] + spent ELSE pipes[w]
  BY <1>2, <1>3 DEF TypeOK
<1>10. /\ pipes[w] + Total(HeldFrom(w), OrderIds) = credit[w]
       /\ pipes[w] \in Int /\ Total(HeldFrom(w), OrderIds) \in Nat
  BY HeldType DEF PipesConserved, TypeOK
<1>11. QED
  BY <1>2, <1>3, <1>6, <1>7, <1>8, <1>9, <1>10

(* Merging rows moves what the duplicates hold, and what they promise, onto *)
(* the target, which stands for the same buyer and the same item.           *)
LEMMA MergeMoves ==
    ASSUME TypeOK, NEW t \in OrderIds, MergeOrders(t)
    PROVE  /\ \A w \in Users : Total(HeldFrom(w)', OrderIds) = Total(HeldFrom(w), OrderIds)
           /\ \A i \in Items : Total(PromisedOf(i)', OrderIds) = Total(PromisedOf(i), OrderIds)
<1> DEFINE S == Duplicates(t)
           addQ == Total(QuantityColumn, S)
           addP == Total(PipesColumn, S)
<1>1. TypeOK' /\ Merged(t) \in Order
  BY MergeType
<1>2. S \subseteq OrderIds /\ t \notin S /\ S \subseteq OrderRows
  BY DEF Duplicates, OtherPending, OrderRows
<1>3. IsFiniteSet(S) /\ addQ \in Nat /\ addP \in Nat
  BY <1>2, ColumnTotals
<1>4. t \in OrderRows /\ orders[t].status = "pending" /\ orders[t] \in Order
  BY RowOrNot DEF MergeOrders
<1>5. /\ Merged(t).userId = orders[t].userId /\ Merged(t).shopItemId = orders[t].shopItemId
      /\ Merged(t).status = orders[t].status
      /\ Merged(t).quantity = orders[t].quantity + addQ
      /\ Merged(t).pipesSpent = orders[t].pipesSpent + addP
  BY <1>4 DEF Merged, Order
<1>6. /\ orders'[t] = Merged(t)
      /\ \A y \in S : orders'[y] = Removed
      /\ \A y \in OrderIds \ (S \cup {t}) : orders'[y] = orders[y]
  BY <1>2 DEF MergeOrders
<1>7. Standing(t) /\ Standing(t)' /\ \A y \in S : Standing(y) /\ ~Standing(y)'
  <2>1. Merged(t) \notin {Unused, Removed}
    BY <1>1, NullAssumption
  <2>2. \A y \in S : orders[y].status = "pending"
    BY DEF Duplicates, OtherPending
  <2>3. QED
    BY <2>1, <2>2, <1>2, <1>4, <1>5, <1>6 DEF Standing, OrderRows
<1>8. \A y \in OrderIds \ (S \cup {t}) : Standing(y)' <=> Standing(y)
  BY <1>6 DEF Standing, OrderRows
<1>9. \A y \in S : /\ orders[y].userId = orders[t].userId
                    /\ orders[y].shopItemId = orders[t].shopItemId
  BY DEF Duplicates
<1>10. \A y \in S : /\ QuantityColumn[y] = orders[y].quantity
                     /\ PipesColumn[y] = orders[y].pipesSpent
  BY <1>2 DEF QuantityColumn, PipesColumn
<1> HIDE DEF S
<1>11. ASSUME NEW w \in Users
       PROVE  Total(HeldFrom(w)', OrderIds) = Total(HeldFrom(w), OrderIds)
  <2>1. HeldFrom(w) \in [OrderIds -> Nat] /\ HeldFrom(w)' \in [OrderIds -> Nat]
    BY <1>1, HeldType, HeldTypeNext
  <2>2. \A y \in OrderIds \ (S \cup {t}) : HeldFrom(w)'[y] = HeldFrom(w)[y]
    BY <1>6, <1>8 DEF HeldFrom
  <2>3. \A y \in S : HeldFrom(w)'[y] = 0
    BY <1>2, <1>7 DEF HeldFrom
  <2>4. CASE w = orders[t].userId
    <3>1. \A y \in S : HeldFrom(w)[y] = PipesColumn[y]
      BY <2>4, <1>2, <1>7, <1>9, <1>10 DEF HeldFrom
    <3>2. Total(HeldFrom(w), S) = addP
      BY <3>1, TotalCongruence
    <3>3. HeldFrom(w)'[t] = HeldFrom(w)[t] + addP
      BY <2>4, <1>5, <1>6, <1>7 DEF HeldFrom
    <3>4. QED
      BY <2>1, <2>2, <2>3, <3>2, <3>3, <1>2, <1>3, OrdersAssumption, TotalMove
  <2>5. CASE w # orders[t].userId
    <3>1. \A y \in S \cup {t} : HeldFrom(w)'[y] = 0 /\ HeldFrom(w)[y] = 0
      BY <2>5, <1>2, <1>5, <1>6, <1>7, <1>9 DEF HeldFrom
    <3>2. \A y \in OrderIds : HeldFrom(w)'[y] = HeldFrom(w)[y]
      BY <2>2, <3>1
    <3>3. QED
      BY <3>2, TotalCongruence
  <2>6. QED
    BY <2>4, <2>5
<1>12. ASSUME NEW i \in Items
       PROVE  Total(PromisedOf(i)', OrderIds) = Total(PromisedOf(i), OrderIds)
  <2>1. PromisedOf(i) \in [OrderIds -> Nat] /\ PromisedOf(i)' \in [OrderIds -> Nat]
    BY <1>1, HeldType, HeldTypeNext
  <2>2. \A y \in OrderIds \ (S \cup {t}) : PromisedOf(i)'[y] = PromisedOf(i)[y]
    BY <1>6, <1>8 DEF PromisedOf
  <2>3. \A y \in S : PromisedOf(i)'[y] = 0
    BY <1>2, <1>7 DEF PromisedOf
  <2>4. CASE i = orders[t].shopItemId
    <3>1. \A y \in S : PromisedOf(i)[y] = QuantityColumn[y]
      BY <2>4, <1>2, <1>7, <1>9, <1>10 DEF PromisedOf
    <3>2. Total(PromisedOf(i), S) = addQ
      BY <3>1, TotalCongruence
    <3>3. PromisedOf(i)'[t] = PromisedOf(i)[t] + addQ
      BY <2>4, <1>5, <1>6, <1>7 DEF PromisedOf
    <3>4. QED
      BY <2>1, <2>2, <2>3, <3>2, <3>3, <1>2, <1>3, OrdersAssumption, TotalMove
  <2>5. CASE i # orders[t].shopItemId
    <3>1. \A y \in S \cup {t} : PromisedOf(i)'[y] = 0 /\ PromisedOf(i)[y] = 0
      BY <2>5, <1>2, <1>5, <1>6, <1>7, <1>9 DEF PromisedOf
    <3>2. \A y \in OrderIds : PromisedOf(i)'[y] = PromisedOf(i)[y]
      BY <2>2, <3>1
    <3>3. QED
      BY <3>2, TotalCongruence
  <2>6. QED
    BY <2>4, <2>5
<1>13. QED
  BY <1>11, <1>12

(* A step that leaves standing orders, their buyers and their prices alone  *)
(* leaves what every user has tied up alone.                                *)
LEMMA HeldUnchanged ==
    ASSUME \A y \in OrderIds : Standing(y)' <=> Standing(y),
           \A y \in OrderIds : Standing(y) =>
                /\ orders'[y].userId = orders[y].userId
                /\ orders'[y].pipesSpent = orders[y].pipesSpent
    PROVE  \A u \in Users : HeldFrom(u)' = HeldFrom(u)
  BY DEF HeldFrom

(* Fulfilling, granting and deleting an item change no standing order's     *)
(* buyer or price; the first two change neither its item nor its quantity.  *)
LEMMA RowEdits ==
    ASSUME TypeOK,
           \/ \E o \in OrderIds : FulfillOrder(o)
           \/ GrantStep
           \/ \E i \in Items : DeleteShopItem(i)
    PROVE  /\ \A y \in OrderIds : Standing(y)' <=> Standing(y)
           /\ \A y \in OrderIds : Standing(y) =>
                /\ orders'[y].userId = orders[y].userId
                /\ orders'[y].pipesSpent = orders[y].pipesSpent
                /\ orders'[y].quantity = orders[y].quantity
<1> SUFFICES ASSUME NEW y \in OrderIds
             PROVE  /\ Standing(y)' <=> Standing(y)
                    /\ Standing(y) =>
                        /\ orders'[y].userId = orders[y].userId
                        /\ orders'[y].pipesSpent = orders[y].pipesSpent
                        /\ orders'[y].quantity = orders[y].quantity
  OBVIOUS
<1>1. ASSUME NEW row \in Order, NEW p \in Providers, NEW g
      PROVE  /\ [row EXCEPT !.grantId[p] = g].userId = row.userId
             /\ [row EXCEPT !.grantId[p] = g].pipesSpent = row.pipesSpent
             /\ [row EXCEPT !.grantId[p] = g].quantity = row.quantity
             /\ [row EXCEPT !.grantId[p] = g].shopItemId = row.shopItemId
             /\ [row EXCEPT !.grantId[p] = g].status = row.status
  BY DEF Order
<1>2. CASE \E o \in OrderIds : FulfillOrder(o)
  <2>1. PICK o \in OrderIds : FulfillOrder(o)
    BY <1>2
  <2>2. orders[o] \in Order /\ o \in OrderRows /\ orders[o].status = "pending"
    BY <2>1, RowOrNot DEF FulfillOrder
  <2>3. TypeOK'
    BY <2>1, FulfillType
  <2>4. [orders[o] EXCEPT !.status = "fulfilled"] \in Order
    BY <2>2 DEF Order, Statuses
  <2>5. orders' = [orders EXCEPT ![o].status = "fulfilled"]
    BY <2>1 DEF FulfillOrder, MarkFulfilled
  <2>6. [orders[o] EXCEPT !.status = "fulfilled"] \notin {Unused, Removed}
    BY <2>4, NullAssumption
  <2>7. CASE y = o
    BY <2>2, <2>5, <2>6, <2>7 DEF TypeOK, Standing, OrderRows, Order
  <2>8. CASE y # o
    BY <2>5, <2>8 DEF TypeOK, Standing, OrderRows
  <2>9. QED
    BY <2>7, <2>8
<1>3. CASE GrantStep
  <2>1. PICK o \in OrderIds, p \in Providers, g \in GrantIds :
            CommitGrant(o, p, g) \/ StampGrant(o, p, g)
    BY <1>3 DEF GrantStep
  <2>2. orders' = [orders EXCEPT ![o].grantId[p] = g] /\ o \in OrderRows
    BY <2>1 DEF CommitGrant, StampGrant
  <2>3. orders[o] \in Order
    BY <2>2, RowOrNot
  <2>4. [orders[o] EXCEPT !.grantId[p] = g] \in Order
    BY <2>3 DEF Order
  <2>5. [orders[o] EXCEPT !.grantId[p] = g] \notin {Unused, Removed}
    BY <2>4, NullAssumption
  <2>6. CASE y = o
    BY <2>2, <2>3, <2>5, <2>6, <1>1 DEF TypeOK, Standing, OrderRows
  <2>7. CASE y # o
    BY <2>2, <2>7 DEF TypeOK, Standing, OrderRows
  <2>8. QED
    BY <2>6, <2>7
<1>4. CASE \E i \in Items : DeleteShopItem(i)
  <2>1. PICK i \in Items : DeleteShopItem(i)
    BY <1>4
  <2>2. CASE y \in OrderRows /\ orders[y].shopItemId = i
    <3>1. orders[y] \in Order
      BY <2>2, RowOrNot
    <3>2. [orders[y] EXCEPT !.shopItemId = None] \in Order
      BY <3>1 DEF Order
    <3>3. orders'[y] = [orders[y] EXCEPT !.shopItemId = None]
      BY <2>1, <2>2 DEF DeleteShopItem
    <3>4. orders'[y] \notin {Unused, Removed}
      BY <3>2, <3>3, NullAssumption
    <3>5. QED
      BY <2>2, <3>1, <3>3, <3>4 DEF Standing, OrderRows, Order
  <2>3. CASE ~(y \in OrderRows /\ orders[y].shopItemId = i)
    BY <2>1, <2>3 DEF DeleteShopItem, Standing, OrderRows
  <2>4. QED
    BY <2>2, <2>3
<1>5. QED
  BY <1>2, <1>3, <1>4

LEMMA PipesStep == TypeOK /\ PipesConserved /\ [Next]_vars => PipesConserved'
<1> SUFFICES ASSUME TypeOK, PipesConserved, [Next]_vars PROVE PipesConserved'
  OBVIOUS
<1>1. ASSUME orders' = orders
      PROVE  \A w \in Users : Total(HeldFrom(w)', OrderIds) = Total(HeldFrom(w), OrderIds)
  BY <1>1 DEF HeldFrom, Standing, OrderRows
<1>2. CASE UNCHANGED vars
  BY <1>1, <1>2 DEF PipesConserved, vars, rows, history
<1>3. ASSUME NEW u \in Users, NEW n \in Amounts,
             \/ Award(u, n) \/ Clawback(u, n)
             \/ \E delta \in {n, -n} : AdjustPipes(u, delta)
      PROVE  PipesConserved'
  <2>1. /\ orders' = orders
        /\ \E d \in Int : /\ pipes' = [pipes EXCEPT ![u] = @ + d]
                          /\ credit' = [credit EXCEPT ![u] = @ + d]
    <3>1. n \in Int /\ -n \in Int
      BY BoundsAssumption
    <3>2. CASE Award(u, n)
      BY <3>1, <3>2 DEF Award
    <3>3. CASE Clawback(u, n)
      <4>1. pipes[u] - n = pipes[u] + (-n) /\ credit[u] - n = credit[u] + (-n)
        BY <3>1 DEF TypeOK
      <4>2. QED
        BY <3>1, <3>3, <4>1 DEF Clawback
    <3>4. ASSUME NEW delta \in {n, -n}, AdjustPipes(u, delta)
          PROVE  <2>1!1 /\ <2>1!2
      BY <3>1, <3>4 DEF AdjustPipes, AddPipes
    <3>5. QED
      BY <1>3, <3>2, <3>3, <3>4
  <2>2. PICK d \in Int : /\ pipes' = [pipes EXCEPT ![u] = @ + d]
                         /\ credit' = [credit EXCEPT ![u] = @ + d]
    BY <2>1
  <2>3. \A w \in Users : Total(HeldFrom(w)', OrderIds) = Total(HeldFrom(w), OrderIds)
    BY <1>1, <2>1
  <2>4. \A w \in Users : Total(HeldFrom(w), OrderIds) \in Nat
    BY HeldType
  <2>5. QED
    BY <2>2, <2>3, <2>4 DEF PipesConserved, TypeOK
<1>4. ASSUME NEW i \in Items, NEW stock, NEW isActive, SaveShopItem(i, stock, isActive)
      PROVE  PipesConserved'
  BY <1>1, <1>4 DEF PipesConserved, SaveShopItem
<1>5. ASSUME \/ \E o \in OrderIds : FulfillOrder(o)
             \/ GrantStep
             \/ \E i \in Items : DeleteShopItem(i)
      PROVE  PipesConserved'
  <2>1. \A w \in Users : HeldFrom(w)' = HeldFrom(w)
    BY <1>5, RowEdits, HeldUnchanged
  <2>2. pipes' = pipes /\ credit' = credit
    BY <1>5 DEF FulfillOrder, MarkFulfilled, GrantStep, CommitGrant, StampGrant,
                DeleteShopItem, history
  <2>3. QED
    BY <2>1, <2>2 DEF PipesConserved
<1>6. ASSUME NEW t \in OrderIds, MergeOrders(t) PROVE PipesConserved'
  BY <1>6, MergeMoves DEF PipesConserved, MergeOrders, history
<1>7. QED
  BY <1>2, <1>3, <1>4, <1>5, <1>6, PurchaseHolds, RefundHolds
     DEF Next, ShopStep, RefundOwnOrder

(* Every pipe is accounted for: whatever buyers and staff do, a wallet plus *)
(* the pipes in the user's standing orders is what the program credited.    *)
THEOREM Conservation == Spec => []PipesConserved
<1>1. Init => PipesConserved
  <2> SUFFICES ASSUME Init, NEW w \in Users
               PROVE  pipes[w] + Total(HeldFrom(w), OrderIds) = credit[w]
    BY DEF PipesConserved
  <2>1. Total(HeldFrom(w), OrderIds) = 0
    <3>1. \A o \in OrderIds : HeldFrom(w)[o] = 0
      BY DEF Init, HeldFrom, Standing, OrderRows
    <3>2. QED
      BY <3>1, TotalZero
  <2>2. QED
    BY <2>1 DEF Init
<1>2. QED
  BY <1>1, TypeCorrect, PipesStep, PTL DEF Spec

-----------------------------------------------------------------------------
(* Conservation of stock.                                                   *)

LEMMA PurchaseStocks ==
    ASSUME TypeOK, StockConserved, NEW u \in Users, NEW i \in Items,
           NEW q \in Quantities, NEW o \in OrderIds, Purchase(u, i, q, o)
    PROVE  StockConserved'
<1> DEFINE cost == PriceFor[u][i] * q
           new  == [userId |-> u, shopItemId |-> i, quantity |-> q,
                    pipesSpent |-> cost, status |-> "pending",
                    grantId |-> [p \in Providers |-> None]]
<1>1. TypeOK'
  BY PurchaseType
<1>2. q \in Nat /\ cost \in Nat /\ new \in Order
  BY CostType DEF Order, Statuses
<1>3. /\ orders' = [orders EXCEPT ![o] = new] /\ orders[o] = Unused
      /\ catalog' = [catalog EXCEPT ![i] = Sold(@, q)] /\ supply' = supply
      /\ i \in ItemRows
  BY DEF Purchase, PlaceOrder, MayBuy, history
<1>4. new \notin {Unused, Removed}
  BY <1>2, NullAssumption
<1>5. new.shopItemId = i /\ new.quantity = q /\ new.status = "pending"
  OBVIOUS
<1> HIDE DEF cost, new
<1>6. catalog[i] \in ShopItem
  BY <1>3 DEF TypeOK, ItemRows
<1> SUFFICES ASSUME NEW j \in Items, j \in ItemRows', catalog'[j].stock # Unlimited
             PROVE  catalog'[j].stock + Total(PromisedOf(j)', OrderIds) = supply'[j]
  BY DEF StockConserved, ItemRows
<1>7. PromisedOf(j) \in [OrderIds -> Nat] /\ PromisedOf(j)' \in [OrderIds -> Nat]
  BY <1>1, HeldType, HeldTypeNext
<1>8. \A y \in OrderIds \ {o} : PromisedOf(j)'[y] = PromisedOf(j)[y]
  BY <1>3 DEF TypeOK, PromisedOf, Standing, OrderRows
<1>9. PromisedOf(j)[o] = 0
  BY <1>3 DEF PromisedOf, Standing, OrderRows
<1>10. PromisedOf(j)'[o] = IF j = i THEN q ELSE 0
  BY <1>3, <1>4, <1>5 DEF TypeOK, PromisedOf, Standing, OrderRows
<1>11. Total(PromisedOf(j)', OrderIds) =
         Total(PromisedOf(j), OrderIds) - PromisedOf(j)[o] + PromisedOf(j)'[o]
  BY <1>7, <1>8, OrdersAssumption, TotalUpdate
<1>12. Total(PromisedOf(j), OrderIds) \in Nat
  BY HeldType
<1>13. CASE j = i
  <2>1. catalog'[i] = Sold(catalog[i], q)
    BY <1>3 DEF TypeOK
  <2>2. catalog[i].stock # Unlimited
    BY <1>13, <2>1 DEF Sold
  <2>3. catalog'[i].stock = catalog[i].stock - q
    BY <2>1, <2>2 DEF Sold
  <2>4. catalog[i].stock \in Nat
    BY <1>6, <2>2 DEF ShopItem
  <2>5. catalog[i].stock + Total(PromisedOf(i), OrderIds) = supply[i]
    BY <1>3, <2>2 DEF StockConserved
  <2>6. QED
    BY <1>2, <1>3, <1>9, <1>10, <1>11, <1>12, <1>13, <2>3, <2>4, <2>5
<1>14. CASE j # i
  <2>1. catalog'[j] = catalog[j] /\ j \in ItemRows
    BY <1>3, <1>14 DEF TypeOK, ItemRows
  <2>2. catalog[j].stock + Total(PromisedOf(j), OrderIds) = supply[j]
    BY <2>1 DEF StockConserved
  <2>3. QED
    BY <1>3, <1>9, <1>10, <1>11, <1>12, <1>14, <2>1, <2>2
<1>15. QED
  BY <1>13, <1>14

LEMMA RefundStocks ==
    ASSUME TypeOK, StockConserved, NEW o \in OrderIds, RefundOrder(o)
    PROVE  StockConserved'
<1> DEFINE item == orders[o].shopItemId
           units == orders[o].quantity
<1>1. TypeOK'
  BY RefundType
<1>2. /\ orders' = [orders EXCEPT ![o].status = "cancelled"]
      /\ catalog' = IF item \in ItemRows
                    THEN [catalog EXCEPT ![item] = Restocked(@, units)] ELSE catalog
      /\ supply' = supply /\ o \in OrderRows /\ orders[o].status # "cancelled"
  BY DEF RefundOrder, ReturnPipes
<1>3. orders[o] \in Order /\ units \in Nat /\ orders'[o].status = "cancelled"
  BY <1>2, RowOrNot DEF Order, TypeOK
<1> SUFFICES ASSUME NEW j \in Items, j \in ItemRows', catalog'[j].stock # Unlimited
             PROVE  catalog'[j].stock + Total(PromisedOf(j)', OrderIds) = supply'[j]
  BY DEF StockConserved, ItemRows
<1>4. PromisedOf(j) \in [OrderIds -> Nat] /\ PromisedOf(j)' \in [OrderIds -> Nat]
  BY <1>1, HeldType, HeldTypeNext
<1>5. \A y \in OrderIds \ {o} : PromisedOf(j)'[y] = PromisedOf(j)[y]
  BY <1>2 DEF TypeOK, PromisedOf, Standing, OrderRows
<1>6. PromisedOf(j)[o] = IF j = item THEN units ELSE 0
  BY <1>2 DEF PromisedOf, Standing, OrderRows
<1>7. PromisedOf(j)'[o] = 0
  BY <1>3 DEF PromisedOf, Standing
<1>8. Total(PromisedOf(j)', OrderIds) =
         Total(PromisedOf(j), OrderIds) - PromisedOf(j)[o] + PromisedOf(j)'[o]
  BY <1>4, <1>5, OrdersAssumption, TotalUpdate
<1>9. Total(PromisedOf(j), OrderIds) \in Nat
  BY HeldType
<1>10. CASE j = item
  <2>1. j \in ItemRows
    BY <1>2, <1>10 DEF ItemRows
  <2>2. catalog'[j] = Restocked(catalog[j], units) /\ catalog[j] \in ShopItem
    BY <1>2, <1>10, <2>1 DEF TypeOK, ItemRows
  <2>3. catalog[j].stock # Unlimited
    BY <2>2 DEF Restocked
  <2>4. catalog'[j].stock = catalog[j].stock + units /\ catalog[j].stock \in Nat
    BY <2>2, <2>3 DEF Restocked, ShopItem
  <2>5. catalog[j].stock + Total(PromisedOf(j), OrderIds) = supply[j]
    BY <2>1, <2>3 DEF StockConserved
  <2>6. QED
    BY <1>2, <1>3, <1>6, <1>7, <1>8, <1>9, <1>10, <2>4, <2>5
<1>11. CASE j # item
  <2>1. catalog'[j] = catalog[j] /\ j \in ItemRows
    BY <1>2, <1>11 DEF TypeOK, ItemRows
  <2>2. catalog[j].stock + Total(PromisedOf(j), OrderIds) = supply[j]
    BY <2>1 DEF StockConserved
  <2>3. QED
    BY <1>2, <1>6, <1>7, <1>8, <1>9, <1>11, <2>1, <2>2
<1>12. QED
  BY <1>10, <1>11

LEMMA EditStocks ==
    ASSUME TypeOK, StockConserved, NEW i \in Items,
           \/ DeleteShopItem(i)
           \/ \E stock \in StockLevels \cup CurrentStock(i), isActive \in BOOLEAN :
                SaveShopItem(i, stock, isActive)
    PROVE  StockConserved'
<1> SUFFICES ASSUME NEW j \in Items, j \in ItemRows', catalog'[j].stock # Unlimited
             PROVE  catalog'[j].stock + Total(PromisedOf(j)', OrderIds) = supply'[j]
  BY DEF StockConserved, ItemRows
<1>1. CASE DeleteShopItem(i)
  <2>1. j # i /\ catalog'[j] = catalog[j] /\ supply'[j] = supply[j] /\ j \in ItemRows
    BY <1>1 DEF DeleteShopItem, ItemRows, TypeOK
  <2>2. \A y \in OrderIds : PromisedOf(j)'[y] = PromisedOf(j)[y]
    <3> SUFFICES ASSUME NEW y \in OrderIds PROVE PromisedOf(j)'[y] = PromisedOf(j)[y]
      OBVIOUS
    <3>1. CASE y \in OrderRows /\ orders[y].shopItemId = i
      <4>1. orders[y] \in Order
        BY <3>1, RowOrNot
      <4>2. orders'[y] = [orders[y] EXCEPT !.shopItemId = None]
        BY <1>1, <3>1 DEF DeleteShopItem
      <4>3. orders'[y].shopItemId = None
        BY <4>1, <4>2 DEF Order
      <4>4. QED
        BY <2>1, <3>1, <4>3, NullAssumption DEF PromisedOf
    <3>2. CASE ~(y \in OrderRows /\ orders[y].shopItemId = i)
      BY <1>1, <3>2 DEF DeleteShopItem, PromisedOf, Standing, OrderRows
    <3>3. QED
      BY <3>1, <3>2
  <2>3. Total(PromisedOf(j)', OrderIds) = Total(PromisedOf(j), OrderIds)
    BY <2>2, TotalCongruence
  <2>4. QED
    BY <2>1, <2>3 DEF StockConserved
<1>2. ASSUME NEW stock \in StockLevels \cup CurrentStock(i), NEW isActive \in BOOLEAN,
             SaveShopItem(i, stock, isActive)
      PROVE  catalog'[j].stock + Total(PromisedOf(j)', OrderIds) = supply'[j]
  <2>1. PromisedOf(j)' = PromisedOf(j)
    BY <1>2 DEF SaveShopItem, PromisedOf, Standing, OrderRows
  <2>2. CASE j = i
    BY <1>2, <2>1, <2>2 DEF SaveShopItem, TypeOK
  <2>3. CASE j # i
    BY <1>2, <2>1, <2>3 DEF SaveShopItem, TypeOK, StockConserved, ItemRows
  <2>4. QED
    BY <2>2, <2>3
<1>3. QED
  BY <1>1, <1>2

LEMMA StockStep == TypeOK /\ StockConserved /\ [Next]_vars => StockConserved'
<1> SUFFICES ASSUME TypeOK, StockConserved, [Next]_vars PROVE StockConserved'
  OBVIOUS
<1>1. ASSUME catalog' = catalog, supply' = supply,
             \A i \in Items : Total(PromisedOf(i)', OrderIds) = Total(PromisedOf(i), OrderIds)
      PROVE  StockConserved'
  BY <1>1 DEF StockConserved, ItemRows
<1>2. ASSUME orders' = orders
      PROVE  \A i \in Items : Total(PromisedOf(i)', OrderIds) = Total(PromisedOf(i), OrderIds)
  BY <1>2 DEF PromisedOf, Standing, OrderRows
<1>3. CASE UNCHANGED vars
  BY <1>1, <1>2, <1>3 DEF vars, rows, history
<1>4. ASSUME NEW u \in Users, NEW n \in Amounts,
             \/ Award(u, n) \/ Clawback(u, n)
             \/ \E delta \in {n, -n} : AdjustPipes(u, delta)
      PROVE  StockConserved'
  BY <1>1, <1>2, <1>4 DEF Award, Clawback, AdjustPipes, AddPipes
<1>5. ASSUME \/ \E o \in OrderIds : FulfillOrder(o)
             \/ GrantStep
      PROVE  StockConserved'
  <2>1. \A y \in OrderIds : /\ Standing(y)' <=> Standing(y)
                            /\ Standing(y) => orders'[y].quantity = orders[y].quantity
    BY <1>5, RowEdits
  <2>2. \A y \in OrderIds : Standing(y) => orders'[y].shopItemId = orders[y].shopItemId
    <3>1. CASE \E o \in OrderIds : FulfillOrder(o)
      <4>1. PICK o \in OrderIds : FulfillOrder(o)
        BY <3>1
      <4>2. orders[o] \in Order
        BY <4>1, RowOrNot DEF FulfillOrder
      <4>3. QED
        BY <4>1, <4>2 DEF FulfillOrder, MarkFulfilled, TypeOK, Order
    <3>2. CASE GrantStep
      <4>1. PICK o \in OrderIds, p \in Providers, g \in GrantIds :
                CommitGrant(o, p, g) \/ StampGrant(o, p, g)
        BY <3>2 DEF GrantStep
      <4>2. orders' = [orders EXCEPT ![o].grantId[p] = g] /\ orders[o] \in Order
        BY <4>1, RowOrNot DEF CommitGrant, StampGrant
      <4>3. [orders[o] EXCEPT !.grantId[p] = g].shopItemId = orders[o].shopItemId
        BY <4>2 DEF Order
      <4>4. QED
        BY <4>2, <4>3 DEF TypeOK
    <3>3. QED
      BY <1>5, <3>1, <3>2
  <2>3. \A i \in Items : PromisedOf(i)' = PromisedOf(i)
    BY <2>1, <2>2 DEF PromisedOf
  <2>4. catalog' = catalog /\ supply' = supply
    BY <1>5 DEF FulfillOrder, MarkFulfilled, GrantStep, CommitGrant, StampGrant, history
  <2>5. QED
    BY <1>1, <2>3, <2>4
<1>6. ASSUME NEW t \in OrderIds, MergeOrders(t) PROVE StockConserved'
  BY <1>1, <1>6, MergeMoves DEF MergeOrders, history
<1>7. QED
  BY <1>3, <1>4, <1>5, <1>6, PurchaseStocks, RefundStocks, EditStocks
     DEF Next, ShopStep, RefundOwnOrder

(* Nothing is oversold: the units left and the units promised are always    *)
(* the units put on offer, through purchases, refunds, merges and edits.    *)
THEOREM StockConservation == Spec => []StockConserved
<1>1. Init => StockConserved
  BY DEF Init, StockConserved, ItemRows
<1>2. QED
  BY <1>1, TypeCorrect, StockStep, PTL DEF Spec

-----------------------------------------------------------------------------
(* Debt, refunds and the life of an order.                                  *)

(* A wallet is below zero only by what revoked approvals took back.         *)
THEOREM NoDebt == Spec => []DebtIsClawback
<1>1. Init => DebtIsClawback
  BY DEF Init, DebtIsClawback
<1>2. TypeOK /\ DebtIsClawback /\ [Next]_vars => DebtIsClawback'
  <2> SUFFICES ASSUME TypeOK, DebtIsClawback, [Next]_vars, NEW w \in Users
               PROVE  pipes'[w] >= -(clawed'[w])
    BY DEF DebtIsClawback
  <2>1. pipes[w] \in Int /\ clawed[w] \in Nat /\ pipes[w] >= -clawed[w]
    BY DEF TypeOK, DebtIsClawback
  <2>2. ASSUME pipes' = pipes, clawed' = clawed PROVE pipes'[w] >= -(clawed'[w])
    BY <2>1, <2>2
  <2>3. ASSUME NEW u \in Users, NEW n \in Amounts,
               \/ Award(u, n) \/ Clawback(u, n)
               \/ \E delta \in {n, -n} : AdjustPipes(u, delta)
        PROVE  pipes'[w] >= -(clawed'[w])
    <3>1. n \in Nat
      BY BoundsAssumption
    <3>2. QED
      BY <2>1, <2>3, <3>1 DEF TypeOK, Award, Clawback, AdjustPipes, AddPipes
  <2>4. ASSUME NEW u \in Users, NEW i \in Items, NEW q \in Quantities,
               NEW o \in OrderIds, Purchase(u, i, q, o)
        PROVE  pipes'[w] >= -(clawed'[w])
    <3> DEFINE cost == PriceFor[u][i] * q
    <3>1. cost \in Nat
      BY CostType
    <3>2. pipes[u] >= cost /\ pipes' = [pipes EXCEPT ![u] = @ - cost] /\ clawed' = clawed
      BY <2>4 DEF Purchase, MayBuy, PlaceOrder, history
    <3> HIDE DEF cost
    <3>3. QED
      BY <2>1, <3>1, <3>2 DEF TypeOK
  <2>5. ASSUME NEW o \in OrderIds, RefundOrder(o)
        PROVE  pipes'[w] >= -(clawed'[w])
    <3>1. orders[o].userId \in Users /\ orders[o].pipesSpent \in Nat
      BY <2>5, RowOrNot DEF RefundOrder, Order
    <3>2. QED
      BY <2>1, <2>5, <3>1 DEF RefundOrder, ReturnPipes, TypeOK
  <2>6. QED
    BY <2>2, <2>3, <2>4, <2>5
       DEF Next, ShopStep, GrantStep, RefundOwnOrder, SaveShopItem, DeleteShopItem,
           FulfillOrder, MarkFulfilled, MergeOrders, CommitGrant, StampGrant,
           vars, rows, history
<1>3. QED
  BY <1>1, <1>2, TypeCorrect, PTL DEF Spec

-----------------------------------------------------------------------------
(* What a step may do to one order.                                         *)

Keeps(o) ==
    /\ o \in OrderRows' <=> o \in OrderRows
    /\ o \in OrderRows =>
        /\ \/ orders'[o].status = orders[o].status
           \/ orders[o].status = "pending" /\ orders'[o].status = "fulfilled"
        /\ \A p \in Providers : orders[o].grantId[p] # None => orders'[o].grantId[p] # None
    /\ refunds'[o] = refunds[o]

Inserts(o) ==
    /\ orders[o] = Unused
    /\ o \in OrderRows' /\ orders'[o].status = "pending"
    /\ refunds'[o] = refunds[o]

Cancels(o) ==
    /\ o \in OrderRows /\ ~IsGranted(o) /\ orders[o].status # "cancelled"
    /\ o \in OrderRows' /\ orders'[o].status = "cancelled"
    /\ refunds'[o] = refunds[o] + 1

Folds(o) ==
    /\ o \in OrderRows /\ ~IsGranted(o) /\ orders[o].status = "pending"
    /\ orders'[o] = Removed
    /\ refunds'[o] = refunds[o]

(* An untouched row is kept.                                                *)
LEMMA UntouchedKept ==
    ASSUME NEW o \in OrderIds, orders'[o] = orders[o], refunds'[o] = refunds[o]
    PROVE  Keeps(o)
  BY DEF Keeps, OrderRows

(* Changing other columns, or the status from pending to fulfilled, or an   *)
(* id for an id, keeps a row.                                               *)
LEMMA EditedKept ==
    ASSUME NEW o \in OrderIds, orders[o] \in Order, orders'[o] \in Order,
           refunds'[o] = refunds[o],
           \/ orders'[o].status = orders[o].status
           \/ orders[o].status = "pending" /\ orders'[o].status = "fulfilled",
           \A p \in Providers : orders[o].grantId[p] # None => orders'[o].grantId[p] # None
    PROVE  Keeps(o)
  BY NullAssumption DEF Keeps, OrderRows

LEMMA PurchaseLife ==
    ASSUME TypeOK, NEW u \in Users, NEW i \in Items, NEW q \in Quantities,
           NEW o \in OrderIds, Purchase(u, i, q, o), NEW y \in OrderIds
    PROVE  Keeps(y) \/ Inserts(y)
<1> DEFINE cost == PriceFor[u][i] * q
           new  == [userId |-> u, shopItemId |-> i, quantity |-> q,
                    pipesSpent |-> cost, status |-> "pending",
                    grantId |-> [p \in Providers |-> None]]
<1>1. new \in Order /\ new.status = "pending"
  BY CostType DEF Order, Statuses
<1>2. /\ orders' = [orders EXCEPT ![o] = new] /\ orders[o] = Unused
      /\ refunds' = refunds
  BY DEF Purchase, PlaceOrder, history
<1> HIDE DEF new
<1>3. CASE y = o
  BY <1>1, <1>2, <1>3, NullAssumption DEF TypeOK, Inserts, OrderRows
<1>4. CASE y # o
  BY <1>2, <1>4, UntouchedKept DEF TypeOK
<1>5. QED
  BY <1>3, <1>4

LEMMA RefundLife ==
    ASSUME TypeOK, NEW o \in OrderIds, RefundOrder(o), NEW y \in OrderIds
    PROVE  Keeps(y) \/ Cancels(y)
<1>1. /\ orders' = [orders EXCEPT ![o].status = "cancelled"]
      /\ refunds' = [refunds EXCEPT ![o] = @ + 1]
      /\ o \in OrderRows /\ ~IsGranted(o) /\ orders[o].status # "cancelled"
  BY DEF RefundOrder, ReturnPipes
<1>2. orders[o] \in Order
  BY <1>1, RowOrNot
<1>3. [orders[o] EXCEPT !.status = "cancelled"] \in Order
  BY <1>2 DEF Order, Statuses
<1>4. CASE y = o
  <2>1. orders'[o] \in Order /\ orders'[o].status = "cancelled"
    BY <1>1, <1>2, <1>3 DEF TypeOK, Order
  <2>2. refunds'[o] = refunds[o] + 1
    BY <1>1 DEF TypeOK
  <2>3. QED
    BY <1>1, <1>4, <2>1, <2>2, NullAssumption DEF Cancels, OrderRows
<1>5. CASE y # o
  BY <1>1, <1>5, UntouchedKept DEF TypeOK
<1>6. QED
  BY <1>4, <1>5

LEMMA MergeLife ==
    ASSUME TypeOK, NEW t \in OrderIds, MergeOrders(t), NEW y \in OrderIds
    PROVE  Keeps(y) \/ Folds(y)
<1>1. orders[t] \in Order /\ Merged(t) \in Order /\ t \notin Duplicates(t)
  BY MergeType, RowOrNot DEF MergeOrders, Duplicates, OtherPending
<1>2. Merged(t).status = orders[t].status /\ Merged(t).grantId = orders[t].grantId
  BY <1>1 DEF Merged, Order
<1>3. refunds' = refunds
  BY DEF MergeOrders, history
<1>4. CASE y = t
  <2>1. orders'[t] = Merged(t)
    BY DEF MergeOrders
  <2>2. QED
    BY <1>1, <1>2, <1>3, <1>4, <2>1, EditedKept
<1>5. CASE y \in Duplicates(t)
  BY <1>1, <1>3, <1>5 DEF MergeOrders, Folds, Duplicates, OtherPending
<1>6. CASE y # t /\ y \notin Duplicates(t)
  <2>1. orders'[y] = orders[y]
    BY <1>6 DEF MergeOrders
  <2>2. QED
    BY <1>3, <2>1, UntouchedKept
<1>7. QED
  BY <1>4, <1>5, <1>6

(* Fulfilment, a grant's stamp and the deletion of the item edit a row.     *)
LEMMA EditLife ==
    ASSUME TypeOK, NEW y \in OrderIds,
           \/ \E o \in OrderIds : FulfillOrder(o)
           \/ GrantStep
           \/ \E i \in Items : DeleteShopItem(i)
    PROVE  Keeps(y)
<1>1. ASSUME NEW o \in OrderIds, FulfillOrder(o) PROVE Keeps(y)
  <2>1. orders[o] \in Order /\ orders[o].status = "pending"
    BY <1>1, RowOrNot DEF FulfillOrder
  <2>2. [orders[o] EXCEPT !.status = "fulfilled"] \in Order
    BY <2>1 DEF Order, Statuses
  <2>3. orders' = [orders EXCEPT ![o].status = "fulfilled"] /\ refunds' = refunds
    BY <1>1 DEF FulfillOrder, MarkFulfilled, history
  <2>4. CASE y = o
    <3>1. orders'[o] \in Order /\ orders'[o].status = "fulfilled"
          /\ orders'[o].grantId = orders[o].grantId
      BY <2>1, <2>2, <2>3 DEF TypeOK, Order
    <3>2. QED
      BY <2>1, <2>3, <2>4, <3>1, EditedKept
  <2>5. CASE y # o
    BY <2>3, <2>5, UntouchedKept DEF TypeOK
  <2>6. QED
    BY <2>4, <2>5
<1>2. ASSUME NEW o \in OrderIds, NEW p \in Providers, NEW g \in GrantIds,
             CommitGrant(o, p, g) \/ StampGrant(o, p, g)
      PROVE  Keeps(y)
  <2>1. /\ orders' = [orders EXCEPT ![o].grantId[p] = g] /\ refunds' = refunds
        /\ orders[o] \in Order
    BY <1>2, RowOrNot DEF CommitGrant, StampGrant, history
  <2>2. /\ [orders[o] EXCEPT !.grantId[p] = g] \in Order
        /\ [orders[o] EXCEPT !.grantId[p] = g].status = orders[o].status
        /\ [orders[o] EXCEPT !.grantId[p] = g].grantId = [orders[o].grantId EXCEPT ![p] = g]
    BY <2>1 DEF Order
  <2>3. CASE y = o
    <3>1. orders'[o] \in Order /\ orders'[o].status = orders[o].status
          /\ orders'[o].grantId = [orders[o].grantId EXCEPT ![p] = g]
      BY <2>1, <2>2 DEF TypeOK
    <3>2. orders[o].grantId \in [Providers -> GrantIds \cup {None}] /\ g # None
      BY <2>1, NullAssumption DEF Order
    <3>3. \A z \in Providers : orders[o].grantId[z] # None => orders'[o].grantId[z] # None
      BY <3>1, <3>2
    <3>4. QED
      BY <2>1, <2>3, <3>1, <3>3, EditedKept
  <2>4. CASE y # o
    BY <2>1, <2>4, UntouchedKept DEF TypeOK
  <2>5. QED
    BY <2>3, <2>4
<1>3. ASSUME NEW i \in Items, DeleteShopItem(i) PROVE Keeps(y)
  <2>1. refunds' = refunds
    BY <1>3 DEF DeleteShopItem
  <2>2. CASE y \in OrderRows /\ orders[y].shopItemId = i
    <3>1. orders[y] \in Order
      BY <2>2, RowOrNot
    <3>2. orders'[y] = [orders[y] EXCEPT !.shopItemId = None]
      BY <1>3, <2>2 DEF DeleteShopItem
    <3>3. orders'[y] \in Order /\ orders'[y].status = orders[y].status
          /\ orders'[y].grantId = orders[y].grantId
      BY <3>1, <3>2 DEF Order
    <3>4. QED
      BY <2>1, <3>1, <3>3, EditedKept
  <2>3. CASE ~(y \in OrderRows /\ orders[y].shopItemId = i)
    BY <1>3, <2>1, <2>3, UntouchedKept DEF DeleteShopItem
  <2>4. QED
    BY <2>2, <2>3
<1>4. QED
  BY <1>1, <1>2, <1>3 DEF GrantStep

(* Every step keeps an order, inserts it, cancels it with its pipes         *)
(* returned, or folds it into another.                                      *)
LEMMA OrderLife ==
    ASSUME TypeOK, [Next]_vars, NEW y \in OrderIds
    PROVE  Keeps(y) \/ Inserts(y) \/ Cancels(y) \/ Folds(y)
<1>1. CASE orders' = orders /\ refunds' = refunds
  BY <1>1, UntouchedKept
<1>2. CASE ~(orders' = orders /\ refunds' = refunds)
  <2>1. \/ \E u \in Users, i \in Items, q \in Quantities, o \in OrderIds : Purchase(u, i, q, o)
        \/ \E o \in OrderIds : RefundOrder(o)
        \/ \E o \in OrderIds : MergeOrders(o)
        \/ \E o \in OrderIds : FulfillOrder(o)
        \/ GrantStep
        \/ \E i \in Items : DeleteShopItem(i)
    BY <1>2 DEF Next, ShopStep, RefundOwnOrder, Award, Clawback, AdjustPipes, AddPipes,
                SaveShopItem, vars, rows, history
  <2>2. QED
    BY <2>1, PurchaseLife, RefundLife, MergeLife, EditLife
<1>3. QED
  BY <1>1, <1>2

(* An order's pipes are returned exactly when it is cancelled, and once.    *)
THEOREM NoDoubleRefund == Spec => []RefundedOnce
<1>1. Init => RefundedOnce
  BY DEF Init, RefundedOnce, OrderRows
<1>2. TypeOK /\ RefundedOnce /\ [Next]_vars => RefundedOnce'
  <2> SUFFICES ASSUME TypeOK, RefundedOnce, [Next]_vars, NEW o \in OrderIds
               PROVE  refunds'[o] =
                        IF o \in OrderRows' /\ orders'[o].status = "cancelled" THEN 1 ELSE 0
    BY DEF RefundedOnce
  <2>1. refunds[o] = IF o \in OrderRows /\ orders[o].status = "cancelled" THEN 1 ELSE 0
    BY DEF RefundedOnce
  <2>2. CASE Keeps(o)
    BY <2>1, <2>2 DEF Keeps
  <2>3. CASE Inserts(o)
    BY <2>1, <2>3 DEF Inserts, OrderRows
  <2>4. CASE Cancels(o)
    BY <2>1, <2>4 DEF Cancels
  <2>5. CASE Folds(o)
    BY <2>1, <2>5 DEF Folds, OrderRows
  <2>6. QED
    BY <2>2, <2>3, <2>4, <2>5, OrderLife
<1>3. QED
  BY <1>1, <1>2, TypeCorrect, PTL DEF Spec

(* An order that was paid out as a grant is never refunded or folded away.  *)
THEOREM GrantsAreFinal == Spec => GrantedRowsAreKept
<1>1. TypeOK /\ [Next]_vars =>
        [\A o \in OrderRows : IsGranted(o) =>
            /\ o \in OrderRows'
            /\ \A p \in Providers : orders[o].grantId[p] # None => orders'[o].grantId[p] # None
            /\ orders'[o].status = "cancelled" => orders[o].status = "cancelled"]_vars
  <2> SUFFICES ASSUME TypeOK, [Next]_vars, NEW o \in OrderRows, IsGranted(o)
               PROVE  /\ o \in OrderRows'
                      /\ \A p \in Providers :
                            orders[o].grantId[p] # None => orders'[o].grantId[p] # None
                      /\ orders'[o].status = "cancelled" => orders[o].status = "cancelled"
    OBVIOUS
  <2>1. o \in OrderIds /\ ~Inserts(o) /\ ~Cancels(o) /\ ~Folds(o)
    BY DEF OrderRows, Inserts, Cancels, Folds
  <2>2. Keeps(o)
    BY <2>1, OrderLife
  <2>3. QED
    BY <2>2 DEF Keeps
<1>2. QED
  BY <1>1, TypeCorrect, PTL DEF Spec, GrantedRowsAreKept

(* A cancelled order stays cancelled and a fulfilled one never reopens.     *)
THEOREM SettledIsFinal == Spec => SettledOrdersStay
<1>1. TypeOK /\ [Next]_vars =>
        [\A o \in OrderRows :
            /\ orders[o].status = "cancelled" =>
                o \in OrderRows' /\ orders'[o].status = "cancelled"
            /\ orders[o].status = "fulfilled" =>
                o \in OrderRows' /\ orders'[o].status # "pending"]_vars
  <2> SUFFICES ASSUME TypeOK, [Next]_vars, NEW o \in OrderRows,
                      orders[o].status # "pending"
               PROVE  /\ orders[o].status = "cancelled" =>
                            o \in OrderRows' /\ orders'[o].status = "cancelled"
                      /\ orders[o].status = "fulfilled" =>
                            o \in OrderRows' /\ orders'[o].status # "pending"
    OBVIOUS
  <2>1. o \in OrderIds /\ ~Inserts(o) /\ ~Folds(o)
    BY DEF OrderRows, Inserts, Folds
  <2>2. Keeps(o) \/ Cancels(o)
    BY <2>1, OrderLife
  <2>3. QED
    BY <2>2 DEF Keeps, Cancels
<1>2. QED
  BY <1>1, TypeCorrect, PTL DEF Spec, SettledOrdersStay

(***************************************************************************)
(* Suggestions.  Two calls of a builder on one vote are both marked when   *)
(* the later begins; so a call that is not marked is alone with that vote, *)
(* and knows how it stands.                                                *)
(***************************************************************************)

VoteCall == [stage: {"free", "counted", "posted", "found", "cast"}, by: Voters \cup {"nobody"},
             on: Ideas \cup {"nothing"}, row: {"none", "row", "gone", "taken"}, crossed: BOOLEAN]
Suggestion == {Nothing, Deleted} \cup [by: Voters, fresh: BOOLEAN]
Voting == {"posted", "found", "cast"}
Told == {"voted", "taken back"}

SuggestionsTyped ==
    /\ posted \in [Ideas -> Suggestion]
    /\ votes \subseteq Voters \X Ideas
    /\ voteCalls \in [VoteCalls -> VoteCall]
    /\ answer \in {"none", "voted", "taken back", "crossed"}
    /\ slipped \subseteq Voters
    /\ \A c \in VoteCalls :
        /\ voteCalls[c].stage # "free" => voteCalls[c].by \in Voters
        /\ voteCalls[c].stage \in Voting => voteCalls[c].on \in Ideas

VotesThere == \A v \in votes : IsThere(v[2])

(* A builder who has been counted may post one more.                        *)
WithinLimit == \A u \in Voters \ slipped :
    /\ Cardinality(Today(u)) <= DailyLimit
    /\ (\E c \in VoteCalls : voteCalls[c].stage = "counted" /\ voteCalls[c].by = u) =>
            Cardinality(Today(u)) < DailyLimit

(* A call on the vote that is watched.                                      *)
OnIt(q) == q.stage \in Voting /\ q.by = Watched[1] /\ q.on = Watched[2]

Crossing == \A c, d \in VoteCalls :
    c # d /\ OnIt(voteCalls[c]) /\ OnIt(voteCalls[d]) => voteCalls[c].crossed

(* Nobody was told of a vote while its suggestion is being posted.          *)
Unheard ==
    /\ posted[Watched[2]] = Nothing => answer = "none" /\ \A c \in VoteCalls : ~OnIt(voteCalls[c])
    /\ \A c \in VoteCalls : voteCalls[c].stage = "posted" /\ OnIt(voteCalls[c]) => answer \notin Told

Alone(q) == OnIt(q) /\ ~q.crossed /\ IsThere(Watched[2])
Knows == \A c \in VoteCalls : Alone(voteCalls[c]) =>
    /\ voteCalls[c].stage = "found" => voteCalls[c].row = IF Watched \in votes THEN "row" ELSE "none"
    /\ voteCalls[c].stage = "cast" => (voteCalls[c].row = "taken" <=> Watched \notin votes)

Stands == IsThere(Watched[2]) /\ answer \in Told /\ (\A c \in VoteCalls : ~OnIt(voteCalls[c])) =>
    (Watched \in votes <=> answer = "voted")

SuggestionsInv ==
    SuggestionsTyped /\ VotesThere /\ WithinLimit /\ Crossing /\ Unheard /\ Knows /\ Stands

LEMMA SuggestionFacts ==
    /\ Watched[2] \in Ideas /\ Watched[1] \in Voters /\ Watched = <<Watched[1], Watched[2]>>
    /\ Nothing # Deleted /\ NoCall \in VoteCall /\ NoCall.stage = "free" /\ NoCall.row = "none"
    /\ \A u \in Voters, fresh \in BOOLEAN :
        [by |-> u, fresh |-> fresh] \in Suggestion \ {Nothing, Deleted}
    /\ \A x \in Suggestion : x.fresh => x \notin {Nothing, Deleted} /\ x.by \in Voters /\ x = [by |-> x.by, fresh |-> x.fresh]
    /\ \A x \in Suggestion : x.by \in Voters => x \notin {Nothing, Deleted} /\ x = [by |-> x.by, fresh |-> x.fresh]
    /\ \A u \in Voters, i \in Ideas : posted \in [Ideas -> Suggestion] =>
        (i \in Today(u) <=> posted[i] = [by |-> u, fresh |-> TRUE])
<1>1. Watched[2] \in Ideas /\ Watched[1] \in Voters /\ Watched = <<Watched[1], Watched[2]>>
  BY SuggestionsAssumption
<1>2. Nothing # Deleted /\ NoCall \in VoteCall /\ NoCall.stage = "free" /\ NoCall.row = "none"
  BY DEF Nothing, Deleted, NoCall, VoteCall
<1>3. ASSUME NEW u \in Voters, NEW fresh \in BOOLEAN
      PROVE  [by |-> u, fresh |-> fresh] \in Suggestion \ {Nothing, Deleted}
  BY SuggestionsAssumption DEF Suggestion, Nothing, Deleted
<1>4. ASSUME NEW x \in Suggestion, x.fresh
      PROVE  x \notin {Nothing, Deleted} /\ x.by \in Voters /\ x = [by |-> x.by, fresh |-> x.fresh]
  <2>1. x \notin {Nothing, Deleted}
    BY <1>4 DEF Nothing, Deleted
  <2>2. x \in [by: Voters, fresh: BOOLEAN]
    BY <2>1 DEF Suggestion
  <2>3. QED
    BY <2>1, <2>2
<1>5. ASSUME NEW x \in Suggestion, x.by \in Voters
      PROVE  x \notin {Nothing, Deleted} /\ x = [by |-> x.by, fresh |-> x.fresh]
  <2>1. x \notin {Nothing, Deleted}
    BY <1>5, SuggestionsAssumption DEF Nothing, Deleted
  <2>2. x \in [by: Voters, fresh: BOOLEAN]
    BY <2>1 DEF Suggestion
  <2>3. QED
    BY <2>1, <2>2
<1>6. ASSUME NEW u \in Voters, NEW i \in Ideas, posted \in [Ideas -> Suggestion]
      PROVE  i \in Today(u) <=> posted[i] = [by |-> u, fresh |-> TRUE]
  <2> DEFINE x == posted[i]
  <2>1. x \in Suggestion
    BY <1>6
  <2> HIDE DEF x
  <2>2. ASSUME x.by = u, x.fresh
        PROVE  x = [by |-> u, fresh |-> TRUE]
    <3>1. x = [by |-> u, fresh |-> x.fresh] /\ x \notin {Nothing, Deleted}
      BY <1>5, <2>1, <2>2
    <3>2. x \in [by: Voters, fresh: BOOLEAN]
      BY <2>1, <3>1 DEF Suggestion
    <3>3. x.fresh = TRUE
      BY <2>2, <3>2
    <3>4. QED
      BY <3>1, <3>3
  <2>3. x = [by |-> u, fresh |-> TRUE] => x.by = u /\ x.fresh
    OBVIOUS
  <2>4. x.by = u /\ x.fresh <=> x = [by |-> u, fresh |-> TRUE]
    BY <2>2, <2>3
  <2>5. QED
    BY <2>4 DEF Today, x
<1>7. QED
  BY <1>1, <1>2, <1>3, <1>4, <1>5, <1>6

LEMMA SuggestedPrime ==
    ASSUME NEW u \in Voters, NEW i \in Ideas, posted' \in [Ideas -> Suggestion]
    PROVE  i \in Today(u)' <=> posted'[i] = [by |-> u, fresh |-> TRUE]
<1> DEFINE x == posted'[i]
<1>1. x \in Suggestion
  OBVIOUS
<1> HIDE DEF x
<1>2. ASSUME x.by = u, x.fresh
      PROVE  x = [by |-> u, fresh |-> TRUE]
  <2>1. x = [by |-> u, fresh |-> x.fresh] /\ x \notin {Nothing, Deleted}
    BY <1>1, <1>2, SuggestionFacts
  <2>2. x \in [by: Voters, fresh: BOOLEAN]
    BY <1>1, <2>1 DEF Suggestion
  <2>3. x.fresh = TRUE
    BY <1>2, <2>2
  <2>4. QED
    BY <2>1, <2>3
<1>3. x = [by |-> u, fresh |-> TRUE] => x.by = u /\ x.fresh
  OBVIOUS
<1>4. x.by = u /\ x.fresh <=> x = [by |-> u, fresh |-> TRUE]
  BY <1>2, <1>3
<1>5. QED
  BY <1>4 DEF Today, x

(* No builder has more suggestions of the day than before.                  *)
LEMMA FewerToday ==
    ASSUME NEW S, NEW T, S \subseteq T, T \subseteq Ideas
    PROVE  Cardinality(S) <= Cardinality(T) /\ Cardinality(S) \in Nat /\ Cardinality(T) \in Nat
<1>1. IsFiniteSet(T) /\ IsFiniteSet(S)
  BY SuggestionsAssumption, FS_Subset
<1>2. QED
  BY <1>1, FS_Subset, FS_CardinalityType

LEMMA OnItIs ==
    /\ \A q : <<q.by, q.on>> = Watched <=> q.by = Watched[1] /\ q.on = Watched[2]
    /\ \A c : On(c, Watched) <=> OnIt(voteCalls[c])
    /\ \A c : On(c, Watched)' <=> OnIt(voteCalls'[c])
<1>1. ASSUME NEW q PROVE <<q.by, q.on>> = Watched <=> q.by = Watched[1] /\ q.on = Watched[2]
  BY SuggestionFacts
<1>2. QED
  BY <1>1 DEF On, Of, OnIt, Voting

(* The vote that is watched, who is on it and what was answered stay.       *)
LEMMA OffWatch ==
    ASSUME SuggestionsInv, answer' = answer,
           \A d \in VoteCalls : \/ voteCalls'[d] = voteCalls[d]
                                \/ ~OnIt(voteCalls'[d]) /\ ~OnIt(voteCalls[d]),
           Watched \in votes' <=> Watched \in votes,
           IsThere(Watched[2])' <=> IsThere(Watched[2]),
           posted'[Watched[2]] = Nothing <=> posted[Watched[2]] = Nothing
    PROVE  Crossing' /\ Unheard' /\ Knows' /\ Stands'
<1>1. Crossing /\ Unheard /\ Knows /\ Stands
  BY DEF SuggestionsInv
<1>2. Crossing'
  BY <1>1 DEF Crossing
<1>3. Unheard'
  BY <1>1 DEF Unheard
<1>4. Knows'
  BY <1>1 DEF Knows, Alone
<1>5. Stands'
  BY <1>1 DEF Stands
<1>6. QED
  BY <1>2, <1>3, <1>4, <1>5

(* One call goes on.                                                        *)
LEMMA CallMoves ==
    ASSUME SuggestionsInv, NEW c \in VoteCalls, NEW q \in VoteCall,
           q.stage # "free" => q.by \in Voters, q.stage \in Voting => q.on \in Ideas,
           voteCalls' = [voteCalls EXCEPT ![c] = q], UNCHANGED <<posted, slipped>>,
           votes' \subseteq Voters \X Ideas, answer' \in {"none", "voted", "taken back", "crossed"}
    PROVE  /\ SuggestionsTyped' /\ voteCalls'[c] = q
           /\ \A d \in VoteCalls \ {c} : voteCalls'[d] = voteCalls[d]
<1>1. SuggestionsTyped
  BY DEF SuggestionsInv
<1>2. voteCalls'[c] = q /\ \A d \in VoteCalls \ {c} : voteCalls'[d] = voteCalls[d]
  BY <1>1 DEF SuggestionsTyped
<1>3. voteCalls' \in [VoteCalls -> VoteCall]
  BY <1>1 DEF SuggestionsTyped
<1>4. \A d \in VoteCalls :
        /\ voteCalls'[d].stage # "free" => voteCalls'[d].by \in Voters
        /\ voteCalls'[d].stage \in Voting => voteCalls'[d].on \in Ideas
  BY <1>1, <1>2 DEF SuggestionsTyped
<1>5. QED
  BY <1>1, <1>2, <1>3, <1>4 DEF SuggestionsTyped

(* No suggestion is added, nobody is counted: the limit stands.             *)
LEMMA LimitKept ==
    ASSUME SuggestionsInv, slipped' = slipped,
           \A u \in Voters : Today(u)' \subseteq Today(u),
           \A d \in VoteCalls : voteCalls'[d].stage = "counted" =>
               voteCalls[d].stage = "counted" /\ voteCalls'[d].by = voteCalls[d].by
    PROVE  WithinLimit'
<1> SUFFICES ASSUME NEW u \in Voters \ slipped
             PROVE  /\ Cardinality(Today(u)') <= DailyLimit
                    /\ (\E c \in VoteCalls : voteCalls'[c].stage = "counted" /\ voteCalls'[c].by = u) =>
                            Cardinality(Today(u)') < DailyLimit
  BY DEF WithinLimit
<1>1. Today(u) \subseteq Ideas
  BY DEF Today
<1>2. /\ Cardinality(Today(u)') <= Cardinality(Today(u))
      /\ Cardinality(Today(u)') \in Nat /\ Cardinality(Today(u)) \in Nat
  BY <1>1, FewerToday
<1>3. /\ Cardinality(Today(u)) <= DailyLimit
      /\ (\E c \in VoteCalls : voteCalls[c].stage = "counted" /\ voteCalls[c].by = u) =>
                            Cardinality(Today(u)) < DailyLimit
  BY DEF SuggestionsInv, WithinLimit
<1>4. DailyLimit \in Nat
  BY SuggestionsAssumption
<1>5. QED
  BY <1>2, <1>3, <1>4

LEMMA CountRecentKeeps ==
    ASSUME SuggestionsInv, NEW c \in VoteCalls, NEW u \in Voters, CountRecent(c, u)
    PROVE  SuggestionsInv'
<1> DEFINE q == [NoCall EXCEPT !.stage = "counted", !.by = u]
<1>1. q \in VoteCall /\ q.stage = "counted" /\ q.by = u
  BY SuggestionFacts DEF NoCall, VoteCall
<1>2. /\ voteCalls[c] = NoCall /\ voteCalls' = [voteCalls EXCEPT ![c] = q]
      /\ Cardinality(Today(u)) < DailyLimit /\ UNCHANGED <<posted, votes, answer, slipped>>
  BY DEF CountRecent
<1> HIDE DEF q
<1>3. /\ SuggestionsTyped' /\ voteCalls'[c] = q
      /\ \A d \in VoteCalls \ {c} : voteCalls'[d] = voteCalls[d]
  BY <1>1, <1>2, CallMoves DEF SuggestionsInv, SuggestionsTyped, Voting
<1>4. ~OnIt(voteCalls[c]) /\ ~OnIt(q)
  BY <1>1, <1>2, SuggestionFacts DEF OnIt, Voting
<1>5. Crossing' /\ Unheard' /\ Knows' /\ Stands'
  BY <1>2, <1>3, <1>4, OffWatch DEF IsThere
<1>6. VotesThere'
  BY <1>2 DEF SuggestionsInv, VotesThere, IsThere
<1>7. WithinLimit'
  <2> SUFFICES ASSUME NEW w \in Voters \ slipped
               PROVE  /\ Cardinality(Today(w)) <= DailyLimit
                      /\ (\E d \in VoteCalls : voteCalls'[d].stage = "counted" /\ voteCalls'[d].by = w) =>
                            Cardinality(Today(w)) < DailyLimit
    BY <1>2 DEF WithinLimit, Today
  <2>1. /\ Cardinality(Today(w)) <= DailyLimit
        /\ (\E d \in VoteCalls : voteCalls[d].stage = "counted" /\ voteCalls[d].by = w) =>
                            Cardinality(Today(w)) < DailyLimit
    BY DEF SuggestionsInv, WithinLimit
  <2>2. QED
    BY <1>1, <1>2, <1>3, <2>1, w = u \/ w # u
<1>8. QED
  BY <1>3, <1>5, <1>6, <1>7 DEF SuggestionsInv

LEMMA PostKeeps ==
    ASSUME SuggestionsInv, NEW c \in VoteCalls, NEW i \in Ideas, Post(c, i)
    PROVE  SuggestionsInv'
<1> DEFINE u == voteCalls[c].by
<1> DEFINE q == [voteCalls[c] EXCEPT !.stage = "posted", !.on = i]
<1> DEFINE new == [by |-> u, fresh |-> TRUE]
<1>1. /\ voteCalls[c] \in VoteCall /\ voteCalls[c].stage = "counted" /\ u \in Voters
      /\ posted \in [Ideas -> Suggestion] /\ voteCalls \in [VoteCalls -> VoteCall]
  BY DEF SuggestionsInv, SuggestionsTyped, Post
<1>2. q \in VoteCall /\ q.stage = "posted" /\ q.by = u /\ q.on = i
  BY <1>1 DEF VoteCall
<1>3. new \in Suggestion \ {Nothing, Deleted}
  BY <1>1, SuggestionFacts
<1>4. posted' = [posted EXCEPT ![i] = new] /\ voteCalls' = [voteCalls EXCEPT ![c] = q]
  BY <1>1 DEF Post
<1> HIDE DEF q, new
<1>5. /\ posted'[i] = new /\ \A j \in Ideas \ {i} : posted'[j] = posted[j]
      /\ voteCalls'[c] = q /\ \A d \in VoteCalls \ {c} : voteCalls'[d] = voteCalls[d]
      /\ posted' \in [Ideas -> Suggestion] /\ voteCalls' \in [VoteCalls -> VoteCall]
  BY <1>1, <1>2, <1>3, <1>4
<1>6. posted[i] = Nothing /\ UNCHANGED <<votes, answer>>
  BY DEF Post
<1>7. slipped' \subseteq Voters /\ slipped \subseteq slipped'
  BY <1>1 DEF Post, SuggestionsInv, SuggestionsTyped
<1>8. SuggestionsTyped'
  <2>1. \A d \in VoteCalls :
        /\ voteCalls'[d].stage # "free" => voteCalls'[d].by \in Voters
        /\ voteCalls'[d].stage \in Voting => voteCalls'[d].on \in Ideas
    BY <1>1, <1>2, <1>5 DEF SuggestionsInv, SuggestionsTyped
  <2>2. QED
    BY <1>5, <1>6, <1>7, <2>1 DEF SuggestionsInv, SuggestionsTyped
<1>9. VotesThere'
  BY <1>3, <1>5, <1>6 DEF SuggestionsInv, SuggestionsTyped, VotesThere, IsThere
<1>10. ~OnIt(voteCalls[c])
  BY <1>1 DEF OnIt, Voting
<1>11. Crossing' /\ Unheard' /\ Knows' /\ Stands'
  <2>1. CASE i # Watched[2]
    <3>1. ~OnIt(q) /\ posted'[Watched[2]] = posted[Watched[2]]
      BY <1>2, <1>5, <2>1, SuggestionFacts DEF OnIt
    <3>2. QED
      BY <1>5, <1>6, <1>10, <3>1, OffWatch DEF IsThere
  <2>2. CASE i = Watched[2]
    <3>1. answer' = "none" /\ (\A d \in VoteCalls : ~OnIt(voteCalls[d])) /\ posted'[Watched[2]] # Nothing
      BY <1>3, <1>5, <1>6, <2>2 DEF SuggestionsInv, Unheard
    <3>2. \A d \in VoteCalls : OnIt(voteCalls'[d]) => d = c /\ voteCalls'[d].stage = "posted"
      BY <1>2, <1>5, <3>1
    <3>3. QED
      BY <3>1, <3>2 DEF Crossing, Unheard, Knows, Stands, Alone, Told
  <2>3. QED
    BY <2>1, <2>2
<1>12. WithinLimit'
  <2> SUFFICES ASSUME NEW w \in Voters \ slipped'
               PROVE  /\ Cardinality(Today(w)') <= DailyLimit
                      /\ (\E d \in VoteCalls : voteCalls'[d].stage = "counted" /\ voteCalls'[d].by = w) =>
                            Cardinality(Today(w)') < DailyLimit
    BY DEF WithinLimit
  <2>1. /\ Cardinality(Today(w)) <= DailyLimit
        /\ (\E d \in VoteCalls : voteCalls[d].stage = "counted" /\ voteCalls[d].by = w) =>
                            Cardinality(Today(w)) < DailyLimit
    BY <1>7 DEF SuggestionsInv, WithinLimit
  <2>2. \A j \in Ideas : /\ j \in Today(w) <=> posted[j] = [by |-> w, fresh |-> TRUE]
                         /\ j \in Today(w)' <=> posted'[j] = [by |-> w, fresh |-> TRUE]
    <3>1. ASSUME NEW j \in Ideas PROVE j \in Today(w) <=> posted[j] = [by |-> w, fresh |-> TRUE]
      BY <1>1, SuggestionFacts
    <3>2. ASSUME NEW j \in Ideas PROVE j \in Today(w)' <=> posted'[j] = [by |-> w, fresh |-> TRUE]
      BY <1>5, SuggestionFacts, SuggestedPrime
    <3>3. QED
      BY <3>1, <3>2
  <2>3. Today(w) \subseteq Ideas /\ Today(w)' \subseteq Ideas
    BY DEF Today
  <2>4. CASE w # u
    <3>1. Today(w)' = Today(w)
      <4>1. new # [by |-> w, fresh |-> TRUE]
        BY <2>4 DEF new
      <4>2. Nothing # [by |-> w, fresh |-> TRUE]
        BY SuggestionFacts
      <4>3. QED
        BY <1>5, <1>6, <2>2, <2>3, <4>1, <4>2
    <3>2. QED
      BY <1>2, <1>5, <2>1, <3>1
  <2>5. CASE w = u
    <3>1. Today(w)' = Today(w) \cup {i} /\ i \notin Today(w)
      <4>1. new = [by |-> w, fresh |-> TRUE]
        BY <2>5 DEF new
      <4>2. Nothing # [by |-> w, fresh |-> TRUE]
        BY SuggestionFacts
      <4>3. QED
        BY <1>5, <1>6, <2>2, <2>3, <4>1, <4>2
    <3>2. IsFiniteSet(Today(w))
      BY <2>3, SuggestionsAssumption, FS_Subset
    <3>3. Cardinality(Today(w)') = Cardinality(Today(w)) + 1 /\ Cardinality(Today(w)) \in Nat
      BY <3>1, <3>2, FS_AddElement, FS_CardinalityType
    <3>4. Cardinality(Today(w)) < DailyLimit
      BY <1>1, <2>1, <2>5
    <3>5. ~\E d \in VoteCalls : voteCalls'[d].stage = "counted" /\ voteCalls'[d].by = w
      <4>1. ~\E d \in VoteCalls \ {c} : voteCalls[d].stage = "counted" /\ voteCalls[d].by = u
        BY <2>5 DEF Post
      <4>2. QED
        BY <1>2, <1>5, <2>5, <4>1
    <3>6. QED
      BY <3>3, <3>4, <3>5, SuggestionsAssumption
  <2>6. QED
    BY <2>4, <2>5
<1>13. QED
  BY <1>8, <1>9, <1>11, <1>12 DEF SuggestionsInv

LEMMA AutoVoteKeeps ==
    ASSUME SuggestionsInv, NEW c \in VoteCalls, AutoVote(c)
    PROVE  SuggestionsInv'
<1>1. /\ voteCalls[c].stage = "posted" /\ voteCalls[c].by \in Voters /\ voteCalls[c].on \in Ideas
  BY DEF SuggestionsInv, SuggestionsTyped, AutoVote, Voting
<1>2. /\ voteCalls' = [voteCalls EXCEPT ![c] = NoCall] /\ UNCHANGED <<posted, answer, slipped>>
      /\ \/ votes' = votes
         \/ IsThere(voteCalls[c].on) /\ votes' = votes \cup {<<voteCalls[c].by, voteCalls[c].on>>}
  BY DEF AutoVote
<1>3. votes' \subseteq Voters \X Ideas
  <2>1. votes \subseteq Voters \X Ideas /\ <<voteCalls[c].by, voteCalls[c].on>> \in Voters \X Ideas
    BY <1>1 DEF SuggestionsInv, SuggestionsTyped
  <2>2. QED
    BY <1>2, <2>1
<1>4. /\ SuggestionsTyped' /\ voteCalls'[c] = NoCall
      /\ \A d \in VoteCalls \ {c} : voteCalls'[d] = voteCalls[d]
  BY <1>2, <1>3, CallMoves, SuggestionFacts DEF SuggestionsInv, SuggestionsTyped, Voting
<1>5. VotesThere'
  BY <1>2 DEF SuggestionsInv, VotesThere, IsThere
<1>6. WithinLimit'
  <2>1. \A u \in Voters : Today(u)' \subseteq Today(u)
    BY <1>2 DEF Today
  <2>2. \A d \in VoteCalls : voteCalls'[d].stage = "counted" =>
               voteCalls[d].stage = "counted" /\ voteCalls'[d].by = voteCalls[d].by
    BY <1>4, SuggestionFacts
  <2>3. QED
    BY <1>2, <2>1, <2>2, LimitKept
<1>7. ~OnIt(NoCall)
  BY SuggestionFacts DEF OnIt, Voting
<1>8. Crossing' /\ Unheard' /\ Knows' /\ Stands'
  <2>1. CASE ~OnIt(voteCalls[c])
    <3>1. <<voteCalls[c].by, voteCalls[c].on>> # Watched
      BY <1>1, <2>1, OnItIs DEF OnIt, Voting
    <3>2. Watched \in votes' <=> Watched \in votes
      BY <1>2, <3>1
    <3>3. QED
      BY <1>2, <1>4, <1>7, <2>1, <3>2, OffWatch DEF IsThere
  <2>2. CASE OnIt(voteCalls[c])
    <3>1. /\ answer \notin Told /\ posted[Watched[2]] # Nothing
          /\ \A d \in VoteCalls \ {c} : OnIt(voteCalls[d]) => voteCalls[d].crossed
      BY <1>1, <2>2 DEF SuggestionsInv, Unheard, Crossing
    <3>2. \A d \in VoteCalls : OnIt(voteCalls'[d]) => d # c /\ voteCalls'[d].crossed
      BY <1>4, <1>7, <3>1
    <3>3. QED
      BY <1>2, <3>1, <3>2 DEF Crossing, Unheard, Knows, Stands, Alone
  <2>3. QED
    BY <2>1, <2>2
<1>9. QED
  BY <1>4, <1>5, <1>6, <1>8 DEF SuggestionsInv

LEMMA FindVoteKeeps ==
    ASSUME SuggestionsInv, NEW c \in VoteCalls, NEW u \in Voters, NEW i \in Ideas, FindVote(c, u, i)
    PROVE  SuggestionsInv'
<1> DEFINE meets == <<u, i>> = Watched /\ \E d \in VoteCalls : On(d, <<u, i>>)
<1> DEFINE q == [stage |-> "found", by |-> u, on |-> i, crossed |-> meets,
                 row |-> IF <<u, i>> \in votes THEN "row" ELSE "none"]
<1>1. /\ voteCalls[c] = NoCall /\ IsThere(i) /\ UNCHANGED <<posted, votes, answer, slipped>>
      /\ voteCalls' = [d \in VoteCalls |->
            CASE d = c -> q
              [] meets /\ On(d, <<u, i>>) -> [voteCalls[d] EXCEPT !.crossed = TRUE]
              [] OTHER -> voteCalls[d]]
  BY DEF FindVote
<1>2. voteCalls \in [VoteCalls -> VoteCall]
  BY DEF SuggestionsInv, SuggestionsTyped
<1>3. meets \in BOOLEAN /\ TRUE \in BOOLEAN
  OBVIOUS
<1>4. q \in VoteCall /\ q.stage = "found" /\ q.by = u /\ q.on = i /\ (q.crossed <=> meets)
      /\ q.row = IF <<u, i>> \in votes THEN "row" ELSE "none"
  <2> HIDE DEF meets
  <2> DEFINE row == IF <<u, i>> \in votes THEN "row" ELSE "none"
  <2>1. row \in {"none", "row"}
    OBVIOUS
  <2> HIDE DEF row
  <2>2. [stage |-> "found", by |-> u, on |-> i, crossed |-> meets, row |-> row] \in VoteCall
    BY <1>3, <2>1 DEF VoteCall
  <2>3. q = [stage |-> "found", by |-> u, on |-> i, crossed |-> meets, row |-> row]
    BY DEF row
  <2>4. /\ q.stage = "found" /\ q.by = u /\ q.on = i /\ q.row = row
        /\ q.crossed = meets
    BY <2>3
  <2>5. QED
    BY <2>2, <2>3, <2>4 DEF row
<1>5. meets <=> <<u, i>> = Watched /\ \E d \in VoteCalls : OnIt(voteCalls[d])
  BY OnItIs
<1> HIDE DEF q, meets
<1>6. voteCalls'[c] = q /\ ~OnIt(voteCalls[c])
  <2>1. ~OnIt(NoCall)
    BY SuggestionFacts DEF OnIt, Voting
  <2>2. ~On(c, <<u, i>>)
    BY <1>1, SuggestionFacts DEF On
  <2>3. voteCalls'[c] = q
    BY <1>1, <2>2
  <2>4. QED
    BY <1>1, <2>1, <2>3
<1>7. ASSUME NEW d \in VoteCalls \ {c}
      PROVE  /\ voteCalls'[d] \in VoteCall /\ voteCalls'[d].stage = voteCalls[d].stage
             /\ voteCalls'[d].by = voteCalls[d].by /\ voteCalls'[d].on = voteCalls[d].on
             /\ voteCalls'[d].row = voteCalls[d].row
             /\ voteCalls'[d] # voteCalls[d] => meets /\ OnIt(voteCalls[d])
             /\ meets /\ OnIt(voteCalls[d]) => voteCalls'[d].crossed
  <2>1. voteCalls[d] \in VoteCall
    BY <1>2
  <2>2. CASE meets /\ On(d, <<u, i>>)
    <3>1. voteCalls'[d] = [voteCalls[d] EXCEPT !.crossed = TRUE]
      BY <1>1, <2>2
    <3>2. OnIt(voteCalls[d])
      BY <1>5, <2>2, OnItIs
    <3>3. QED
      BY <1>3, <2>1, <2>2, <3>1, <3>2 DEF VoteCall
  <2>3. CASE ~(meets /\ On(d, <<u, i>>))
    <3>1. voteCalls'[d] = voteCalls[d]
      BY <1>1, <2>3
    <3>2. ~(meets /\ OnIt(voteCalls[d]))
      BY <1>5, <2>3, OnItIs
    <3>3. QED
      BY <2>1, <3>1, <3>2
  <2>4. QED
    BY <2>2, <2>3
<1>8. SuggestionsTyped'
  <2>1. voteCalls' = [d \in VoteCalls |-> voteCalls'[d]]
    BY <1>1
  <2>2. \A d \in VoteCalls : voteCalls'[d] \in VoteCall
    BY <1>4, <1>6, <1>7
  <2>3. voteCalls' \in [VoteCalls -> VoteCall]
    BY <2>1, <2>2
  <2>4. \A d \in VoteCalls :
        /\ voteCalls'[d].stage # "free" => voteCalls'[d].by \in Voters
        /\ voteCalls'[d].stage \in Voting => voteCalls'[d].on \in Ideas
    BY <1>4, <1>6, <1>7 DEF SuggestionsInv, SuggestionsTyped
  <2>5. QED
    BY <1>1, <2>3, <2>4 DEF SuggestionsInv, SuggestionsTyped
<1>9. VotesThere'
  BY <1>1 DEF SuggestionsInv, VotesThere, IsThere
<1>10. WithinLimit'
  <2>1. \A w \in Voters : Today(w)' \subseteq Today(w)
    BY <1>1 DEF Today
  <2>2. \A d \in VoteCalls : voteCalls'[d].stage = "counted" =>
               voteCalls[d].stage = "counted" /\ voteCalls'[d].by = voteCalls[d].by
    BY <1>4, <1>6, <1>7
  <2>3. QED
    BY <1>1, <2>1, <2>2, LimitKept
<1>11. Crossing' /\ Unheard' /\ Knows' /\ Stands'
  <2>1. CASE <<u, i>> # Watched
    <3>1. ~meets /\ ~OnIt(q)
      BY <1>4, <1>5, <2>1, SuggestionFacts DEF OnIt
    <3>2. \A d \in VoteCalls : \/ voteCalls'[d] = voteCalls[d]
                               \/ ~OnIt(voteCalls'[d]) /\ ~OnIt(voteCalls[d])
      BY <1>6, <1>7, <3>1
    <3>3. QED
      BY <1>1, <3>2, OffWatch DEF IsThere
  <2>2. CASE <<u, i>> = Watched
    <3>1. i = Watched[2] /\ posted[Watched[2]] # Nothing /\ OnIt(q)
      BY <1>1, <1>4, <2>2, SuggestionFacts DEF IsThere, OnIt, Voting
    <3>2. \A d \in VoteCalls \ {c} : OnIt(voteCalls'[d]) <=> OnIt(voteCalls[d])
      BY <1>7 DEF OnIt
    <3>3. \A d \in VoteCalls \ {c} : OnIt(voteCalls'[d]) => voteCalls'[d].crossed /\ meets
      BY <1>5, <1>7, <2>2, <3>2
    <3>4. Crossing'
      BY <1>4, <1>6, <3>3 DEF Crossing
    <3>5. Unheard'
      BY <1>1, <1>4, <1>6, <1>7, <3>1, <3>2 DEF SuggestionsInv, Unheard
    <3>6. Knows'
      BY <1>1, <1>4, <1>6, <2>2, <3>3 DEF Knows, Alone
    <3>7. Stands'
      BY <1>6, <3>1 DEF Stands
    <3>8. QED
      BY <3>4, <3>5, <3>6, <3>7
  <2>3. QED
    BY <2>1, <2>2
<1>12. QED
  BY <1>8, <1>9, <1>10, <1>11 DEF SuggestionsInv

(* A row that goes takes nothing else from the call that read it.           *)
LEMMA RowsFacts ==
    ASSUME SuggestionsTyped, NEW gone, NEW d \in VoteCalls
    PROVE  /\ RowsGone(gone)[d] \in VoteCall
           /\ RowsGone(gone)[d].stage = voteCalls[d].stage /\ RowsGone(gone)[d].by = voteCalls[d].by
           /\ RowsGone(gone)[d].on = voteCalls[d].on /\ RowsGone(gone)[d].crossed = voteCalls[d].crossed
           /\ RowsGone(gone)[d] # voteCalls[d] => Of(d) \in gone
<1> DEFINE q == voteCalls[d]
<1>1. q \in VoteCall
  BY DEF SuggestionsTyped
<1>2. RowsGone(gone)[d] = IF q.row = "row" /\ Of(d) \in gone THEN [q EXCEPT !.row = "gone"] ELSE q
  BY DEF RowsGone
<1> HIDE DEF q
<1>3. CASE q.row = "row" /\ Of(d) \in gone
  <2>1. RowsGone(gone)[d] = [q EXCEPT !.row = "gone"]
    BY <1>2, <1>3
  <2>2. QED
    BY <1>1, <1>3, <2>1 DEF VoteCall, q
<1>4. CASE ~(q.row = "row" /\ Of(d) \in gone)
  <2>1. RowsGone(gone)[d] = q
    BY <1>2, <1>4
  <2>2. QED
    BY <1>1, <2>1 DEF q
<1>5. QED
  BY <1>3, <1>4

(* A call that has voted, or taken its vote back.                           *)
LEMMA CastMoves ==
    ASSUME SuggestionsInv, NEW c \in VoteCalls, voteCalls[c].stage = "found",
           UNCHANGED <<posted, answer, slipped>>,
           voteCalls' = [d \in VoteCalls |-> voteCalls'[d]],
           \A d \in VoteCalls :
             /\ voteCalls'[d] \in VoteCall /\ voteCalls'[d].by = voteCalls[d].by
             /\ voteCalls'[d].on = voteCalls[d].on /\ voteCalls'[d].crossed = voteCalls[d].crossed,
           \A d \in VoteCalls \ {c} :
             /\ voteCalls'[d].stage = voteCalls[d].stage
             /\ voteCalls'[d] # voteCalls[d] => Of(d) = Of(c),
           voteCalls'[c].stage = "cast",
           Alone(voteCalls[c]) => (voteCalls'[c].row = "taken" <=> Of(c) \notin votes'),
           \/ votes' \subseteq votes /\ votes \ {Of(c)} \subseteq votes'
           \/ votes' = votes \cup {Of(c)} /\ IsThere(voteCalls[c].on)
    PROVE  SuggestionsInv'
<1>1. SuggestionsTyped
  BY DEF SuggestionsInv
<1>2. voteCalls[c].by \in Voters /\ voteCalls[c].on \in Ideas
  BY <1>1 DEF SuggestionsTyped, Voting
<1>3. Of(c) = <<voteCalls[c].by, voteCalls[c].on>> /\ Of(c) \in Voters \X Ideas /\ Of(c)[2] = voteCalls[c].on
  BY <1>2 DEF Of
<1>4. votes' \subseteq votes \cup {Of(c)} /\ \A v \in votes' : v \in votes \/ IsThere(v[2])
  BY <1>3
<1>5. SuggestionsTyped'
  <2>1. voteCalls' \in [VoteCalls -> VoteCall]
    OBVIOUS
  <2>2. votes' \subseteq Voters \X Ideas
    BY <1>1, <1>3, <1>4 DEF SuggestionsTyped
  <2>3. \A d \in VoteCalls :
        /\ voteCalls'[d].stage # "free" => voteCalls'[d].by \in Voters
        /\ voteCalls'[d].stage \in Voting => voteCalls'[d].on \in Ideas
    <3> SUFFICES ASSUME NEW d \in VoteCalls
                 PROVE  /\ voteCalls'[d].stage # "free" => voteCalls'[d].by \in Voters
                        /\ voteCalls'[d].stage \in Voting => voteCalls'[d].on \in Ideas
      OBVIOUS
    <3>1. CASE d = c
      BY <1>2, <3>1
    <3>2. CASE d # c
      BY <1>1, <3>2 DEF SuggestionsTyped
    <3>3. QED
      BY <3>1, <3>2
  <2>4. QED
    BY <1>1, <2>1, <2>2, <2>3 DEF SuggestionsTyped
<1>6. VotesThere'
  BY <1>4 DEF SuggestionsInv, VotesThere, IsThere
<1>7. WithinLimit'
  <2>1. \A u \in Voters : Today(u)' \subseteq Today(u)
    BY DEF Today
  <2>2. \A d \in VoteCalls : voteCalls'[d].stage = "counted" =>
               voteCalls[d].stage = "counted" /\ voteCalls'[d].by = voteCalls[d].by
    OBVIOUS
  <2>3. QED
    BY <2>1, <2>2, LimitKept
<1>8. \A d \in VoteCalls : OnIt(voteCalls'[d]) <=> OnIt(voteCalls[d])
  <2>1. OnIt(voteCalls'[c]) <=> OnIt(voteCalls[c])
    BY DEF OnIt, Voting
  <2>2. QED
    BY <2>1 DEF OnIt
<1>9. OnIt(voteCalls[c]) <=> Of(c) = Watched
  BY <1>3, OnItIs DEF OnIt, Voting
<1>10. CASE ~OnIt(voteCalls[c])
  <2>1. ASSUME NEW d \in VoteCalls, voteCalls'[d] # voteCalls[d]
        PROVE  ~OnIt(voteCalls[d])
    <3>1. CASE d = c
      BY <1>10, <3>1
    <3>2. CASE d # c
      <4>1. Of(d) # Watched
        BY <1>9, <1>10, <2>1, <3>2
      <4>2. QED
        BY <4>1, OnItIs DEF OnIt, Of
    <3>3. QED
      BY <3>1, <3>2
  <2>2. Watched \in votes' <=> Watched \in votes
    BY <1>4, <1>9, <1>10
  <2>3. Crossing' /\ Unheard' /\ Knows' /\ Stands'
    BY <1>8, <2>1, <2>2, OffWatch DEF IsThere
  <2>4. QED
    BY <1>5, <1>6, <1>7, <2>3 DEF SuggestionsInv
<1>11. CASE OnIt(voteCalls[c])
  <2>1. Crossing'
    BY <1>8 DEF SuggestionsInv, Crossing
  <2>2. Unheard'
    BY <1>8 DEF SuggestionsInv, Unheard
  <2>3. Knows'
    <3> SUFFICES ASSUME NEW d \in VoteCalls, Alone(voteCalls[d])'
                 PROVE  /\ voteCalls'[d].stage = "found" =>
                              voteCalls'[d].row = IF Watched \in votes' THEN "row" ELSE "none"
                        /\ voteCalls'[d].stage = "cast" =>
                              (voteCalls'[d].row = "taken" <=> Watched \notin votes')
      BY DEF Knows
    <3>1. Alone(voteCalls[d])
      BY <1>8 DEF Alone, IsThere
    <3>2. d = c
      BY <1>11, <3>1 DEF SuggestionsInv, Crossing, Alone
    <3>3. QED
      BY <1>9, <1>11, <3>1, <3>2
  <2>4. Stands'
    BY <1>8, <1>11 DEF Stands
  <2>5. QED
    BY <1>5, <1>6, <1>7, <2>1, <2>2, <2>3, <2>4 DEF SuggestionsInv
<1>12. QED
  BY <1>10, <1>11

LEMMA CastVoteKeeps ==
    ASSUME SuggestionsInv, NEW c \in VoteCalls, CastVote(c)
    PROVE  SuggestionsInv'
<1> DEFINE q == voteCalls[c]
<1>1. SuggestionsTyped /\ q \in VoteCall
  BY DEF SuggestionsInv, SuggestionsTyped
<1>2. q.stage = "found" /\ Of(c) = <<q.by, q.on>> /\ UNCHANGED <<posted, answer, slipped>>
  BY DEF CastVote, Of
<1>3. Alone(q) => Of(c) = Watched /\ q.row = IF Watched \in votes THEN "row" ELSE "none"
  BY <1>2, OnItIs DEF SuggestionsInv, Knows, Alone, OnIt
<1> DEFINE Gives(w) == /\ voteCalls' = [voteCalls EXCEPT ![c] = w]
                       /\ w \in VoteCall /\ w.stage = "cast" /\ w.by = q.by /\ w.on = q.on /\ w.crossed = q.crossed
<1> HIDE DEF q
<1>4. CASE q.row = "row" /\ votes' = votes \ {Of(c)}
           /\ voteCalls' = [RowsGone({Of(c)}) EXCEPT ![c].stage = "cast", ![c].row = "taken"]
  <2> DEFINE r == RowsGone({Of(c)})[c]
  <2>1. /\ r \in VoteCall /\ r.by = q.by /\ r.on = q.on /\ r.crossed = q.crossed
    BY <1>1, RowsFacts DEF q
  <2>2. voteCalls'[c] = [r EXCEPT !.stage = "cast", !.row = "taken"]
    BY <1>4 DEF RowsGone
  <2> HIDE DEF r
  <2>3. /\ voteCalls'[c] \in VoteCall /\ voteCalls'[c].by = q.by /\ voteCalls'[c].on = q.on
        /\ voteCalls'[c].crossed = q.crossed /\ voteCalls'[c].stage = "cast" /\ voteCalls'[c].row = "taken"
    BY <2>1, <2>2 DEF VoteCall
  <2>4. ASSUME NEW d \in VoteCalls \ {c}
        PROVE  /\ voteCalls'[d] \in VoteCall /\ voteCalls'[d].by = voteCalls[d].by
               /\ voteCalls'[d].on = voteCalls[d].on /\ voteCalls'[d].crossed = voteCalls[d].crossed
               /\ voteCalls'[d].stage = voteCalls[d].stage
               /\ voteCalls'[d] # voteCalls[d] => Of(d) = Of(c)
    <3>1. voteCalls'[d] = RowsGone({Of(c)})[d]
      BY <1>4 DEF RowsGone
    <3>2. QED
      BY <1>1, <3>1, RowsFacts
  <2>5. voteCalls' = [d \in VoteCalls |-> voteCalls'[d]]
    BY <1>4 DEF RowsGone
  <2>6. \A d \in VoteCalls :
             /\ voteCalls'[d] \in VoteCall /\ voteCalls'[d].by = voteCalls[d].by
             /\ voteCalls'[d].on = voteCalls[d].on /\ voteCalls'[d].crossed = voteCalls[d].crossed
    BY <2>3, <2>4 DEF q
  <2>7. QED
    BY <1>2, <1>4, <2>3, <2>4, <2>5, <2>6, CastMoves DEF q
<1>5. ASSUME NEW w, Gives(w), Alone(q) => (w.row = "taken" <=> Of(c) \notin votes'),
             \/ votes' = votes
             \/ votes' = votes \cup {Of(c)} /\ IsThere(q.on)
      PROVE  SuggestionsInv'
  <2>1. /\ voteCalls'[c] = w /\ voteCalls' = [d \in VoteCalls |-> voteCalls'[d]]
        /\ \A d \in VoteCalls \ {c} : voteCalls'[d] = voteCalls[d] /\ voteCalls[d] \in VoteCall
    BY <1>1, <1>5 DEF SuggestionsTyped
  <2>2. \A d \in VoteCalls :
             /\ voteCalls'[d] \in VoteCall /\ voteCalls'[d].by = voteCalls[d].by
             /\ voteCalls'[d].on = voteCalls[d].on /\ voteCalls'[d].crossed = voteCalls[d].crossed
    BY <1>5, <2>1 DEF q
  <2>3. QED
    BY <1>2, <1>5, <2>1, <2>2, CastMoves DEF q
<1>6. CASE q.row = "gone" /\ votes' = votes
           /\ voteCalls' = [voteCalls EXCEPT ![c].stage = "cast", ![c].row = "taken"]
  <2> DEFINE w == [q EXCEPT !.stage = "cast", !.row = "taken"]
  <2>1. Gives(w)
    BY <1>1, <1>6 DEF VoteCall, q
  <2>2. ~Alone(q)
    BY <1>3, <1>6
  <2> HIDE DEF w, Gives
  <2>3. QED
    BY <1>5, <1>6, <2>1, <2>2
<1>7. CASE q.row = "none" /\ IsThere(q.on) /\ votes' = votes \cup {Of(c)}
           /\ voteCalls' = [voteCalls EXCEPT ![c].stage = "cast"]
  <2> DEFINE w == [q EXCEPT !.stage = "cast"]
  <2>1. Gives(w) /\ w.row = "none"
    BY <1>1, <1>7 DEF VoteCall, q
  <2> HIDE DEF w, Gives
  <2>2. QED
    BY <1>5, <1>7, <2>1
<1>8. CASE q.row = "none" /\ ~IsThere(q.on) /\ votes' = votes
           /\ voteCalls' = [voteCalls EXCEPT ![c] = NoCall]
  <2>1. /\ SuggestionsTyped' /\ voteCalls'[c] = NoCall
        /\ \A d \in VoteCalls \ {c} : voteCalls'[d] = voteCalls[d]
    BY <1>1, <1>2, <1>8, CallMoves, SuggestionFacts DEF SuggestionsTyped, Voting
  <2>2. VotesThere'
    BY <1>2, <1>8 DEF SuggestionsInv, VotesThere, IsThere
  <2>3. WithinLimit'
    <3>1. \A u \in Voters : Today(u)' \subseteq Today(u)
      BY <1>2 DEF Today
    <3>2. \A d \in VoteCalls : voteCalls'[d].stage = "counted" =>
               voteCalls[d].stage = "counted" /\ voteCalls'[d].by = voteCalls[d].by
      BY <2>1, SuggestionFacts
    <3>3. QED
      BY <1>2, <3>1, <3>2, LimitKept
  <2>4. ~OnIt(NoCall)
    BY SuggestionFacts DEF OnIt, Voting
  <2>5. Crossing' /\ Unheard' /\ Knows' /\ Stands'
    <3>1. CASE ~OnIt(q)
      BY <1>2, <1>8, <2>1, <2>4, <3>1, OffWatch DEF IsThere, q
    <3>2. CASE OnIt(q)
      <4>1. ~IsThere(Watched[2])' /\ ~IsThere(Watched[2])
        BY <1>2, <1>8, <3>2 DEF OnIt, IsThere
      <4>2. \A d \in VoteCalls : OnIt(voteCalls'[d]) => d # c /\ voteCalls'[d] = voteCalls[d]
        BY <2>1, <2>4
      <4>3. Crossing'
        BY <4>2 DEF SuggestionsInv, Crossing
      <4>4. Unheard'
        BY <1>2, <4>2 DEF SuggestionsInv, Unheard
      <4>5. QED
        BY <4>1, <4>3, <4>4 DEF Knows, Stands, Alone
    <3>3. QED
      BY <3>1, <3>2
  <2>6. QED
    BY <2>1, <2>2, <2>3, <2>5 DEF SuggestionsInv
<1>9. QED
  BY <1>2, <1>4, <1>6, <1>7, <1>8 DEF CastVote, q

LEMMA AnswerVoteKeeps ==
    ASSUME SuggestionsInv, NEW c \in VoteCalls, AnswerVote(c)
    PROVE  SuggestionsInv'
<1> DEFINE q == voteCalls[c]
<1>1. /\ q.stage = "cast" /\ voteCalls' = [voteCalls EXCEPT ![c] = NoCall] /\ UNCHANGED <<posted, votes, slipped>>
      /\ answer' = IF Of(c) # Watched THEN answer ELSE
            IF q.crossed THEN "crossed" ELSE IF q.row = "taken" THEN "taken back" ELSE "voted"
  BY DEF AnswerVote
<1>2. /\ SuggestionsTyped' /\ voteCalls'[c] = NoCall
      /\ \A d \in VoteCalls \ {c} : voteCalls'[d] = voteCalls[d]
  <2>1. answer' \in {"none", "voted", "taken back", "crossed"} /\ votes' \subseteq Voters \X Ideas
    BY <1>1 DEF SuggestionsInv, SuggestionsTyped
  <2>2. QED
    BY <1>1, <2>1, CallMoves, SuggestionFacts DEF Voting
<1>3. VotesThere'
  BY <1>1 DEF SuggestionsInv, VotesThere, IsThere
<1>4. WithinLimit'
  <2>1. \A u \in Voters : Today(u)' \subseteq Today(u)
    BY <1>1 DEF Today
  <2>2. \A d \in VoteCalls : voteCalls'[d].stage = "counted" =>
               voteCalls[d].stage = "counted" /\ voteCalls'[d].by = voteCalls[d].by
    BY <1>2, SuggestionFacts
  <2>3. QED
    BY <1>1, <2>1, <2>2, LimitKept
<1>5. ~OnIt(NoCall)
  BY SuggestionFacts DEF OnIt, Voting
<1>6. OnIt(q) <=> Of(c) = Watched
  BY <1>1, OnItIs DEF OnIt, Voting, Of
<1> HIDE DEF q
<1>7. CASE ~OnIt(q)
  <2>1. answer' = answer
    BY <1>1, <1>6, <1>7
  <2>2. Crossing' /\ Unheard' /\ Knows' /\ Stands'
    BY <1>1, <1>2, <1>5, <1>7, <2>1, OffWatch DEF IsThere, q
  <2>3. QED
    BY <1>2, <1>3, <1>4, <2>2 DEF SuggestionsInv
<1>8. CASE OnIt(q)
  <2>1. answer' = IF q.crossed THEN "crossed" ELSE IF q.row = "taken" THEN "taken back" ELSE "voted"
    BY <1>1, <1>6, <1>8
  <2>2. \A d \in VoteCalls : OnIt(voteCalls'[d]) =>
            d # c /\ voteCalls'[d] = voteCalls[d] /\ voteCalls[d].crossed /\ q.crossed
    BY <1>2, <1>5, <1>8 DEF SuggestionsInv, Crossing, q
  <2>3. Crossing'
    BY <2>2 DEF Crossing
  <2>4. posted[Watched[2]] # Nothing
    BY <1>8 DEF SuggestionsInv, Unheard, q
  <2>5. Unheard'
    BY <1>1, <2>1, <2>2, <2>4 DEF Unheard, Told
  <2>6. Knows'
    BY <2>2 DEF Knows, Alone
  <2>7. Stands'
    <3> SUFFICES ASSUME IsThere(Watched[2])', answer' \in Told
                 PROVE  Watched \in votes' <=> answer' = "voted"
      BY DEF Stands
    <3>1. ~q.crossed /\ answer' = IF q.row = "taken" THEN "taken back" ELSE "voted"
      BY <2>1 DEF Told
    <3>2. Alone(q)
      BY <1>1, <1>8, <3>1 DEF Alone, IsThere
    <3>3. q.row = "taken" <=> Watched \notin votes
      BY <1>1, <3>2 DEF SuggestionsInv, Knows, q
    <3>4. QED
      BY <1>1, <3>1, <3>3
  <2>8. QED
    BY <1>2, <1>3, <1>4, <2>3, <2>5, <2>6, <2>7 DEF SuggestionsInv
<1>9. QED
  BY <1>7, <1>8

LEMMA DeleteIdeaKeeps ==
    ASSUME SuggestionsInv, NEW u \in Voters, NEW i \in Ideas, DeleteIdea(u, i)
    PROVE  SuggestionsInv'
<1> DEFINE gone == {v \in votes : v[2] = i}
<1>1. /\ posted[i].by = u /\ posted' = [posted EXCEPT ![i] = Deleted]
      /\ votes' = votes \ gone /\ voteCalls' = RowsGone(gone) /\ UNCHANGED <<answer, slipped>>
  BY DEF DeleteIdea
<1>2. SuggestionsTyped /\ posted[i] \in Suggestion
  BY DEF SuggestionsInv, SuggestionsTyped
<1>3. IsThere(i)
  BY <1>1, <1>2, SuggestionFacts DEF IsThere
<1>4. /\ posted'[i] = Deleted /\ \A j \in Ideas \ {i} : posted'[j] = posted[j]
      /\ posted' \in [Ideas -> Suggestion]
  BY <1>1, <1>2 DEF SuggestionsTyped, Suggestion
<1>5. \A v \in votes' : v \in votes /\ v[2] # i
  BY <1>1
<1> HIDE DEF gone
<1>6. \A d \in VoteCalls :
        /\ voteCalls'[d] \in VoteCall /\ voteCalls'[d].stage = voteCalls[d].stage
        /\ voteCalls'[d].by = voteCalls[d].by /\ voteCalls'[d].on = voteCalls[d].on
        /\ voteCalls'[d].crossed = voteCalls[d].crossed
        /\ voteCalls'[d] # voteCalls[d] => Of(d) \in gone
  BY <1>1, <1>2, RowsFacts
<1>7. SuggestionsTyped'
  <2>1. voteCalls' = [d \in VoteCalls |-> voteCalls'[d]]
    BY <1>1 DEF RowsGone
  <2>2. voteCalls' \in [VoteCalls -> VoteCall]
    BY <1>6, <2>1
  <2>3. votes' \subseteq Voters \X Ideas
    BY <1>2, <1>5 DEF SuggestionsTyped
  <2>4. QED
    BY <1>1, <1>2, <1>4, <1>6, <2>2, <2>3 DEF SuggestionsTyped
<1>8. VotesThere'
  <2> SUFFICES ASSUME NEW v \in votes' PROVE IsThere(v[2])'
    BY DEF VotesThere
  <2>1. v[2] \in Ideas /\ v[2] # i /\ IsThere(v[2])
    BY <1>2, <1>5 DEF SuggestionsInv, SuggestionsTyped, VotesThere
  <2>2. QED
    BY <1>4, <2>1 DEF IsThere
<1>9. WithinLimit'
  <2>1. ASSUME NEW w \in Voters PROVE Today(w)' \subseteq Today(w)
    <3> SUFFICES ASSUME NEW j \in Ideas, j \in Today(w)' PROVE j \in Today(w)
      BY DEF Today
    <3>1. posted'[j] = [by |-> w, fresh |-> TRUE]
      BY <1>4, SuggestedPrime
    <3>2. j # i
      BY <1>4, <3>1 DEF Deleted
    <3>3. QED
      BY <1>2, <1>4, <3>1, <3>2, SuggestionFacts DEF SuggestionsTyped
  <2>2. QED
    BY <1>1, <1>6, <2>1, LimitKept
<1>10. \A d \in VoteCalls : OnIt(voteCalls'[d]) <=> OnIt(voteCalls[d])
  BY <1>6 DEF OnIt
<1>11. CASE i # Watched[2]
  <2>1. Watched \in votes' <=> Watched \in votes
    BY <1>1, <1>11, SuggestionFacts DEF gone
  <2>2. ASSUME NEW d \in VoteCalls, voteCalls'[d] # voteCalls[d]
        PROVE  ~OnIt(voteCalls[d])
    <3>1. Of(d)[2] = i /\ Of(d)[2] = voteCalls[d].on
      BY <1>6, <2>2 DEF gone, Of
    <3>2. QED
      BY <1>11, <3>1 DEF OnIt
  <2>3. posted'[Watched[2]] = posted[Watched[2]]
    BY <1>4, <1>11, SuggestionFacts
  <2>4. Crossing' /\ Unheard' /\ Knows' /\ Stands'
    BY <1>1, <1>10, <2>1, <2>2, <2>3, OffWatch DEF IsThere
  <2>5. QED
    BY <1>7, <1>8, <1>9, <2>4 DEF SuggestionsInv
<1>12. CASE i = Watched[2]
  <2>1. ~IsThere(Watched[2])' /\ posted'[Watched[2]] # Nothing
    BY <1>4, <1>12, SuggestionFacts DEF IsThere
  <2>2. Crossing'
    BY <1>6, <1>10 DEF SuggestionsInv, Crossing
  <2>3. Unheard'
    BY <1>1, <1>6, <1>10, <2>1 DEF SuggestionsInv, Unheard
  <2>4. QED
    BY <1>7, <1>8, <1>9, <2>1, <2>2, <2>3 DEF SuggestionsInv, Knows, Stands, Alone
<1>13. QED
  BY <1>11, <1>12

LEMMA DayPassesKeeps ==
    ASSUME SuggestionsInv, NEW i \in Ideas, DayPasses(i)
    PROVE  SuggestionsInv'
<1> DEFINE x == posted[i]
<1>1. x.fresh /\ posted' = [posted EXCEPT ![i].fresh = FALSE] /\ UNCHANGED <<votes, voteCalls, answer, slipped>>
  BY DEF DayPasses
<1>2. SuggestionsTyped /\ x \in Suggestion
  BY DEF SuggestionsInv, SuggestionsTyped
<1>3. posted'[i] = [x EXCEPT !.fresh = FALSE] /\ \A j \in Ideas \ {i} : posted'[j] = posted[j]
  BY <1>1, <1>2 DEF SuggestionsTyped
<1>4. IsThere(i) /\ x # Nothing
  BY <1>1, <1>2, SuggestionFacts DEF IsThere
<1> HIDE DEF x
<1>5. x.by \in Voters /\ x = [by |-> x.by, fresh |-> x.fresh]
  BY <1>1, <1>2, SuggestionFacts DEF x
<1>6. posted'[i] = [by |-> x.by, fresh |-> FALSE]
  BY <1>3, <1>5
<1>7. posted'[i] \in Suggestion \ {Nothing, Deleted}
  BY <1>5, <1>6, SuggestionFacts
<1>8. IsThere(i)' /\ posted'[i] # Nothing
  BY <1>7 DEF IsThere
<1>9. SuggestionsTyped'
  <2>1. posted' \in [Ideas -> Suggestion]
    BY <1>1, <1>2, <1>3, <1>7 DEF SuggestionsTyped
  <2>2. QED
    BY <1>1, <1>2, <2>1 DEF SuggestionsTyped
<1>10. \A j \in Ideas : IsThere(j)' <=> IsThere(j)
  BY <1>3, <1>4, <1>8 DEF IsThere
<1>11. VotesThere'
  BY <1>1, <1>2, <1>10 DEF SuggestionsInv, VotesThere, SuggestionsTyped
<1>12. WithinLimit'
  <2>1. ASSUME NEW w \in Voters PROVE Today(w)' \subseteq Today(w)
    <3> SUFFICES ASSUME NEW j \in Ideas, j \in Today(w)' PROVE j \in Today(w)
      BY DEF Today
    <3>1. posted'[j] = [by |-> w, fresh |-> TRUE]
      BY <1>9, SuggestedPrime DEF SuggestionsTyped
    <3>2. j # i
      BY <1>6, <3>1
    <3>3. QED
      BY <1>2, <1>3, <3>1, <3>2, SuggestionFacts DEF SuggestionsTyped
  <2>2. QED
    BY <1>1, <2>1, LimitKept
<1>13. posted'[Watched[2]] = Nothing <=> posted[Watched[2]] = Nothing
  BY <1>3, <1>4, <1>8, SuggestionFacts DEF x
<1>14. Crossing' /\ Unheard' /\ Knows' /\ Stands'
  BY <1>1, <1>10, <1>13, OffWatch, SuggestionFacts
<1>15. QED
  BY <1>9, <1>11, <1>12, <1>14 DEF SuggestionsInv

LEMMA SuggestionsInitInv ==
    SuggestionsInit => SuggestionsInv
<1> SUFFICES ASSUME SuggestionsInit PROVE SuggestionsInv
  OBVIOUS
<1>1. /\ posted = [i \in Ideas |-> Nothing] /\ votes = {}
      /\ voteCalls = [c \in VoteCalls |-> NoCall]
      /\ answer = "none" /\ slipped = {}
  BY DEF SuggestionsInit
<1>2. SuggestionsTyped
  BY <1>1, SuggestionFacts DEF SuggestionsTyped, Suggestion, Voting
<1>3. WithinLimit
  <2>1. ASSUME NEW u \in Voters PROVE Today(u) = {}
    BY <1>1, <1>2, SuggestionFacts DEF Today, SuggestionsTyped, Nothing
  <2>2. Cardinality({}) = 0
    BY FS_EmptySet
  <2>3. \A c \in VoteCalls : voteCalls[c].stage # "counted"
    BY <1>1, SuggestionFacts
  <2>4. 0 <= DailyLimit
    BY SuggestionsAssumption
  <2>5. QED
    BY <2>1, <2>2, <2>3, <2>4 DEF WithinLimit
<1>4. \A c \in VoteCalls : ~OnIt(voteCalls[c])
  BY <1>1, SuggestionFacts DEF OnIt, Voting
<1>5. VotesThere /\ Crossing /\ Knows
  BY <1>1, <1>4 DEF VotesThere, Crossing, Knows, Alone
<1>6. Unheard /\ Stands
  BY <1>1, <1>4 DEF Unheard, Stands, Told
<1>7. QED
  BY <1>2, <1>3, <1>5, <1>6 DEF SuggestionsInv

(* Who posts, votes, takes a vote back or deletes keeps the invariant.      *)
THEOREM SuggestionsInvariant == SuggestionsSpec => []SuggestionsInv
<1>1. SuggestionsInv /\ [SuggestionsNext]_suggestionVars => SuggestionsInv'
  <2> SUFFICES ASSUME SuggestionsInv, [SuggestionsNext]_suggestionVars PROVE SuggestionsInv'
    OBVIOUS
  <2>1. CASE SuggestionsNext
    BY <2>1, CountRecentKeeps, PostKeeps, AutoVoteKeeps, FindVoteKeeps, CastVoteKeeps,
       AnswerVoteKeeps, DeleteIdeaKeeps, DayPassesKeeps DEF SuggestionsNext
  <2>2. CASE UNCHANGED suggestionVars
    BY <2>2 DEF suggestionVars, SuggestionsInv, SuggestionsTyped, VotesThere, WithinLimit, Crossing,
                Unheard, Knows, Stands, Alone, IsThere, Today
  <2>3. QED
    BY <2>1, <2>2
<1>2. QED
  BY <1>1, SuggestionsInitInv, PTL DEF SuggestionsSpec

(* The parts of a suggestion, a vote and a call are of their types.         *)
THEOREM SuggestionsTypeCorrect == SuggestionsSpec => []SuggestionsTypeOK
<1>1. SuggestionsInv => SuggestionsTypeOK
  BY DEF SuggestionsInv, SuggestionsTyped, SuggestionsTypeOK, Suggestion, VoteCall
<1>2. QED
  BY <1>1, SuggestionsInvariant, PTL

(* What a builder was last told of a vote is what the list says; no vote    *)
(* outlives its suggestion; nobody posts more in a day than may be posted,  *)
(* unless two of the builder's calls were counted before either posted.     *)
THEOREM VotesAreKept == SuggestionsSpec => []VotesStand
<1>1. ASSUME SuggestionsInv PROVE VotesStand
  <2>1. /\ IsThere(Watched[2]) /\ answer \in {"voted", "taken back"} /\ (\A c \in VoteCalls : ~On(c, Watched))
        => VotedByUser(Watched[1], Watched[2]) = (answer = "voted")
    <3> SUFFICES ASSUME IsThere(Watched[2]), answer \in Told, \A c \in VoteCalls : ~On(c, Watched)
                 PROVE  (Watched \in votes) = (answer = "voted")
      BY SuggestionFacts DEF VotedByUser, Told
    <3>1. \A c \in VoteCalls : ~OnIt(voteCalls[c])
      BY OnItIs
    <3>2. Watched \in votes <=> answer = "voted"
      BY <1>1, <3>1 DEF SuggestionsInv, Stands
    <3>3. QED
      BY <3>2
  <2>2. ASSUME NEW i \in Ideas, ~IsThere(i) PROVE VoteCount(i) = 0
    <3>1. ASSUME NEW u \in Voters, <<u, i>> \in votes PROVE FALSE
      BY <1>1, <2>2, <3>1 DEF SuggestionsInv, VotesThere
    <3>2. {u \in Voters : <<u, i>> \in votes} = {}
      BY <3>1
    <3>3. QED
      BY <3>2, FS_EmptySet DEF VoteCount
  <2>3. \A u \in Voters \ slipped : Cardinality(Today(u)) <= DailyLimit
    BY <1>1 DEF SuggestionsInv, WithinLimit
  <2>4. QED
    BY <2>1, <2>2, <2>3 DEF VotesStand
<1>2. QED
  BY <1>1, SuggestionsInvariant, PTL
=============================================================================
