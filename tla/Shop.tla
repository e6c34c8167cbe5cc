-------------------------------- MODULE Shop --------------------------------
(* The order desk of the backend as the database sees it: wallets, stock    *)
(* and orders, one action per committed transaction.  ShopService runs each *)
(* of purchase, fulfill, refund and merge in one SERIALIZABLE transaction   *)
(* that locks the rows it touches, so a step here is a whole transaction.   *)
(* The grant services' stamps and the statements that move pipes outside    *)
(* the shop are here too, as the rows they commit; Grants.tla gives the     *)
(* interior of the grant transactions and implements this module.           *)
EXTENDS Totals

CONSTANTS
    Users, Items, OrderIds,
    GrantIds,      \* ids the grant providers may hand out
    PriceFor,      \* the price, in pipes, each user pays for each item
    BlackMarket,   \* the items that need a golden project
    GoldenUsers,   \* the users who authored a golden project
    Quantities,    \* quantities a request may ask for
    Amounts,       \* pipe amounts awarded, revoked or clawed back
    StockLevels,   \* stock an admin may type into the item editor
    MaxOutside,    \* bound: steps taken by the rest of the program
    Unused,        \* a primary key not inserted yet
    Removed,       \* a primary key whose row was deleted
    Unlimited,     \* stock IS NULL
    None           \* any other NULL

Providers == {"hcb", "silo"}
Statuses  == {"pending", "fulfilled", "cancelled"}

ShopItem == [stock: Nat \cup {Unlimited}, isActive: BOOLEAN]

Order == [userId: Users, shopItemId: Items \cup {None},
          quantity: Nat, pipesSpent: Nat, status: Statuses,
          grantId: [Providers -> GrantIds \cup {None}]]

ASSUME BoundsAssumption ==
    /\ Quantities \subseteq 1 .. 100
    /\ Amounts \subseteq Nat \ {0}
    /\ StockLevels \subseteq Nat \cup {Unlimited}
    /\ MaxOutside \in Nat
ASSUME PriceAssumption == PriceFor \in [Users -> [Items -> Nat]]
ASSUME OrdersAssumption == IsFiniteSet(OrderIds)
ASSUME NullAssumption ==
    /\ None \notin GrantIds \cup Items
    /\ Unlimited \notin Nat
    /\ Unused # Removed
    /\ {Unused, Removed} \cap Order = {}
    /\ {Unused, Removed} \cap ShopItem = {}

VARIABLES
    pipes,     \* users.pipes; the column has no CHECK and may go negative
    catalog,   \* shop_items
    orders,    \* orders
    awarded,   \* pipes recorded as granted on a user's projects
    credit,    \* history: net pipes the rest of the program gave a user
    clawed,    \* history: pipes taken back when an approval was revoked
    supply,    \* history: units on offer since the last edit of an item
    refunds,   \* history: how often an order's pipes were returned
    outside    \* history: steps the rest of the program has taken

rows    == <<pipes, catalog, orders>>
history == <<awarded, credit, clawed, supply, refunds, outside>>
vars    == <<rows, history>>

OrderRows == {o \in OrderIds : orders[o] \notin {Unused, Removed}}
ItemRows  == {i \in Items : catalog[i] \notin {Unused, Removed}}

(* An order holds its buyer's pipes and the units it was promised until it  *)
(* is cancelled.                                                            *)
Standing(o) == o \in OrderRows /\ orders[o].status # "cancelled"

HeldFrom(u) == [o \in OrderIds |->
    IF Standing(o) /\ orders[o].userId = u THEN orders[o].pipesSpent ELSE 0]

PromisedOf(i) == [o \in OrderIds |->
    IF Standing(o) /\ orders[o].shopItemId = i THEN orders[o].quantity ELSE 0]

IsGranted(o) == \E p \in Providers : orders[o].grantId[p] # None

TypeOK ==
    /\ pipes \in [Users -> Int]
    /\ catalog \in [Items -> ShopItem \cup {Unused, Removed}]
    /\ orders \in [OrderIds -> Order \cup {Unused, Removed}]
    /\ awarded \in [Users -> Nat]
    /\ credit \in [Users -> Int]
    /\ clawed \in [Users -> Nat]
    /\ supply \in [Items -> Nat]
    /\ refunds \in [OrderIds -> Nat]
    /\ outside \in Nat

Init ==
    /\ pipes = [u \in Users |-> 0]
    /\ catalog = [i \in Items |-> Unused]
    /\ orders = [o \in OrderIds |-> Unused]
    /\ awarded = [u \in Users |-> 0]
    /\ credit = [u \in Users |-> 0]
    /\ clawed = [u \in Users |-> 0]
    /\ supply = [i \in Items |-> 0]
    /\ refunds = [o \in OrderIds |-> 0]
    /\ outside = 0

-----------------------------------------------------------------------------
(* Pipes from outside the shop.                                             *)

Outside == outside < MaxOutside /\ outside' = outside + 1

(* AuditService.approve pays newly earned hours: increment(pipes) and the   *)
(* project's pipes_granted.                                                 *)
Award(u, n) ==
    /\ Outside
    /\ pipes' = [pipes EXCEPT ![u] = @ + n]
    /\ awarded' = [awarded EXCEPT ![u] = @ + n]
    /\ credit' = [credit EXCEPT ![u] = @ + n]
    /\ UNCHANGED <<catalog, orders, clawed, supply, refunds>>

(* AdminService.reviewProject revoking an approval: decrement(pipes), with  *)
(* no floor, by what the project had been granted.                          *)
Clawback(u, n) ==
    /\ Outside
    /\ n <= awarded[u]
    /\ pipes' = [pipes EXCEPT ![u] = @ - n]
    /\ awarded' = [awarded EXCEPT ![u] = @ - n]
    /\ credit' = [credit EXCEPT ![u] = @ - n]
    /\ clawed' = [clawed EXCEPT ![u] = @ + n]
    /\ UNCHANGED <<catalog, orders, supply, refunds>>

(* AdminService.adjustPipes: one UPDATE; a revoke carries the floor in its  *)
(* WHERE clause.                                                            *)
AddPipes(u, delta) ==
    /\ Outside
    /\ pipes' = [pipes EXCEPT ![u] = @ + delta]
    /\ credit' = [credit EXCEPT ![u] = @ + delta]
    /\ UNCHANGED <<catalog, orders, awarded, clawed, supply, refunds>>

NoFloor(u, delta) == AddPipes(u, delta)          \* mutant: WHERE without the floor

AdjustPipes(u, delta) ==
    /\ delta < 0 => pipes[u] >= -delta
    /\ AddPipes(u, delta)

-----------------------------------------------------------------------------
(* The catalogue, edited by super admins.                                   *)

(* createShopItem and updateShopItem, for the columns a purchase reads.     *)
SaveShopItem(i, stock, isActive) ==
    /\ Outside
    /\ catalog[i] # Removed
    /\ catalog' = [catalog EXCEPT ![i] = [stock |-> stock, isActive |-> isActive]]
    /\ supply' = [supply EXCEPT ![i] =
                    IF stock = Unlimited THEN 0
                    ELSE stock + Total(PromisedOf(i), OrderIds)]
    /\ UNCHANGED <<pipes, orders, awarded, credit, clawed, refunds>>

(* deleteShopItem; orders.shop_item_id is ON DELETE SET NULL.               *)
DeleteShopItem(i) ==
    /\ Outside
    /\ i \in ItemRows
    /\ catalog' = [catalog EXCEPT ![i] = Removed]
    /\ orders' = [o \in OrderIds |->
                    IF o \in OrderRows /\ orders[o].shopItemId = i
                    THEN [orders[o] EXCEPT !.shopItemId = None] ELSE orders[o]]
    /\ supply' = [supply EXCEPT ![i] = 0]
    /\ UNCHANGED <<pipes, awarded, credit, clawed, refunds>>

-----------------------------------------------------------------------------
(* ShopService.                                                             *)

Sold(item, q) ==
    IF item.stock = Unlimited THEN item
    ELSE [stock |-> item.stock - q,
          isActive |-> item.isActive /\ item.stock - q > 0]

RestockOne(item, q) ==                           \* mutant: forgets the quantity
    IF item.stock = Unlimited THEN item ELSE [item EXCEPT !.stock = @ + 1]

Restocked(item, q) ==
    IF item.stock = Unlimited THEN item ELSE [item EXCEPT !.stock = @ + q]

(* purchase: its reads and checks, then its writes.                         *)
MayBuy(u, i, q) ==
    /\ i \in ItemRows /\ catalog[i].isActive
    /\ i \in BlackMarket => u \in GoldenUsers
    /\ pipes[u] >= PriceFor[u][i] * q

InStock(i, q) == catalog[i].stock # Unlimited => catalog[i].stock >= q

PlaceOrder(u, i, q, o) ==
    LET cost == PriceFor[u][i] * q IN
    /\ orders[o] = Unused
    /\ pipes' = [pipes EXCEPT ![u] = @ - cost]
    /\ catalog' = [catalog EXCEPT ![i] = Sold(@, q)]
    /\ orders' = [orders EXCEPT ![o] =
                    [userId |-> u, shopItemId |-> i, quantity |-> q,
                     pipesSpent |-> cost, status |-> "pending",
                     grantId |-> [p \in Providers |-> None]]]
    /\ UNCHANGED history

Oversell(u, i, q, o) == MayBuy(u, i, q) /\ PlaceOrder(u, i, q, o)   \* mutant

Purchase(u, i, q, o) ==
    /\ MayBuy(u, i, q) /\ InStock(i, q)
    /\ PlaceOrder(u, i, q, o)

(* fulfillOrder *)
MarkFulfilled(o) ==
    /\ orders' = [orders EXCEPT ![o].status = "fulfilled"]
    /\ UNCHANGED <<pipes, catalog, history>>

FulfillCancelled(o) == o \in OrderRows /\ MarkFulfilled(o)          \* mutant

FulfillOrder(o) ==
    /\ o \in OrderRows /\ orders[o].status = "pending"
    /\ MarkFulfilled(o)

(* refundOrder past its options: its writes.  The item is restocked if it   *)
(* still exists; a sell-out's isActive = FALSE is not undone.               *)
ReturnPipes(o) ==
    LET order == orders[o] IN
    /\ pipes' = [pipes EXCEPT ![order.userId] = @ + order.pipesSpent]
    /\ catalog' = IF order.shopItemId \in ItemRows
                  THEN [catalog EXCEPT ![order.shopItemId] = Restocked(@, order.quantity)]
                  ELSE catalog
    /\ orders' = [orders EXCEPT ![o].status = "cancelled"]
    /\ refunds' = [refunds EXCEPT ![o] = @ + 1]
    /\ UNCHANGED <<awarded, credit, clawed, supply, outside>>

RefundCancelled(o) == o \in OrderRows /\ ~IsGranted(o) /\ ReturnPipes(o)      \* mutant
RefundGranted(o) ==                                                          \* mutant
    o \in OrderRows /\ orders[o].status # "cancelled" /\ ReturnPipes(o)

RefundOrder(o) ==
    /\ o \in OrderRows /\ orders[o].status # "cancelled"
    /\ ~IsGranted(o)
    /\ ReturnPipes(o)

(* POST /api/shop/orders/:id/refund: requireUserId and requirePending.      *)
RefundOwnOrder(u, o) ==
    /\ o \in OrderRows /\ orders[o].userId = u /\ orders[o].status = "pending"
    /\ RefundOrder(o)

(* The pending duplicates mergeOrders folds into its target.                *)
OtherPending(t) == {o \in OrderRows \ {t} : orders[o].status = "pending"}

Duplicates(t) ==
    {o \in OtherPending(t) : /\ orders[o].userId = orders[t].userId
                             /\ orders[o].shopItemId = orders[t].shopItemId}

QuantityColumn == [o \in OrderIds |-> IF o \in OrderRows THEN orders[o].quantity ELSE 0]
PipesColumn    == [o \in OrderIds |-> IF o \in OrderRows THEN orders[o].pipesSpent ELSE 0]

(* mergeOrders: the target's row with the duplicates' columns added.        *)
UnitsOnly(t) ==                                  \* mutant: forgets the pipes
    [orders[t] EXCEPT !.quantity = @ + Total(QuantityColumn, Duplicates(t))]

Merged(t) ==
    [orders[t] EXCEPT !.quantity = @ + Total(QuantityColumn, Duplicates(t)),
                      !.pipesSpent = @ + Total(PipesColumn, Duplicates(t))]

MergeOrders(t) ==
    /\ t \in OrderRows /\ orders[t].status = "pending"
    /\ orders[t].shopItemId # None
    /\ Duplicates(t) # {}
    /\ \A o \in Duplicates(t) \cup {t} : ~IsGranted(o)
    /\ orders' = [o \in OrderIds |->
            IF o = t THEN Merged(t)
            ELSE IF o \in Duplicates(t) THEN Removed ELSE orders[o]]
    /\ UNCHANGED <<pipes, catalog, history>>

-----------------------------------------------------------------------------
(* What the grant services commit to an order row.                          *)

(* The grant transaction: the locked row carried no id of this provider.    *)
CommitGrant(o, p, g) ==
    /\ o \in OrderRows /\ orders[o].grantId[p] = None
    /\ orders' = [orders EXCEPT ![o].grantId[p] = g]
    /\ UNCHANGED <<pipes, catalog, history>>

(* The best-effort UPDATE after a failed commit: it looks at nothing.       *)
StampGrant(o, p, g) ==
    /\ o \in OrderRows
    /\ orders' = [orders EXCEPT ![o].grantId[p] = g]
    /\ UNCHANGED <<pipes, catalog, history>>

-----------------------------------------------------------------------------
(* An edit that leaves the stock field alone keeps the stock it read.       *)
CurrentStock(i) == IF i \in ItemRows THEN {catalog[i].stock} ELSE {}

(* Everything but the grant services' statements.                           *)
ShopStep ==
    \/ \E u \in Users, n \in Amounts :
        \/ Award(u, n)
        \/ Clawback(u, n)
        \/ \E delta \in {n, -n} : AdjustPipes(u, delta)
    \/ \E i \in Items :
        \/ \E stock \in StockLevels \cup CurrentStock(i), isActive \in BOOLEAN :
            SaveShopItem(i, stock, isActive)
        \/ DeleteShopItem(i)
    \/ \E u \in Users, i \in Items, q \in Quantities, o \in OrderIds : Purchase(u, i, q, o)
    \/ \E o \in OrderIds :
        \/ FulfillOrder(o)
        \/ RefundOrder(o)
        \/ \E u \in Users : RefundOwnOrder(u, o)
        \/ MergeOrders(o)

GrantStep == \E o \in OrderIds, p \in Providers, g \in GrantIds :
    CommitGrant(o, p, g) \/ StampGrant(o, p, g)

Next == ShopStep \/ GrantStep

Spec == Init /\ [][Next]_vars

-----------------------------------------------------------------------------
(* Properties.                                                              *)

(* The pipes a user holds plus the pipes tied up in their standing orders   *)
(* are exactly what the rest of the program credited them: no sequence of   *)
(* purchases, refunds, merges and deletions creates or destroys a pipe.     *)
PipesConserved ==
    \A u \in Users : pipes[u] + Total(HeldFrom(u), OrderIds) = credit[u]

(* For an item with limited stock, the units left plus the units promised   *)
(* to standing orders are the units put on offer: nothing is oversold and   *)
(* a refund or a merge loses no unit.                                       *)
StockConserved ==
    \A i \in ItemRows : catalog[i].stock # Unlimited =>
        catalog[i].stock + Total(PromisedOf(i), OrderIds) = supply[i]

(* A wallet is below zero only by pipes an approval's revocation took back: *)
(* the shop never sells, and adjustPipes never revokes, into debt.          *)
DebtIsClawback == \A u \in Users : pipes[u] >= -clawed[u]

(* An order's pipes are returned at most once, and only when the order is   *)
(* cancelled; whoever refunds (buyer, staff, ban), in whatever order.       *)
RefundedOnce == \A o \in OrderIds :
    refunds[o] = IF o \in OrderRows /\ orders[o].status = "cancelled" THEN 1 ELSE 0

(* An order that carries a grant id keeps its row and an id of that         *)
(* provider, and is not cancelled from then on: the money already sent is   *)
(* never paid a second time as pipes, nor its record deleted by a merge.    *)
GrantedRowsAreKept == [][\A o \in OrderRows : IsGranted(o) =>
    /\ o \in OrderRows'
    /\ \A p \in Providers : orders[o].grantId[p] # None => orders'[o].grantId[p] # None
    /\ orders'[o].status = "cancelled" => orders[o].status = "cancelled"]_vars

(* A cancelled order stays so, a fulfilled one can only be cancelled, and   *)
(* only a pending one can be folded into another by a merge.                *)
SettledOrdersStay == [][\A o \in OrderRows :
    /\ orders[o].status = "cancelled" => o \in OrderRows' /\ orders'[o].status = "cancelled"
    /\ orders[o].status = "fulfilled" => o \in OrderRows' /\ orders'[o].status # "pending"]_vars
=============================================================================
