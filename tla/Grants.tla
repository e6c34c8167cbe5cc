------------------------------- MODULE Grants -------------------------------
(* HcbService and SiloService: paying an order out as a card grant or as    *)
(* storage.  A request checks its policy on an unlocked read, then opens a  *)
(* transaction that locks the order row, POSTs to the provider while it     *)
(* holds the lock, stamps the provider's id on the row and commits.  The    *)
(* provider moves money whether or not its answer arrives.  Meanwhile the   *)
(* rest of the shop runs, kept off locked rows by the database.             *)
EXTENDS Shop

CONSTANTS
    Requests,      \* grant requests the process serves at once
    Staff,         \* users who may issue grants
    GrantItems,    \* items flagged isGrant
    CardAmounts,   \* amounts an admin may type, in units of the pipe rate
    SiloAmount     \* SiloService.GRANT_AMOUNT

ASSUME RequestAssumption ==
    /\ CardAmounts \subseteq Nat \ {0}
    /\ SiloAmount \in Nat \ {0}
    /\ None \notin OrderIds

Stages == {"idle", "priced", "checked", "calling", "issued", "stamping", "fulfilling"}

VARIABLES
    req,       \* each request's progress and the locals it carries
    paid,      \* what the providers paid out, by grant id
    troubled   \* history: ids whose own transaction did not commit them

grantVars == <<req, paid, troubled>>

NoRequest == [stage |-> "idle", order |-> None, provider |-> "hcb", amount |-> 0,
              bulk |-> FALSE, row |-> None, id |-> None]

Payment == [order: OrderIds, provider: Providers, amount: Nat, bulk: BOOLEAN]

ASSUME PaymentAssumption == None \notin Payment

GrantsTypeOK ==
    /\ TypeOK
    /\ req \in [Requests -> [stage: Stages, order: OrderIds \cup {None},
                             provider: Providers, amount: Nat, bulk: BOOLEAN,
                             row: Order \cup {None}, id: GrantIds \cup {None}]]
    /\ paid \in [GrantIds -> Payment \cup {None}]
    /\ troubled \subseteq GrantIds

HoldsLock(r) == req[r].stage \in {"calling", "issued"}
LockedRows   == {req[r].order : r \in {r \in Requests : HoldsLock(r)}}
Unpaid       == {g \in GrantIds : paid[g] = None}

GrantsInit ==
    /\ Init
    /\ req = [r \in Requests |-> NoRequest]
    /\ paid = [g \in GrantIds |-> None]
    /\ troubled = {}

Begin(r, stage, o, p, amount, bulk) ==
    /\ req[r] = NoRequest
    /\ req' = [req EXCEPT ![r] = [stage |-> stage, order |-> o, provider |-> p, amount |-> amount,
                                  bulk |-> bulk, row |-> None, id |-> None]]
    /\ UNCHANGED <<vars, paid, troubled>>

Move(r, stage) == req' = [req EXCEPT ![r].stage = stage]
End(r)         == req' = [req EXCEPT ![r] = NoRequest]

-----------------------------------------------------------------------------
(* Policy, on rows read without a lock.  The status is not looked at.       *)

Recipient(o, admin) == o \in OrderRows /\ orders[o].userId # admin

Uncapped(r, o, admin, amount) ==                 \* mutant: no cap on the amount
    Recipient(o, admin) /\ Begin(r, "checked", o, "hcb", amount, FALSE)

(* createCardGrantForOrder from the grant popup.                            *)
RequestCard(r, o, admin, amount) ==
    /\ Recipient(o, admin)
    /\ amount <= 2 * orders[o].pipesSpent
    /\ Begin(r, "checked", o, "hcb", amount, FALSE)

(* processGrantOrder: the bulk panel's worker prices the order it read.     *)
RequestBulkCard(r, o) ==
    /\ o \in OrderRows /\ orders[o].status = "pending"
    /\ orders[o].grantId["hcb"] = None
    /\ orders[o].shopItemId \in GrantItems
    /\ orders[o].pipesSpent > 0
    /\ Begin(r, "priced", o, "hcb", orders[o].pipesSpent, TRUE)

(* ... and calls createCardGrantForOrder, which reads the order again.      *)
CheckBulkCard(r, admin) ==
    /\ req[r].stage = "priced"
    /\ IF /\ Recipient(req[r].order, admin)
          /\ req[r].amount <= 2 * orders[req[r].order].pipesSpent
       THEN Move(r, "checked") ELSE End(r)
    /\ UNCHANGED <<vars, paid, troubled>>

(* createSiloGrantForOrder: the amount is fixed.                            *)
RequestSilo(r, o, admin) ==
    /\ Recipient(o, admin)
    /\ Begin(r, "checked", o, "silo", SiloAmount, FALSE)

(* No usable access token, or the process was asked for nothing more.       *)
GiveUp(r) ==
    /\ req[r].stage = "checked"
    /\ End(r)
    /\ UNCHANGED <<vars, paid, troubled>>

-----------------------------------------------------------------------------
(* The transaction.                                                         *)

(* SELECT ... FOR UPDATE, then the only check made under the lock.          *)
LockRowIf(r, granting) ==
    /\ req[r].stage = "checked"
    /\ req[r].order \notin LockedRows
    /\ IF granting
       THEN req' = [req EXCEPT ![r].stage = "calling", ![r].row = orders[req[r].order]]
       ELSE End(r)
    /\ UNCHANGED <<vars, paid, troubled>>

LockMissing(r) == LockRowIf(r, TRUE)                          \* mutant: no NotFound
LockGranted(r) == LockRowIf(r, req[r].order \in OrderRows)    \* mutant: no id check

LockRow(r) == LockRowIf(r,
    /\ req[r].order \in OrderRows
    /\ orders[req[r].order].grantId[req[r].provider] = None)

(* The provider refuses, or never gets the request: roll back.              *)
Refused(r) ==
    /\ req[r].stage = "calling"
    /\ End(r)
    /\ UNCHANGED <<vars, paid, troubled>>

(* The provider pays and answers with an id ...                             *)
Issued(r, g) ==
    /\ req[r].stage = "calling" /\ g \in Unpaid
    /\ paid' = [paid EXCEPT ![g] = [order |-> req[r].order, provider |-> req[r].provider,
                                    amount |-> req[r].amount, bulk |-> req[r].bulk]]
    /\ req' = [req EXCEPT ![r].stage = "issued", ![r].id = g]
    /\ UNCHANGED <<vars, troubled>>

(* ... or pays, and the answer times out or carries no id: roll back.       *)
AnswerLost(r, g) ==
    /\ req[r].stage = "calling" /\ g \in Unpaid
    /\ paid' = [paid EXCEPT ![g] = [order |-> req[r].order, provider |-> req[r].provider,
                                    amount |-> req[r].amount, bulk |-> req[r].bulk]]
    /\ troubled' = troubled \cup {g}
    /\ End(r)
    /\ UNCHANGED vars

(* em.save(order) of the entity read under the lock, then COMMIT.           *)
SaveRow(r, row) ==
    /\ req[r].stage = "issued"
    /\ orders' = [orders EXCEPT ![req[r].order] = row]
    /\ IF req[r].bulk THEN Move(r, "fulfilling") ELSE End(r)
    /\ UNCHANGED <<pipes, catalog, history, paid, troubled>>

Commit(r) == SaveRow(r, [req[r].row EXCEPT !.grantId[req[r].provider] = req[r].id])

(* The save or the COMMIT fails; the lock is gone, the money too.           *)
CommitFails(r) ==
    /\ req[r].stage = "issued"
    /\ troubled' = troubled \cup {req[r].id}
    /\ Move(r, "stamping")
    /\ UNCHANGED <<vars, paid>>

(* The best-effort UPDATE by primary key: it affects no row if a merge has  *)
(* deleted the order, and may itself fail.  The request then throws.        *)
Stamp(r) ==
    LET o == req[r].order IN
    /\ req[r].stage = "stamping" /\ o \notin LockedRows
    /\ \/ /\ o \in OrderRows
          /\ orders' = [orders EXCEPT ![o].grantId[req[r].provider] = req[r].id]
       \/ orders' = orders
    /\ End(r)
    /\ UNCHANGED <<pipes, catalog, history, paid, troubled>>

FulfillBlindly(r) ==                             \* mutant: fulfils whatever it finds
    /\ req[r].stage = "fulfilling" /\ req[r].order \notin LockedRows
    /\ MarkFulfilled(req[r].order)
    /\ End(r)
    /\ UNCHANGED <<paid, troubled>>

(* The bulk worker goes on to ShopService.fulfillOrder; a failure leaves    *)
(* the order as it is.                                                      *)
FulfillGranted(r) ==
    LET o == req[r].order IN
    /\ req[r].stage = "fulfilling" /\ o \notin LockedRows
    /\ \/ FulfillOrder(o)
       \/ UNCHANGED vars
    /\ End(r)
    /\ UNCHANGED <<paid, troubled>>

(* The process dies: open transactions roll back, locals are lost.          *)
Crash ==
    /\ req # [r \in Requests |-> NoRequest]
    /\ req' = [r \in Requests |-> NoRequest]
    /\ troubled' = troubled \cup
        {req[r].id : r \in {r \in Requests : req[r].stage = "issued"}}
    /\ UNCHANGED <<vars, paid>>

(* Any other transaction of the shop; it waits for the rows that are locked *)
(* and so changes none of them.                                             *)
ShopRuns ==
    /\ ShopStep
    /\ \A o \in LockedRows : orders'[o] = orders[o]
    /\ UNCHANGED grantVars

-----------------------------------------------------------------------------
NoTimeout(r) ==                                  \* mutant: the provider never answers
    Commit(r) \/ CommitFails(r) \/ Stamp(r) \/ FulfillGranted(r)

Resolve(r) ==
    \/ \E admin \in Staff : CheckBulkCard(r, admin)
    \/ Refused(r)
    \/ \E g \in GrantIds : Issued(r, g) \/ AnswerLost(r, g)
    \/ Commit(r)
    \/ CommitFails(r)
    \/ Stamp(r)
    \/ FulfillGranted(r)

GrantsNext ==
    \/ ShopRuns
    \/ \E r \in Requests :
        \/ \E o \in OrderIds :
            \/ \E admin \in Staff :
                \/ \E amount \in CardAmounts : RequestCard(r, o, admin, amount)
                \/ RequestSilo(r, o, admin)
            \/ RequestBulkCard(r, o)
        \/ GiveUp(r)
        \/ LockRow(r)
        \/ Resolve(r)
    \/ Crash

GrantsSpec == GrantsInit /\ [][GrantsNext]_<<vars, grantVars>>

(* fetchWithTimeout bounds every call to a provider and every statement has *)
(* an outcome, so a request that can go on does; Postgres queues the        *)
(* waiters of a row lock, so one that keeps asking for it gets it.          *)
GrantsFairness == \A r \in Requests :
    /\ WF_<<vars, grantVars>>(Resolve(r))
    /\ SF_<<vars, grantVars>>(LockRow(r))
    /\ SF_<<vars, grantVars>>(Stamp(r))
    /\ SF_<<vars, grantVars>>(FulfillGranted(r))

FairGrantsSpec == GrantsSpec /\ GrantsFairness

-----------------------------------------------------------------------------
(* Properties.                                                              *)

(* The grant services implement the shop's view of them: whatever happens   *)
(* inside a grant transaction, the rows only see whole shop transactions    *)
(* and stamps.  It rests on the row lock, which keeps the entity saved at   *)
(* the end equal to the row read at the start.                              *)
ImplementsShop == Spec

(* A row locked by an open grant transaction is the one it read, carries no *)
(* id of that provider, and is locked by no other request.                  *)
LockedRowIsFresh ==
    \A r \in Requests : HoldsLock(r) =>
        /\ req[r].order \in OrderRows
        /\ req[r].row = orders[req[r].order]
        /\ req[r].row.grantId[req[r].provider] = None
        /\ \A s \in Requests \ {r} : HoldsLock(s) => req[s].order # req[r].order

(* Among the grants whose transaction committed them or still may, an order *)
(* has at most one per provider: a double click, a bulk batch that names an *)
(* order twice and a retry after a refusal all pay once.                    *)
OneGrantPerOrder ==
    \A g, h \in GrantIds \ (Unpaid \cup troubled) :
        /\ paid[g].order = paid[h].order
        /\ paid[g].provider = paid[h].provider
        => g = h

(* Money that left through a committed transaction stays on record: its     *)
(* order keeps its row and an id of that provider, whatever is merged,      *)
(* refunded or stamped over it later.                                       *)
CommittedGrantOnRecord ==
    \A g \in GrantIds \ (Unpaid \cup troubled) :
        \/ \E r \in Requests : req[r].stage = "issued" /\ req[r].id = g
        \/ /\ paid[g].order \in OrderRows
           /\ orders[paid[g].order].grantId[paid[g].provider] # None

(* Money is paid under a lock on a row that was fresh, once, and stays on   *)
(* record: all of the above.                                                *)
GrantsOnRecord == LockedRowIsFresh /\ OneGrantPerOrder /\ CommittedGrantOnRecord

(* What an order cost, for a bulk grant, and twice that for any other.      *)
WithinBudget(q) ==
    q.amount <= IF q.bulk THEN orders[q.order].pipesSpent ELSE 2 * orders[q.order].pipesSpent

(* A card grant is worth at most twice what the order cost, and a bulk one  *)
(* at most what it cost, also when the order was merged after it was priced.*)
CardWithinBudget ==
    \A g \in GrantIds \ Unpaid :
        paid[g].provider = "hcb" /\ paid[g].order \in OrderRows => WithinBudget(paid[g])

(* Every request ends: none waits for ever on a provider, a row lock or     *)
(* another request.                                                         *)
RequestsEnd == \A r \in Requests : req[r] # NoRequest ~> req[r] = NoRequest

-----------------------------------------------------------------------------
(* What the sources say and the code does not do.                           *)

(* silo.service.ts: "a null check on siloGrantId makes a duplicate grant    *)
(* impossible".  A lost answer or a failed commit leaves the row unstamped  *)
(* and the next request pays again.                                         *)
SiloPaysOnce ==
    \A g, h \in GrantIds \ Unpaid :
        /\ paid[g].provider = "silo" /\ paid[h].provider = "silo"
        /\ paid[g].order = paid[h].order
        => g = h

(* hcb.service.ts: the unlocked policy read may be stale because "the       *)
(* locked re-read still guards money".  The locked re-read does not look at *)
(* the status, so an order whose pipes were returned is paid out as well.   *)
NeverPaidAndRefunded ==
    \A g \in GrantIds \ (Unpaid \cup troubled) : refunds[paid[g].order] = 0
=============================================================================
