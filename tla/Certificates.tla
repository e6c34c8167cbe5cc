---------------------------- MODULE Certificates ----------------------------
(* CertificateService and the requests that save whole orders: one buyer,   *)
(* whose fulfilled orders add up to one certificate for goods and one for   *)
(* grants.  Each request reads, computes and writes without a lock; unique  *)
(* indexes are all that arbitrates.                                         *)
EXTENDS OneProcess, Integers, FiniteSets, FiniteSetsExt

CONSTANTS
    CertOrders,      \* orders of one buyer
    GrantOrders,     \* those of items that are grants
    Price,           \* pipesSpent of each
    ItemOf,          \* itemName of each
    MinPipes,        \* 30: spent before a certificate is issued
    BuyerRequests, StaffRequests, PageRequests  \* bound: what each request may be

OrderRow == [status: {"pending", "fulfilled", "cancelled"},
             wanted: BOOLEAN \cup {None}, granted: BOOLEAN]

ASSUME CertificatesAssumption ==
    /\ BuyerRequests \cup StaffRequests \cup PageRequests \subseteq Requests
    /\ GrantOrders \subseteq CertOrders
    /\ Price \in [CertOrders -> Nat]
    /\ MinPipes \in Nat \ {0}
    /\ None \notin OrderRow

VARIABLES
    orders,          \* wanted: certificateRequested; granted: a provider's id is stamped
    certificates,    \* award: the orders whose items and pipes it names
    errand           \* requests, with the order each one read

certVars == <<orders, certificates, errand>>

Certificate == [order: CertOrders, grant: BOOLEAN, award: SUBSET CertOrders]

NoErrand == [stage |-> "idle", for |-> None, order |-> None, row |-> None,
             grant |-> FALSE, award |-> {}, cert |-> None, left |-> {}]

(* user_id, award_item: the names of the items, not the orders.             *)
Names(award) == {ItemOf[o] : o \in award}

(* UQ_certificates_order_id, _normal_user and _grant_user_award.            *)
KeysAllow(c, others) == \A d \in others :
    /\ d.order # c.order
    /\ d.grant = c.grant => c.grant /\ Names(d.award) # Names(c.award)

CertificatesTypeOK ==
    /\ orders \in [CertOrders -> OrderRow]
    /\ certificates \subseteq Certificate
    /\ \A c \in certificates : KeysAllow(c, certificates \ {c})
    /\ errand \in [Requests ->
        [stage: {"idle", "prefer", "undo", "fields", "order", "sum", "find", "insert", "update"},
         for: {"prefer", "fulfil", "sync", None},
         order: CertOrders \cup {None}, row: OrderRow \cup {None}, grant: BOOLEAN,
         award: SUBSET CertOrders, cert: Certificate \cup {None}, left: SUBSET CertOrders]]

CertificatesInit ==
    /\ orders = [o \in CertOrders |->
                    [status |-> "pending", wanted |-> None, granted |-> FALSE]]
    /\ certificates = {}
    /\ errand = [r \in Requests |-> NoErrand]

IsGrant(o) == o \in GrantOrders \/ orders[o].granted
Pipes(award) == FoldSet(LAMBDA o, n : Price[o] + n, 0, award)

-----------------------------------------------------------------------------
(* Orders.                                                                  *)

Generate(o, for) == [NoErrand EXCEPT !.stage = "order", !.for = for, !.order = o]

FulfillCertOrder(r, o) ==
    /\ errand[r] = NoErrand /\ orders[o].status = "pending"
    /\ orders' = [orders EXCEPT ![o].status = "fulfilled"]
    /\ errand' = IF orders[o].wanted = TRUE THEN Turn(errand, r, Generate(o, "fulfil")) ELSE errand
    /\ UNCHANGED certificates

RefundCertOrder(o) ==
    /\ orders[o].status # "cancelled" /\ ~orders[o].granted
    /\ orders' = [orders EXCEPT ![o].status = "cancelled"]
    /\ UNCHANGED <<certificates, errand>>

StampOrder(o) ==
    /\ ~orders[o].granted
    /\ orders' = [orders EXCEPT ![o].granted = TRUE]
    /\ UNCHANGED <<certificates, errand>>

(* setCertificatePreference, read and save.                                 *)
Prefer(r, o, wanted) ==
    /\ errand[r] = NoErrand
    /\ orders[o].status = "fulfilled" /\ orders[o].wanted = None
    /\ errand' = Turn(errand, r, [NoErrand EXCEPT !.stage = "prefer", !.for = "prefer",
                        !.order = o, !.row = [orders[o] EXCEPT !.wanted = wanted]])
    /\ UNCHANGED <<orders, certificates>>

SavePreference(r) ==
    LET e == errand[r] IN
    /\ e.stage = "prefer"
    /\ orders' = [orders EXCEPT ![e.order] = e.row]
    /\ errand' = Turn(errand, r, IF e.row.wanted THEN [e EXCEPT !.stage = "order"] ELSE NoErrand)
    /\ UNCHANGED certificates

(* No certificate yet: the choice is taken back, with the same entity.      *)
UndoPreference(r) ==
    /\ errand[r].stage = "undo"
    /\ orders' = [orders EXCEPT ![errand[r].order] = [errand[r].row EXCEPT !.wanted = None]]
    /\ errand' = Turn(errand, r, NoErrand)
    /\ UNCHANGED certificates

(* SidekickService.updateOrderFields: notes are edited on the whole row.    *)
EditFields(r, o) ==
    /\ errand[r] = NoErrand
    /\ errand' = Turn(errand, r,
        [NoErrand EXCEPT !.stage = "fields", !.order = o, !.row = orders[o]])
    /\ UNCHANGED <<orders, certificates>>

SaveFields(r) ==
    /\ errand[r].stage = "fields"
    /\ orders' = [orders EXCEPT ![errand[r].order] = errand[r].row]
    /\ errand' = Turn(errand, r, NoErrand)
    /\ UNCHANGED certificates

-----------------------------------------------------------------------------
(* generateCertificateForOrder, one step to each statement it awaits.       *)

(* What its caller does next.  sync goes on whatever happened.              *)
AfterSync(r) ==
    \/ /\ errand[r].left = {} /\ errand' = Turn(errand, r, NoErrand)
    \/ \E o \in errand[r].left :
        errand' = Turn(errand, r, [Generate(o, "sync") EXCEPT !.left = errand[r].left \ {o}])

Issued(r) ==
    IF errand[r].for = "sync" THEN AfterSync(r) ELSE errand' = Turn(errand, r, NoErrand)
Throws(r) == Issued(r)

NoCertificate(r) ==
    IF errand[r].for = "prefer" THEN errand' = [errand EXCEPT ![r].stage = "undo"]
    ELSE Issued(r)

ReadOrder(r) ==
    LET o == errand[r].order IN
    /\ errand[r].stage = "order"
    /\ IF orders[o].wanted = TRUE /\ orders[o].status = "fulfilled"
       THEN errand' = [errand EXCEPT ![r].stage = "sum", ![r].grant = IsGrant(o)]
       ELSE NoCertificate(r)
    /\ UNCHANGED <<orders, certificates>>

Fulfilled(grant) == {o \in CertOrders : orders[o].status = "fulfilled" /\ IsGrant(o) = grant}

AddUp(r) ==
    LET award == Fulfilled(errand[r].grant) IN
    /\ errand[r].stage = "sum"
    /\ IF Pipes(award) >= MinPipes
       THEN errand' = [errand EXCEPT ![r].stage = "find", ![r].award = award,
                                   ![r].row = None]
       ELSE NoCertificate(r)
    /\ UNCHANGED <<orders, certificates>>

OfClass(grant) == {c \in certificates : c.grant = grant}

FindAny(r) ==                                       \* mutant: an issued one is left as it is
    /\ errand[r].stage = "find"
    /\ IF OfClass(errand[r].grant) = {}
       THEN errand' = [errand EXCEPT ![r].stage = "insert"]
       ELSE Issued(r)
    /\ UNCHANGED <<orders, certificates>>

FindCertificate(r) ==
    /\ errand[r].stage = "find"
    /\ \/ /\ OfClass(errand[r].grant) = {}
          /\ errand' = [errand EXCEPT ![r].stage = "insert"]
       \/ \E c \in OfClass(errand[r].grant) :
            IF c.award = errand[r].award THEN Issued(r)
            ELSE errand' = [errand EXCEPT ![r].stage = "update", ![r].cert = c]
    /\ UNCHANGED <<orders, certificates>>

UpdateCertificate(r) ==
    LET old == {c \in certificates : c.order = errand[r].cert.order}
        new == [errand[r].cert EXCEPT !.award = errand[r].award]
    IN
    /\ errand[r].stage = "update"
    /\ IF KeysAllow(new, certificates \ old)
       THEN certificates' = (certificates \ old) \cup {new} /\ Issued(r)
       ELSE Throws(r) /\ UNCHANGED certificates
    /\ UNCHANGED orders

InsertBlindly(r) ==                                 \* mutant: no index
    LET c == [order |-> errand[r].order, grant |-> errand[r].grant, award |-> errand[r].award] IN
    /\ errand[r].stage = "insert"
    /\ certificates' = certificates \cup {c} /\ Issued(r)
    /\ UNCHANGED orders

(* Goods are filed under the first order found, grants under the one asked  *)
(* for.  Refused by an index: the certificate that won is returned.         *)
InsertCertificate(r) ==
    /\ errand[r].stage = "insert"
    /\ \E o \in IF errand[r].grant THEN {errand[r].order} ELSE errand[r].award :
        LET c == [order |-> o, grant |-> errand[r].grant, award |-> errand[r].award] IN
        IF KeysAllow(c, certificates)
        THEN certificates' = certificates \cup {c} /\ Issued(r)
        ELSE /\ IF OfClass(c.grant) # {} THEN Issued(r) ELSE Throws(r)
             /\ UNCHANGED certificates
    /\ UNCHANGED orders

(* syncCertificatesForUser, whenever the page of certificates is opened.    *)
Sync(r) ==
    LET wanted == {o \in CertOrders : orders[o].status = "fulfilled" /\ orders[o].wanted = TRUE} IN
    /\ errand[r] = NoErrand
    /\ \E o \in wanted :
        errand' = Turn(errand, r, [Generate(o, "sync") EXCEPT !.left = wanted \ {o}])
    /\ UNCHANGED <<orders, certificates>>

CertificatesCrash ==
    /\ \E r \in Requests : errand[r] # NoErrand
    /\ errand' = [r \in Requests |-> NoErrand]
    /\ UNCHANGED <<orders, certificates>>

-----------------------------------------------------------------------------
Errand(r) ==
    \/ SavePreference(r) \/ UndoPreference(r) \/ SaveFields(r)
    \/ ReadOrder(r) \/ AddUp(r) \/ FindCertificate(r)
    \/ UpdateCertificate(r) \/ InsertCertificate(r)

CertificatesNext ==
    \/ \E o \in CertOrders :
        \/ \E r \in StaffRequests : FulfillCertOrder(r, o) \/ EditFields(r, o)
        \/ \E r \in BuyerRequests, wanted \in BOOLEAN : Prefer(r, o, wanted)
    \/ \E r \in PageRequests : Sync(r)
    \/ \E r \in Requests : Errand(r)
    \/ \E o \in CertOrders : RefundCertOrder(o) \/ StampOrder(o)
    \/ CertificatesCrash

CertificatesSpec == CertificatesInit /\ [][CertificatesNext]_certVars
CertificatesFairness == \A r \in Requests : WF_certVars(Errand(r))

-----------------------------------------------------------------------------
(* Properties.                                                              *)

OrderKept(o) ==
    \/ /\ orders[o].status # "pending" => orders'[o].status \in {orders[o].status, "cancelled"}
       /\ orders[o].granted => orders'[o].granted
       /\ orders[o].wanted # None => orders'[o].wanted = orders[o].wanted
    \/ \E r \in Requests : errand[r].order = o /\
        (errand[r].stage = "undo" \/ (errand[r].row # None /\ errand[r].row # orders[o]))

(* A fulfilled order stays so until it is refunded, a refund and a grant's  *)
(* stamp are final, and the choice about the certificate is made once:      *)
(* unless a request saves an order that changed after it was read, or takes *)
(* its own choice back.                                                     *)
OrdersKept == [][\A o \in CertOrders : OrderKept(o)]_certVars

Wanted(grant) == {o \in Fulfilled(grant) : orders[o].wanted = TRUE}

(* The certificate of a class names all its fulfilled orders.  Not once     *)
(* there are two, or one is filed under an order that changed class.        *)
Current == \A grant \in BOOLEAN :
    Wanted(grant) # {} /\ Pipes(Fulfilled(grant)) >= MinPipes =>
        \/ \E c \in OfClass(grant) : c.award = Fulfilled(grant)
        \/ Cardinality(OfClass(grant)) > 1
        \/ \E c \in certificates : c.grant # IsGrant(c.order)

OnlySyncs == \E r \in Requests : Sync(r) \/ (errand[r].for = "sync" /\ Errand(r))

(* syncCertificatesForUser: opening the page is enough, however often and   *)
(* by however many tabs, to bring the certificates up to date, whatever     *)
(* crashed or raced before.                                                 *)
SyncCatchesUp ==
    (<>[][OnlySyncs]_certVars /\ []<><<OnlySyncs>>_certVars) => <>[]Current

(* Orders keep what was decided of them, and the certificates follow.       *)
CertificatesFollow == OrdersKept /\ SyncCatchesUp
=============================================================================
