------------------------------ MODULE HcbToken ------------------------------
(* HcbService: the one OAuth connection to HCB.  A row holds the token pair *)
(* of the organisation; HCB accepts a refresh token once and answers with   *)
(* the next pair.  Requests that need an access token read the row, and     *)
(* share one refresh when it has run out; an admin may reconnect meanwhile. *)
(* Pairs are numbered as HCB mints them.                                    *)
EXTENDS OneProcess, Naturals

CONSTANTS
    Connects,      \* reconnections under way at once
    MaxPairs       \* bound: token pairs HCB mints

ASSUME HcbTokenAssumption == MaxPairs \in Nat /\ None \notin Nat

VARIABLES
    row,           \* hcb_credentials: the pair stored, or None
    flight,        \* refreshInFlight
    call,          \* requests inside getValidAccessToken
    connect,       \* handleCallback: the pair each one holds
    minted,        \* HCB: pairs minted so far
    usable,        \* HCB: pairs whose refresh token was not used yet
    aged,          \* pairs whose access token has run out, or is about to
    lost           \* history: pairs that HCB replaced by one that was lost

hcbVars == <<row, flight, call, connect, minted, usable, aged, lost>>

Pairs == 1 .. MaxPairs
Grounded == [stage |-> "idle", old |-> None, new |-> None]
Away == [stage |-> "idle", cred |-> None]
Unconnected == [stage |-> "idle", new |-> None]

HcbTypeOK ==
    /\ row \in Pairs \cup {None}
    /\ flight \in [stage: {"idle", "posted", "answered", "saved"},
                   old: Pairs \cup {None}, new: Pairs \cup {None}]
    /\ flight.stage # "idle" => flight.old \in Pairs
    /\ flight.stage \in {"answered", "saved"} => flight.new \in Pairs
    /\ call \in [Requests -> [stage: {"idle", "reading", "read", "waiting"},
                              cred: Pairs \cup {None}]]
    /\ connect \in [Connects -> [stage: {"idle", "exchanging", "answered"},
                                  new: Pairs \cup {None}]]
    /\ \A a \in Connects : connect[a].stage = "answered" => connect[a].new \in Pairs
    /\ minted \in 0 .. MaxPairs
    /\ usable \subseteq Pairs /\ aged \subseteq Pairs /\ lost \subseteq Pairs

HcbInit ==
    /\ row = None
    /\ flight = Grounded
    /\ call = [r \in Requests |-> Away]
    /\ connect = [a \in Connects |-> Unconnected]
    /\ minted = 0
    /\ usable = {} /\ aged = {} /\ lost = {}

-----------------------------------------------------------------------------
(* getValidAccessToken.                                                     *)

Need(r) ==
    /\ call[r] = Away
    /\ call' = Turn(call, r, [stage |-> "reading", cred |-> None])
    /\ UNCHANGED <<row, flight, connect, minted, usable, aged, lost>>

ReadCredential(r) ==
    /\ call[r].stage = "reading"
    /\ call' = Turn(call, r, [stage |-> "read", cred |-> row])
    /\ UNCHANGED <<row, flight, connect, minted, usable, aged, lost>>

(* Not connected, or a token that lasts: the request has its answer.        *)
UseCredential(r) ==
    /\ call[r].stage = "read" /\ call[r].cred \notin aged
    /\ call' = Turn(call, r, Away)
    /\ UNCHANGED <<row, flight, connect, minted, usable, aged, lost>>

Departure(cred) == [stage |-> "posted", old |-> cred, new |-> None]

(* One run to the next await: the requests that find a refresh in flight    *)
(* wait for it, whatever row it started from.                               *)
JoinRefresh(r) ==
    /\ call[r].stage = "read" /\ call[r].cred \in aged
    /\ call' = Turn(call, r, [stage |-> "waiting", cred |-> call[r].cred])
    /\ flight' = IF flight = Grounded THEN Departure(call[r].cred) ELSE flight
    /\ UNCHANGED <<row, connect, minted, usable, aged, lost>>

-----------------------------------------------------------------------------
(* HCB: Doorkeeper's token endpoint.                                        *)

Mint(spent) ==
    /\ minted < MaxPairs
    /\ minted' = minted + 1
    /\ usable' = (usable \ spent) \cup {minted + 1}

(* The single use of a refresh token; the answer arrives, or it does not.   *)
Rotates ==
    /\ flight.stage = "posted" /\ flight.old \in usable
    /\ Mint({flight.old})

-----------------------------------------------------------------------------
(* refresh and persistTokens.                                               *)

ForgetOthers ==                             \* mutant: the requests that joined are not told
    flight' = Grounded /\ UNCHANGED call

(* The promise settles: finally clears the slot, the waiting requests go on *)
(* with the token or with the error.                                        *)
Settle ==
    /\ flight' = Grounded
    /\ call' = [r \in Requests |-> IF call[r].stage = "waiting" THEN Away ELSE call[r]]

Refreshed ==
    /\ Rotates
    /\ flight' = [flight EXCEPT !.stage = "answered", !.new = minted + 1]
    /\ UNCHANGED <<row, call, connect, aged, lost>>

(* The answer times out or carries no tokens.                               *)
RefreshLost ==
    /\ Rotates
    /\ lost' = lost \cup {flight.old}
    /\ Settle
    /\ UNCHANGED <<row, connect, aged>>

(* HCB does not take the refresh token.                                     *)
RefreshRefused ==
    /\ flight.stage = "posted" /\ flight.old \notin usable
    /\ Settle
    /\ UNCHANGED <<row, connect, minted, usable, aged, lost>>

(* HCB is down, or out of reach.                                            *)
RefreshFails ==
    /\ flight.stage = "posted"
    /\ Settle
    /\ UNCHANGED <<row, connect, minted, usable, aged, lost>>

SaveRefreshed ==
    /\ flight.stage = "answered"
    /\ row' = flight.new
    /\ flight' = [flight EXCEPT !.stage = "saved"]
    /\ UNCHANGED <<call, connect, minted, usable, aged, lost>>

SaveFails ==
    /\ flight.stage = "answered"
    /\ lost' = lost \cup {flight.old}
    /\ Settle
    /\ UNCHANGED <<row, connect, minted, usable, aged>>

(* The row is read once more, for the access token to hand out.             *)
HandOut ==
    /\ flight.stage = "saved"
    /\ Settle
    /\ UNCHANGED <<row, connect, minted, usable, aged, lost>>

-----------------------------------------------------------------------------
(* handleCallback: an admin connects the organisation again.                *)

StartConnect(a) ==
    /\ connect[a] = Unconnected
    /\ connect' = [connect EXCEPT ![a].stage = "exchanging"]
    /\ UNCHANGED <<row, flight, call, minted, usable, aged, lost>>

Exchanged(a) ==
    /\ connect[a].stage = "exchanging"
    /\ Mint({})
    /\ connect' = [connect EXCEPT ![a] = [stage |-> "answered", new |-> minted + 1]]
    /\ UNCHANGED <<row, flight, call, aged, lost>>

(* The code is refused, an answer or the save is lost: no row is touched.   *)
ConnectFails(a) ==
    /\ connect[a] # Unconnected
    /\ connect' = [connect EXCEPT ![a] = Unconnected]
    /\ UNCHANGED <<row, flight, call, minted, usable, aged, lost>>

SaveConnected(a) ==
    /\ connect[a].stage = "answered"
    /\ row' = connect[a].new
    /\ connect' = [connect EXCEPT ![a] = Unconnected]
    /\ UNCHANGED <<flight, call, minted, usable, aged, lost>>

-----------------------------------------------------------------------------
(* Two hours pass, less a minute.                                           *)
Expire(p) ==
    /\ p \in 1 .. minted /\ p \notin aged
    /\ aged' = aged \cup {p}
    /\ UNCHANGED <<row, flight, call, connect, minted, usable, lost>>

HcbCrash ==
    /\ flight' = Grounded
    /\ call' = [r \in Requests |-> Away]
    /\ connect' = [a \in Connects |-> Unconnected]
    /\ lost' = IF flight.stage = "answered" THEN lost \cup {flight.old} ELSE lost
    /\ <<flight, call, connect>>' # <<flight, call, connect>>
    /\ UNCHANGED <<row, minted, usable, aged>>

Caller(r) == ReadCredential(r) \/ UseCredential(r) \/ JoinRefresh(r)

Flight == Refreshed \/ RefreshLost \/ RefreshRefused \/ RefreshFails
            \/ SaveRefreshed \/ SaveFails \/ HandOut

HcbNext ==
    \/ \E r \in Requests : Need(r) \/ Caller(r)
    \/ Flight
    \/ \E a \in Connects :
        StartConnect(a) \/ Exchanged(a) \/ ConnectFails(a) \/ SaveConnected(a)
    \/ \E p \in Pairs : Expire(p)
    \/ HcbCrash

HcbSpec == HcbInit /\ [][HcbNext]_hcbVars

(* fetchWithTimeout bounds the call to HCB; every statement has an outcome. *)
HcbFairness == WF_hcbVars(Flight) /\ \A r \in Requests : WF_hcbVars(Caller(r))

-----------------------------------------------------------------------------
(* Properties.                                                              *)

(* persistTokens: the stored refresh token is one HCB still takes, or its   *)
(* successor is on the way to the row, or a failure lost the successor.     *)
(* However many requests and reconnections race, none leaves a spent token. *)
StoredTokenWorks ==
    row # None =>
        \/ row \in usable
        \/ row \in lost
        \/ flight.stage = "answered" /\ flight.old = row

(* refresh: "HCB connection expired" is told to an admin only when it has,  *)
(* or when the request had read a row that was replaced in the meantime:    *)
(* requests that read the same row share one refresh.                       *)
RefusedOnlyWhenStale == [][
    RefreshRefused => row \in lost \/ flight.old # row]_hcbVars

(* getValidAccessToken: every request gets a token or an error.             *)
CallsEnd == \A r \in Requests : call[r] # Away ~> call[r] = Away

(* The connection is kept: by what is stored, by what the admins are told   *)
(* of it, and by every request coming to an end.                            *)
ConnectionKept == []StoredTokenWorks /\ RefusedOnlyWhenStale /\ CallsEnd
=============================================================================
