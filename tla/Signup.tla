-------------------------------- MODULE Signup ---------------------------------
(* One person signs in, maybe in several tabs, and RSVPs: the OAuth state   *)
(* cookie of the browser, the user row, and the record in Airtable that     *)
(* createRsvp looks for and then creates.  pendingEmails is memory of the   *)
(* backend; a POST to Airtable that was given up may still arrive.          *)
EXTENDS Naturals, FiniteSets

CONSTANTS
    Logins,       \* sign-ins, each with an OAuth state of its own
    Form,         \* the RSVP button of the landing page
    NoState,
    MaxLost       \* bound: POSTs to Airtable whose answer is not awaited

ASSUME SignupAssumption ==
    /\ IsFiniteSet(Logins) /\ Form \notin Logins /\ NoState \notin Logins
    /\ MaxLost \in Nat

VARIABLES
    cookie,       \* oauth_state
    flow,         \* each sign-in, at the page or in the backend
    rsvp,         \* each call of createRsvp
    pendingEmails,
    userRow,      \* the row of the user exists
    records,      \* records with the email in Airtable
    adrift,       \* POSTs given up that have not arrived
    gone          \* history: POSTs given up

signupVars == <<cookie, flow, rsvp, pendingEmails, userRow, records, adrift, gone>>

Callers == Logins \cup {Form}
InBackend == {"read", "insert", "update", "perms", "rsvp", "session"}

SignupTypeOK ==
    /\ cookie \in Logins \cup {NoState}
    /\ flow \in [Logins -> {"out", "away", "reply"} \cup InBackend]
    /\ rsvp \in [Callers -> {"idle", "lookup", "create"}]
    /\ pendingEmails \in BOOLEAN /\ userRow \in BOOLEAN
    /\ records \in Nat /\ adrift \in Nat /\ gone \in 0 .. MaxLost
    /\ \A l \in Logins : rsvp[l] # "idle" => flow[l] = "rsvp"

SignupInit ==
    /\ cookie = NoState
    /\ flow = [l \in Logins |-> "out"]
    /\ rsvp = [c \in Callers |-> "idle"]
    /\ pendingEmails = FALSE /\ userRow = FALSE
    /\ records = 0 /\ adrift = 0 /\ gone = 0

Moves(l, stage) == flow' = [flow EXCEPT ![l] = stage]
Turns(c, stage) == rsvp' = [rsvp EXCEPT ![c] = stage]

-----------------------------------------------------------------------------
(* The browser and the state cookie; each answer to a callback deletes the  *)
(* cookie, whichever sign-in it is of by then.                              *)

StartLogin(l) ==
    /\ flow[l] = "out"
    /\ cookie' = l /\ Moves(l, "away")
    /\ UNCHANGED <<rsvp, pendingEmails, userRow, records, adrift, gone>>

Callback(l) ==
    /\ flow[l] = "away"
    /\ Moves(l, IF cookie = l THEN "read" ELSE "reply")
    /\ UNCHANGED <<cookie, rsvp, pendingEmails, userRow, records, adrift, gone>>

Answer(l) ==
    /\ flow[l] = "reply"
    /\ cookie' = NoState /\ Moves(l, "out")
    /\ UNCHANGED <<rsvp, pendingEmails, userRow, records, adrift, gone>>

(* The provider refuses, or the user turns back.                            *)
TurnBack(l) ==
    /\ flow[l] \in {"away", "read"}
    /\ Moves(l, IF flow[l] = "read" THEN "reply" ELSE "out")
    /\ UNCHANGED <<cookie, rsvp, pendingEmails, userRow, records, adrift, gone>>

-----------------------------------------------------------------------------
(* upsertUser; then no session for the banned; the RSVP; the session.       *)

ReadUser(l) ==
    /\ flow[l] = "read"
    /\ Moves(l, IF userRow THEN "update" ELSE "insert")
    /\ UNCHANGED <<cookie, rsvp, pendingEmails, userRow, records, adrift, gone>>

SaveUser(l) ==
    /\ flow[l] \in {"insert", "update"}
    /\ userRow' = TRUE
    /\ Moves(l, IF flow[l] = "insert" /\ userRow THEN "update" ELSE "perms")
    /\ UNCHANGED <<cookie, rsvp, pendingEmails, records, adrift, gone>>

CheckPerms(l) ==
    /\ flow[l] = "perms"
    /\ \E stage \in {"rsvp"} \cup (IF records > 0 THEN {"reply"} ELSE {}) : Moves(l, stage)
    /\ UNCHANGED <<cookie, rsvp, pendingEmails, userRow, records, adrift, gone>>

CreateSession(l) ==
    /\ flow[l] = "session"
    /\ Moves(l, "reply")
    /\ UNCHANGED <<cookie, rsvp, pendingEmails, userRow, records, adrift, gone>>

-----------------------------------------------------------------------------
(* createRsvp.  A sign-in goes on whatever becomes of it.                   *)

Wants(c) == rsvp[c] = "idle" /\ (c \in Logins => flow[c] = "rsvp")
GoesOn(c) == flow' = IF c \in Logins THEN [flow EXCEPT ![c] = "session"] ELSE flow
Leaves(c) == Turns(c, "idle") /\ pendingEmails' = FALSE /\ GoesOn(c)

CheckRecords(c) ==                                  \* mutant: no pendingEmails
    /\ Wants(c)
    /\ Turns(c, "lookup") /\ pendingEmails' = TRUE
    /\ UNCHANGED <<cookie, flow, userRow, records, adrift, gone>>

EnterRsvp(c) ==
    /\ Wants(c) /\ ~pendingEmails
    /\ Turns(c, "lookup") /\ pendingEmails' = TRUE
    /\ UNCHANGED <<cookie, flow, userRow, records, adrift, gone>>

RefuseRsvp(c) ==
    /\ Wants(c) /\ pendingEmails /\ c # Form
    /\ GoesOn(c)
    /\ UNCHANGED <<cookie, rsvp, pendingEmails, userRow, records, adrift, gone>>

LookUpRecord(c) ==
    /\ rsvp[c] = "lookup"
    /\ \/ records = 0 /\ Turns(c, "create") /\ UNCHANGED <<flow, pendingEmails>>
       \/ Leaves(c)
    /\ UNCHANGED <<cookie, userRow, records, adrift, gone>>

CreateRecord(c) ==
    /\ rsvp[c] = "create"
    /\ records' = records + 1 /\ Leaves(c)
    /\ UNCHANGED <<cookie, userRow, adrift, gone>>

(* fetchWithTimeout gives the POST up; or Airtable refuses it.              *)
CreateFails(c) ==
    /\ rsvp[c] = "create"
    /\ Leaves(c)
    /\ \/ /\ gone < MaxLost
          /\ gone' = gone + 1 /\ adrift' = adrift + 1
       \/ UNCHANGED <<gone, adrift>>
    /\ UNCHANGED <<cookie, userRow, records>>

Arrive ==
    /\ adrift > 0
    /\ adrift' = adrift - 1
    /\ records' \in {records, records + 1}
    /\ UNCHANGED <<cookie, flow, rsvp, pendingEmails, userRow, gone>>

(* The backend restarts: its memory is lost, and every request in it fails. *)
RestartBackend ==
    LET posted == Cardinality({c \in Callers : rsvp[c] = "create"}) IN
    /\ gone + posted <= MaxLost
    /\ \/ \E c \in Callers : rsvp[c] # "idle"
       \/ \E l \in Logins : flow[l] \in InBackend
    /\ flow' = [l \in Logins |-> IF flow[l] \in InBackend THEN "reply" ELSE flow[l]]
    /\ rsvp' = [c \in Callers |-> "idle"]
    /\ pendingEmails' = FALSE
    /\ gone' = gone + posted /\ adrift' = adrift + posted
    /\ UNCHANGED <<cookie, userRow, records>>

SignupNext ==
    \/ \E l \in Logins :
        \/ StartLogin(l) \/ Callback(l) \/ Answer(l) \/ TurnBack(l)
        \/ ReadUser(l) \/ SaveUser(l) \/ CheckPerms(l) \/ CreateSession(l)
    \/ \E c \in Callers :
        \/ EnterRsvp(c) \/ RefuseRsvp(c) \/ LookUpRecord(c) \/ CreateRecord(c) \/ CreateFails(c)
    \/ Arrive \/ RestartBackend

SignupSpec == SignupInit /\ [][SignupNext]_signupVars

-----------------------------------------------------------------------------

(* createRsvp: a person has one record in Airtable, however many sign-ins   *)
(* and clicks race and wherever the backend dies, but for the requests to   *)
(* create one whose answer the backend never saw.  Every lookup of Perms    *)
(* takes the first record there is.                                         *)
OneRecord == records <= 1 + gone
=============================================================================
