------------------------------- MODULE Sessions -------------------------------
(* One user's browser, the frontend that proxies its requests, and the      *)
(* backend's sessions.  The browser holds an access token (a JWT of one     *)
(* hour) and a refresh token (a session row of 90 days, slid on each use).  *)
(* Parallel requests each carry a copy of the cookies and hand back what    *)
(* they changed; the backend forgets everything but the rows when it dies.  *)
EXTENDS Naturals, OneProcess

CONSTANTS
    Tokens,       \* refresh tokens, one per login
    Kinds,        \* what it asks for: "page" (getAuthenticatedUser), "logout",
                  \* "profile" (nickname, gender) and "proxy" (proxyWithRefresh)
    MaxOutages    \* bound: failures of Airtable and of the database

ASSUME SessionsAssumption ==
    /\ MaxOutages \in Nat
    /\ None \notin Tokens
    /\ Kinds \subseteq {"proxy", "profile", "page", "logout"}

VARIABLES
    sessions,     \* the row of each refresh token
    banned,       \* the user's Perms in Airtable are 'Banned'
    jar,          \* the browser's cookies
    req,          \* each request, with the cookies it carries
    ended,        \* history: sessions logged out of, expired or banned
    loggedOut,    \* history: sessions the user logged out of
    outages

vars == <<sessions, banned, jar, req, ended, loggedOut, outages>>

Stages == {"idle", "forward", "refresh", "perms", "expired", "banned", "save",
           "logout", "reply"}
Access == {"fresh", "old", None}       \* a JWT within its hour, past it, no cookie

Request == [kind: Kinds \cup {None}, stage: Stages, auth: Access, refresh: Tokens \cup {None},
            writes: SUBSET {"auth", "refresh"}, tried: BOOLEAN,
            excused: BOOLEAN]          \* history: answered for being throttled, or
                                       \* because the database failed it

Idle == [kind |-> None, stage |-> "idle", auth |-> None, refresh |-> None,
         writes |-> {}, tried |-> FALSE, excused |-> FALSE]

SessionsTypeOK ==
    /\ sessions \in [Tokens -> {"unused", "live", "expired", "gone"}]
    /\ banned \in BOOLEAN
    /\ jar \in [auth: Access, refresh: Tokens \cup {None}]
    /\ req \in [Requests -> Request]
    /\ \A r \in Requests :
        req[r].stage \in Stages \ {"idle", "forward", "reply"} => req[r].refresh \in Tokens
    /\ ended \subseteq Tokens /\ loggedOut \subseteq Tokens
    /\ outages \in 0 .. MaxOutages

SessionsInit ==
    /\ sessions = [t \in Tokens |-> "unused"]
    /\ banned = FALSE
    /\ jar = [auth |-> None, refresh |-> None]
    /\ req = [r \in Requests |-> Idle]
    /\ ended = {} /\ loggedOut = {}
    /\ outages = 0

Outage == outages < MaxOutages /\ outages' = outages + 1

-----------------------------------------------------------------------------
(* The frontend: what becomes of a request.                                 *)

(* An answer hands back the cookies the request has changed, and no others. *)
Answered(q) ==
    [Idle EXCEPT !.kind = q.kind, !.stage = "reply", !.writes = q.writes,
                 !.auth = IF "auth" \in q.writes THEN q.auth ELSE None,
                 !.refresh = IF "refresh" \in q.writes THEN q.refresh ELSE None]

(* Both cookies are deleted, whether or not the request carried them.       *)
GivenUp(q) == Answered([q EXCEPT !.auth = None, !.refresh = None,
                                 !.writes = {"auth", "refresh"}])

(* tryRefreshToken, or step 2 of getAuthenticatedUser.                      *)
Renewing(q) ==
    CASE q.refresh # None -> [q EXCEPT !.stage = "refresh"]
      [] q.refresh = None /\ q.kind = "page" -> GivenUp(q)
      [] OTHER -> Answered([q EXCEPT !.auth = None, !.writes = {"auth"}])

(* The backend answered 401, or anything but 200 to a page.  One retry.     *)
Unauthorized(q) ==
    CASE ~q.tried -> Renewing([q EXCEPT !.tried = TRUE])
      [] q.tried /\ q.kind = "page" -> GivenUp(q)
      [] OTHER -> Answered(q)

Started(q) ==
    CASE q.kind = "logout" ->
            IF q.refresh = None THEN GivenUp(q)
            ELSE [q EXCEPT !.stage = "logout", !.auth = None]
      [] q.kind # "logout" /\ q.auth # None -> [q EXCEPT !.stage = "forward"]
      [] OTHER -> Renewing([q EXCEPT !.tried = q.kind = "page"])

Put(r, q) == req' = Turn(req, r, q)

-----------------------------------------------------------------------------
(* The browser.                                                             *)

Send(r, kind) ==
    /\ req[r] = Idle
    /\ Put(r, Started([Idle EXCEPT !.kind = kind, !.auth = jar.auth, !.refresh = jar.refresh]))
    /\ UNCHANGED <<sessions, banned, jar, ended, loggedOut, outages>>

(* Set-Cookie: only what the request changed.                               *)
Reply(r) ==
    /\ req[r].stage = "reply"
    /\ jar' = [auth |-> IF "auth" \in req[r].writes THEN req[r].auth ELSE jar.auth,
               refresh |-> IF "refresh" \in req[r].writes THEN req[r].refresh ELSE jar.refresh]
    /\ Put(r, Idle)
    /\ UNCHANGED <<sessions, banned, ended, loggedOut, outages>>

(* The browser does not wait, or the backend dies or is out of reach: the   *)
(* frontend then answers without it, with the cookies changed so far.       *)
Lost(r) ==
    /\ req[r].stage # "idle"
    /\ \E q \in {Idle, Answered(req[r])} : Put(r, q)
    /\ UNCHANGED <<sessions, banned, jar, ended, loggedOut, outages>>

(* handleCallback: no session for the banned, unless the lookup fails.      *)
Login(t) ==
    /\ sessions[t] = "unused"
    /\ IF banned THEN Outage ELSE UNCHANGED outages
    /\ sessions' = [sessions EXCEPT ![t] = "live"]
    /\ jar' = [auth |-> "fresh", refresh |-> t]
    /\ UNCHANGED <<banned, req, ended, loggedOut>>

-----------------------------------------------------------------------------
(* The backend.                                                             *)

(* A route behind JwtAuthGuard; a page asks /me, which looks the ban up and *)
(* lets the user pass if the lookup fails; a profile edit signs a new JWT.  *)
Forward(r) ==
    LET q == req[r] IN
    /\ q.stage = "forward"
    /\ \/ /\ q.auth = "fresh"
          /\ Put(r, Answered(IF q.kind = "profile" THEN [q EXCEPT !.writes = @ \cup {"auth"}]
                                                    ELSE q))
       \/ /\ q.auth = "old" \/ (q.kind = "page" /\ banned)
          /\ Put(r, Unauthorized(q))
    /\ UNCHANGED <<sessions, banned, jar, ended, loggedOut, outages>>

(* 429: the throttler, which counts refreshes of everyone together.  The    *)
(* proxy passes it on; a page and a refresh take it for a failure.          *)
Throttled(r) ==
    LET q == req[r]
        next == CASE q.stage = "refresh" -> GivenUp(q)
                  [] q.stage = "forward" /\ q.kind = "page" -> Unauthorized(q)
                  [] OTHER -> Answered(q)
    IN
    /\ q.stage \in {"forward", "refresh"}
    /\ Put(r, [next EXCEPT !.excused = next.stage = "reply"])
    /\ UNCHANGED <<sessions, banned, jar, ended, loggedOut, outages>>

InvertExpiry(r) ==                                  \* mutant: expiresAt > now
    LET q == req[r] IN
    /\ q.stage = "refresh"
    /\ Put(r, CASE sessions[q.refresh] = "expired" -> [q EXCEPT !.stage = "perms"]
                [] sessions[q.refresh] = "live" -> [q EXCEPT !.stage = "expired"]
                [] OTHER -> GivenUp(q))
    /\ UNCHANGED <<sessions, banned, jar, ended, loggedOut, outages>>

(* refreshAuth.  The session read here is the one saved at the end.         *)
ReadSession(r) ==
    LET q == req[r] IN
    /\ q.stage = "refresh"
    /\ Put(r, CASE sessions[q.refresh] = "live" -> [q EXCEPT !.stage = "perms"]
                [] sessions[q.refresh] = "expired" -> [q EXCEPT !.stage = "expired"]
                [] OTHER -> GivenUp(q))
    /\ UNCHANGED <<sessions, banned, jar, ended, loggedOut, outages>>

NoBanCheck(r) ==                                    \* mutant: perms not looked at
    /\ req[r].stage = "perms"
    /\ Put(r, [req[r] EXCEPT !.stage = "save"])
    /\ UNCHANGED <<sessions, banned, jar, ended, loggedOut, outages>>

CheckBan(r) ==
    /\ req[r].stage = "perms"
    /\ Put(r, [req[r] EXCEPT !.stage = IF banned THEN "banned" ELSE "save"])
    /\ UNCHANGED <<sessions, banned, jar, ended, loggedOut, outages>>

RemoveSession(r) ==
    /\ req[r].stage \in {"expired", "banned"}
    /\ sessions' = [sessions EXCEPT ![req[r].refresh] = "gone"]
    /\ Put(r, GivenUp(req[r]))
    /\ UNCHANGED <<banned, jar, ended, loggedOut, outages>>

(* The lookup throws, or the DELETE does: the same catch lets both pass.    *)
FailOpen(r) ==
    /\ req[r].stage \in {"perms", "banned"} /\ Outage
    /\ Put(r, [req[r] EXCEPT !.stage = "save"])
    /\ UNCHANGED <<sessions, banned, jar, ended, loggedOut>>

(* findOne, a DELETE or save throws, committed all the same or not.  To a   *)
(* refresh that is a 401, and the frontend deletes both cookies, as it does *)
(* on a logout, whatever the answer.                                        *)
DatabaseFails(r) ==
    LET q == req[r]
        written == CASE q.stage = "save" -> "live"
                     [] q.stage \in {"expired", "logout"} -> "gone"
                     [] OTHER -> sessions[q.refresh]
    IN
    /\ q.stage \in {"refresh", "expired", "save", "logout"} /\ Outage
    /\ Put(r, [GivenUp(q) EXCEPT !.excused = TRUE])
    /\ sessions' \in {sessions, [sessions EXCEPT ![q.refresh] = written]}
    /\ ended' = IF q.stage = "logout" THEN ended \cup {q.refresh} ELSE ended
    /\ UNCHANGED <<banned, jar, loggedOut>>

Minted(q) == [q EXCEPT !.stage = "forward", !.auth = "fresh", !.writes = {"auth", "refresh"}]

(* save(session): an UPDATE, or an INSERT if the row is gone; then a JWT.   *)
SaveSession(r) ==
    /\ req[r].stage = "save"
    /\ sessions' = [sessions EXCEPT ![req[r].refresh] = "live"]
    /\ Put(r, Minted(req[r]))
    /\ UNCHANGED <<banned, jar, ended, loggedOut, outages>>

InvalidateSession(r) ==
    /\ req[r].stage = "logout"
    /\ sessions' = [sessions EXCEPT ![req[r].refresh] = "gone"]
    /\ Put(r, GivenUp(req[r]))
    /\ ended' = ended \cup {req[r].refresh}
    /\ loggedOut' = loggedOut \cup {req[r].refresh}
    /\ UNCHANGED <<banned, jar, outages>>

-----------------------------------------------------------------------------
(* Time and the staff.                                                      *)

(* An hour passes: every JWT is too old, but for one minted during the very *)
(* request that carries it.  The browser may drop the cookie.               *)
Hour ==
    /\ \/ jar.auth = "fresh"
       \/ \E r \in Requests : req[r].auth = "fresh" /\ "auth" \notin req[r].writes
    /\ jar' \in {[jar EXCEPT !.auth = a] : a \in IF jar.auth = None THEN {None} ELSE {"old", None}}
    /\ req' = [r \in Requests |->
                IF req[r].auth = "fresh" /\ "auth" \notin req[r].writes
                THEN [req[r] EXCEPT !.auth = "old"] ELSE req[r]]
    /\ UNCHANGED <<sessions, banned, ended, loggedOut, outages>>

(* Ninety days without a refresh.                                           *)
ExpireSession(t) ==
    /\ sessions[t] = "live"
    /\ sessions' = [sessions EXCEPT ![t] = "expired"]
    /\ ended' = ended \cup {t}
    /\ UNCHANGED <<banned, jar, req, loggedOut, outages>>

Ban ==
    /\ ~banned
    /\ banned' = TRUE
    /\ ended' = Tokens
    /\ UNCHANGED <<sessions, jar, req, loggedOut, outages>>

-----------------------------------------------------------------------------
Backend(r) ==
    Forward(r) \/ ReadSession(r) \/ CheckBan(r) \/ RemoveSession(r) \/ SaveSession(r)
        \/ InvalidateSession(r)

SessionsNext ==
    \/ \E r \in Requests :
        \/ \E kind \in Kinds : Send(r, kind)
        \/ Reply(r) \/ Lost(r) \/ Backend(r) \/ Throttled(r) \/ FailOpen(r)
        \/ DatabaseFails(r)
    \/ \E t \in Tokens : Login(t) \/ ExpireSession(t)
    \/ Hour \/ Ban

SessionsSpec == SessionsInit /\ [][SessionsNext]_vars

(* A request is answered or times out, and time passes.                     *)
SessionsFairness ==
    /\ \A r \in Requests : WF_vars(Reply(r) \/ Backend(r))
    /\ WF_vars(Hour)

FairSessionsSpec == SessionsSpec /\ SessionsFairness

-----------------------------------------------------------------------------
(* Properties.                                                              *)

(* A request with a token has its cookies deleted.                          *)
TurnedAway(r) ==
    /\ req[r].refresh # None /\ req[r].stage # "reply"
    /\ req'[r].stage = "reply" /\ "refresh" \in req'[r].writes /\ req'[r].refresh = None

(* Refreshing in parallel is harmless: no request is turned away whose      *)
(* session nobody logged out of, banned or let expire, however many refresh *)
(* at once, whatever answers are lost and however often a ban cannot be     *)
(* looked up (refreshAuth does not rotate the token), unless the throttler  *)
(* refuses it or the database fails while the refresh reads or saves.       *)
ParallelRefreshIsHarmless == [][\A r \in Requests :
    TurnedAway(r) /\ ~req'[r].excused => req[r].refresh \in ended']_vars

(* refreshAuth: a banned user is locked out within the life of a JWT: from  *)
(* some point on the browser holds none that is accepted.                   *)
BannedIsLockedOut == <>[](banned => jar.auth # "fresh")

ProfileEdit == \E r \in Requests : req[r].kind = "profile" /\ Forward(r)

(* ... once the user no longer edits the profile, each edit of which signs  *)
(* another token of an hour.                                                *)
LockedOutAfterLastEdit == <>[][~ProfileEdit]_vars => BannedIsLockedOut

-----------------------------------------------------------------------------
(* What the sources say and the code does not do.                           *)

(* refreshAuth: logout deletes the row and the next refresh fails.          *)
LogoutIsFinal == \A t \in loggedOut : sessions[t] = "gone"
=============================================================================
