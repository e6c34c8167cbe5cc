---------------------------- MODULE ServicesProofs ----------------------------
(* Theorems of what MCServices puts together: the sessions of a browser,    *)
(* for any number of logins and of parallel requests; the HCB connection,   *)
(* for any number of requests, reconnections and pairs; devlogs and         *)
(* timelapses, for any number of projects and requests; certificates, for   *)
(* any orders of a buyer; and the type of the whole.                        *)
EXTENDS MCServices, FiniteSetTheorems, TLAPS

(* A stage whose next step looks at the session row.                        *)
Active == Stages \ {"idle", "forward", "reply"}

(* A well-formed request.                                                   *)
Formed(q) == q \in Request /\ (q.stage \in Active => q.refresh \in Tokens)

LEMMA IdleFormed == Formed(Idle) /\ Idle.stage = "idle" /\ Idle.refresh = None
    BY DEF Formed, Idle, Request, Active, Stages, Access

(* What an answer keeps of a request.                                       *)
LEMMA AnsweredIs ==
    ASSUME NEW q \in Request
    PROVE  /\ Formed(Answered(q)) /\ Answered(q).stage = "reply"
           /\ Answered(q).writes = q.writes
           /\ "refresh" \in q.writes => Answered(q).refresh = q.refresh
           /\ "refresh" \notin q.writes => Answered(q).refresh = None
    BY DEF Answered, Formed, Idle, Request, Active, Stages, Access

(* A request that gives up has no token left.                               *)
LEMMA GivenUpIs ==
    ASSUME NEW q \in Request
    PROVE  Formed(GivenUp(q)) /\ GivenUp(q).stage = "reply" /\ GivenUp(q).refresh = None
<1> DEFINE p == [q EXCEPT !.auth = None, !.refresh = None, !.writes = {"auth", "refresh"}]
<1>1. p \in Request /\ p.refresh = None /\ p.writes = {"auth", "refresh"}
    BY DEF Request, Access
<1> QED BY <1>1, AnsweredIs DEF GivenUp

(* A request that renews its token goes on with the one it has, or ends.    *)
LEMMA RenewingIs ==
    ASSUME NEW q, Formed(q)
    PROVE  /\ Formed(Renewing(q))
           /\ q.refresh # None => Renewing(q) = [q EXCEPT !.stage = "refresh"]
           /\ q.refresh = None => Renewing(q).stage = "reply" /\ Renewing(q).refresh = None
<1>1. CASE q.refresh # None
    BY <1>1 DEF Renewing, Formed, Request, Active, Stages
<1>2. CASE q.refresh = None /\ q.kind = "page"
    BY <1>2, GivenUpIs DEF Renewing, Formed
<1>3. CASE q.refresh = None /\ q.kind # "page"
    <2> DEFINE p == [q EXCEPT !.auth = None, !.writes = {"auth"}]
    <2>1. p \in Request /\ p.writes = {"auth"}
        BY DEF Formed, Request, Access
    <2>2. Renewing(q) = Answered(p)
        BY <1>3 DEF Renewing
    <2> QED BY <1>3, <2>1, <2>2, AnsweredIs
<1> QED BY <1>1, <1>2, <1>3

(* An unauthorized request renews its token once, and then ends.            *)
LEMMA UnauthorizedIs ==
    ASSUME NEW q, Formed(q)
    PROVE  /\ Formed(Unauthorized(q))
           /\ ~q.tried /\ q.refresh # None =>
                Unauthorized(q) = [q EXCEPT !.tried = TRUE, !.stage = "refresh"]
           /\ q.tried \/ q.refresh = None => Unauthorized(q).stage = "reply"
           /\ Unauthorized(q).refresh \in {None, q.refresh}
<1>1. CASE ~q.tried
    <2> DEFINE p == [q EXCEPT !.tried = TRUE]
    <2>1. Formed(p) /\ p.refresh = q.refresh /\ p.stage = q.stage
        BY DEF Formed, Request
    <2>2. Unauthorized(q) = Renewing(p)
        BY <1>1 DEF Unauthorized
    <2>3. /\ Formed(Renewing(p))
          /\ p.refresh # None => Renewing(p) = [p EXCEPT !.stage = "refresh"]
          /\ p.refresh = None => Renewing(p).stage = "reply" /\ Renewing(p).refresh = None
        BY <2>1, RenewingIs
    <2>4. [p EXCEPT !.stage = "refresh"] = [q EXCEPT !.tried = TRUE, !.stage = "refresh"]
        BY DEF Formed, Request
    <2>5. [p EXCEPT !.stage = "refresh"].refresh = q.refresh
        BY <2>1 DEF Formed, Request
    <2> QED BY <1>1, <2>1, <2>2, <2>3, <2>4, <2>5
<1>2. CASE q.tried /\ q.kind = "page"
    BY <1>2, GivenUpIs DEF Unauthorized, Formed
<1>3. CASE q.tried /\ q.kind # "page"
    BY <1>3, AnsweredIs DEF Unauthorized, Formed
<1> QED BY <1>1, <1>2, <1>3

(* A request starts with the cookies it was sent with, or ends at once.     *)
LEMMA StartedIs ==
    ASSUME NEW kind \in Kinds, NEW a \in Access, NEW t \in Tokens \cup {None}
    PROVE  LET q == Started([Idle EXCEPT !.kind = kind, !.auth = a, !.refresh = t]) IN
           /\ Formed(q) /\ q.refresh \in {None, t}
           /\ q.stage \in {"reply", "refresh", "logout"} \/ (q.stage = "forward" /\ ~q.tried)
<1> DEFINE p == [Idle EXCEPT !.kind = kind, !.auth = a, !.refresh = t]
<1>1. /\ Formed(p) /\ p.refresh = t /\ p.kind = kind /\ p.auth = a /\ p.stage = "idle"
      /\ p.tried = FALSE
    BY DEF Formed, Idle, Request, Active, Stages
<1>2. CASE kind = "logout"
    <2>1. CASE t = None
        BY <1>1, <1>2, <2>1, GivenUpIs DEF Started, Formed
    <2>2. CASE t # None
        <3>1. Started(p) = [p EXCEPT !.stage = "logout", !.auth = None]
            BY <1>1, <1>2, <2>2 DEF Started
        <3> QED BY <1>1, <2>2, <3>1 DEF Formed, Request, Active, Stages, Access
    <2> QED BY <2>1, <2>2
<1>3. CASE kind # "logout" /\ a # None
    <2>1. Started(p) = [p EXCEPT !.stage = "forward"]
        BY <1>1, <1>3 DEF Started
    <2> QED BY <1>1, <2>1 DEF Formed, Request, Active, Stages
<1>4. CASE kind # "logout" /\ a = None
    <2> DEFINE n == [p EXCEPT !.tried = p.kind = "page"]
    <2>1. Formed(n) /\ n.refresh = t
        BY <1>1 DEF Formed, Request
    <2>2. Started(p) = Renewing(n)
        BY <1>1, <1>4 DEF Started
    <2>3. CASE t = None
        <3>1. Formed(Renewing(n)) /\ Renewing(n).stage = "reply" /\ Renewing(n).refresh = None
            BY <2>1, <2>3, RenewingIs
        <3> QED BY <2>2, <3>1
    <2>4. CASE t # None
        <3>1. Started(p) = [n EXCEPT !.stage = "refresh"] /\ Formed(Started(p))
            BY <2>1, <2>2, <2>4, RenewingIs
        <3>2. Started(p).refresh = t /\ Started(p).stage = "refresh"
            BY <2>1, <3>1 DEF Formed, Request
        <3> QED BY <3>1, <3>2
    <2> QED BY <2>3, <2>4
<1> QED BY <1>2, <1>3, <1>4

-----------------------------------------------------------------------------
(* The inductive invariant: nothing but a logout, a ban or ninety days ends *)
(* a session, so whoever finds a row gone, expired or banned may give up.   *)

Good(q) ==
    /\ q.refresh # None => sessions[q.refresh] # "unused"
    /\ q.stage = "forward" /\ q.tried => q.auth = "fresh" /\ "auth" \in q.writes
    /\ q.stage = "expired" => q.refresh \in ended
    /\ q.stage = "banned" => banned

Inv ==
    /\ SessionsTypeOK
    /\ banned => ended = Tokens
    /\ \A t \in Tokens : sessions[t] \in {"expired", "gone"} => t \in ended
    /\ jar.refresh # None => sessions[jar.refresh] # "unused"
    /\ \A r \in Requests : Good(req[r])

LEMMA RequestsFormed == SessionsTypeOK <=>
    /\ sessions \in [Tokens -> {"unused", "live", "expired", "gone"}]
    /\ banned \in BOOLEAN
    /\ jar \in [auth: Access, refresh: Tokens \cup {None}]
    /\ req \in [Requests -> Request] /\ \A r \in Requests : Formed(req[r])
    /\ ended \subseteq Tokens /\ loggedOut \subseteq Tokens
    /\ outages \in 0 .. MaxOutages
    BY DEF SessionsTypeOK, Formed, Active

(* A request is turned away only when its session has ended.                *)
Safe(r) == TurnedAway(r) /\ ~req'[r].excused => req[r].refresh \in ended'

LEMMA InitInv == SessionsInit => Inv
<1> SUFFICES ASSUME SessionsInit PROVE Inv
    OBVIOUS
<1>1. SessionsTypeOK
    <2>1. req \in [Requests -> Request] /\ \A r \in Requests : Formed(req[r])
        BY IdleFormed DEF SessionsInit, Formed
    <2>2. jar \in [auth: Access, refresh: Tokens \cup {None}]
        BY DEF SessionsInit, Access
    <2>3. outages \in 0 .. MaxOutages
        BY SessionsAssumption DEF SessionsInit
    <2> QED BY <2>1, <2>2, <2>3, RequestsFormed DEF SessionsInit
<1>2. \A r \in Requests : Good(req[r])
    BY IdleFormed DEF SessionsInit, Good, Idle
<1> QED BY <1>1, <1>2 DEF SessionsInit, Inv

(* What a step of one request must leave for the invariant to hold.         *)
LEMMA PutKeeps ==
    ASSUME Inv, NEW r \in Requests, NEW p, Formed(p), Put(r, p),
           sessions' \in [Tokens -> {"unused", "live", "expired", "gone"}],
           \A t \in Tokens : sessions[t] # "unused" => sessions'[t] # "unused",
           \A t \in Tokens : sessions'[t] \in {"expired", "gone"} => t \in ended',
           jar' \in [auth: Access, refresh: Tokens \cup {None}],
           jar'.refresh \in {None, jar.refresh, req[r].refresh},
           banned' = banned,
           ended \subseteq ended', ended' \subseteq Tokens, loggedOut' \subseteq Tokens,
           outages' \in 0 .. MaxOutages,
           p.refresh \in {None, req[r].refresh},
           p.stage = "forward" /\ p.tried => p.auth = "fresh" /\ "auth" \in p.writes,
           p.stage = "expired" => p.refresh \in ended',
           p.stage = "banned" => banned
    PROVE  Inv'
<1>1. /\ req \in [Requests -> Request] /\ \A q \in Requests : Formed(req[q]) /\ Good(req[q])
      /\ ended \subseteq Tokens /\ banned \in BOOLEAN /\ jar.refresh \in Tokens \cup {None}
    BY RequestsFormed DEF Inv
<1>2. \A q \in Requests : req'[q] = IF q = r THEN p ELSE req[q]
    BY <1>1 DEF Put, Turn
<1>3. SessionsTypeOK'
    <2>1. req' \in [Requests -> Request]
        BY <1>1 DEF Put, Turn, Formed
    <2>2. \A q \in Requests : req'[q].stage \in Stages \ {"idle", "forward", "reply"}
                                => req'[q].refresh \in Tokens
        BY <1>1, <1>2 DEF Formed, Active
    <2> QED BY <1>1, <2>1, <2>2 DEF SessionsTypeOK
<1>4. \A t \in Tokens \cup {None} : (t # None => sessions[t] # "unused")
                                    => (t # None => sessions'[t] # "unused")
    OBVIOUS
<1>5. /\ \A q \in Requests : req[q].refresh \in Tokens \cup {None}
      /\ \A q \in Requests : req[q].refresh # None => sessions'[req[q].refresh] # "unused"
    BY <1>1, <1>4 DEF Formed, Request, Good
<1>6. \A q \in Requests : Good(req[q])'
    <2> SUFFICES ASSUME NEW q \in Requests PROVE Good(req[q])'
        OBVIOUS
    <2>1. CASE q = r
        BY <1>2, <1>5, <2>1 DEF Good
    <2>2. CASE q # r
        BY <1>1, <1>2, <1>5, <2>2 DEF Good
    <2> QED BY <2>1, <2>2
<1>7. jar'.refresh # None => sessions'[jar'.refresh] # "unused"
    BY <1>1, <1>4, <1>5 DEF Inv
<1>8. banned' => ended' = Tokens
    BY <1>1 DEF Inv
<1> QED BY <1>3, <1>6, <1>7, <1>8 DEF Inv

(* The step of a request that touches nothing else.                         *)
LEMMA PutAlone ==
    ASSUME Inv, NEW r \in Requests, NEW p, Formed(p), Put(r, p),
           UNCHANGED <<sessions, banned, jar, ended, loggedOut>>,
           outages' \in 0 .. MaxOutages,
           p.refresh \in {None, req[r].refresh},
           p.stage = "forward" /\ p.tried => p.auth = "fresh" /\ "auth" \in p.writes,
           p.stage = "expired" => p.refresh \in ended,
           p.stage = "banned" => banned
    PROVE  Inv'
<1>1. /\ sessions \in [Tokens -> {"unused", "live", "expired", "gone"}]
      /\ \A t \in Tokens : sessions[t] \in {"expired", "gone"} => t \in ended
      /\ jar \in [auth: Access, refresh: Tokens \cup {None}]
      /\ ended \subseteq Tokens /\ loggedOut \subseteq Tokens
    BY RequestsFormed DEF Inv
<1> QED BY <1>1, PutKeeps

LEMMA OutageType ==
    ASSUME Inv
    PROVE  outages \in 0 .. MaxOutages /\ (Outage => outages' \in 0 .. MaxOutages)
<1>1. outages \in 0 .. MaxOutages
    BY RequestsFormed DEF Inv
<1>2. Outage => outages' \in 0 .. MaxOutages
    BY <1>1, SessionsAssumption DEF Outage
<1> QED BY <1>1, <1>2

-----------------------------------------------------------------------------
(* The actions of a request.                                                *)

LEMMA SendOK ==
    ASSUME Inv, NEW r \in Requests, NEW kind \in Kinds, Send(r, kind)
    PROVE  Inv' /\ Safe(r)
<1> DEFINE p == Started([Idle EXCEPT !.kind = kind, !.auth = jar.auth, !.refresh = jar.refresh])
<1>1. jar.auth \in Access /\ jar.refresh \in Tokens \cup {None}
    BY RequestsFormed DEF Inv
<1>2. /\ Formed(p) /\ p.refresh \in {None, jar.refresh}
      /\ p.stage \in {"reply", "refresh", "logout"} \/ (p.stage = "forward" /\ ~p.tried)
    BY <1>1, StartedIs
<1>3. /\ req \in [Requests -> Request] /\ req[r] = Idle /\ req' = [req EXCEPT ![r] = p]
      /\ UNCHANGED <<sessions, banned, jar, ended, loggedOut, outages>>
    BY RequestsFormed DEF Inv, Send, Put, Turn
<1>4. Safe(r)
    BY <1>3, IdleFormed DEF Safe, TurnedAway
<1>5. /\ \A q \in Requests : Formed(req[q]) /\ Good(req[q])
      /\ jar.refresh # None => sessions[jar.refresh] # "unused"
    BY RequestsFormed DEF Inv
<1>6. \A q \in Requests : req'[q] = IF q = r THEN p ELSE req[q]
    BY <1>3
<1>7. Good(p)
    BY <1>2, <1>5 DEF Good
<1>8. SessionsTypeOK'
    <2>1. req' \in [Requests -> Request]
        BY <1>2, <1>3 DEF Formed
    <2>2. \A q \in Requests : req'[q].stage \in Stages \ {"idle", "forward", "reply"}
                                => req'[q].refresh \in Tokens
        BY <1>2, <1>5, <1>6 DEF Formed, Active
    <2> QED BY <1>3, <2>1, <2>2 DEF SessionsTypeOK, Inv
<1>9. \A q \in Requests : Good(req[q])'
    BY <1>3, <1>5, <1>6, <1>7 DEF Good
<1> QED BY <1>3, <1>4, <1>8, <1>9 DEF Inv

LEMMA ReplyOK ==
    ASSUME Inv, NEW r \in Requests, Reply(r)
    PROVE  Inv' /\ Safe(r)
<1>1. /\ sessions \in [Tokens -> {"unused", "live", "expired", "gone"}]
      /\ \A t \in Tokens : sessions[t] \in {"expired", "gone"} => t \in ended
      /\ jar \in [auth: Access, refresh: Tokens \cup {None}]
      /\ req[r] \in Request /\ ended \subseteq Tokens /\ loggedOut \subseteq Tokens
      /\ outages \in 0 .. MaxOutages
    BY RequestsFormed DEF Inv
<1>2. Safe(r)
    BY DEF Reply, Safe, TurnedAway
<1>3. /\ jar' \in [auth: Access, refresh: Tokens \cup {None}]
      /\ jar'.refresh \in {None, jar.refresh, req[r].refresh}
    BY <1>1 DEF Reply, Request
<1>4. Put(r, Idle) /\ UNCHANGED <<sessions, banned, ended, loggedOut, outages>>
    BY DEF Reply
<1> QED BY <1>1, <1>2, <1>3, <1>4, PutKeeps, IdleFormed

LEMMA LostOK ==
    ASSUME Inv, NEW r \in Requests, Lost(r)
    PROVE  Inv' /\ Safe(r)
<1>1. /\ req \in [Requests -> Request] /\ outages \in 0 .. MaxOutages
      /\ UNCHANGED <<sessions, banned, jar, ended, loggedOut, outages>>
    BY RequestsFormed DEF Inv, Lost
<1>2. CASE Put(r, Idle)
    <2>1. Inv'
        BY <1>1, <1>2, PutAlone, IdleFormed
    <2>2. req'[r] = Idle
        BY <1>1, <1>2 DEF Put, Turn
    <2> QED BY <2>1, <2>2, IdleFormed DEF Safe, TurnedAway
<1>3. CASE Put(r, Answered(req[r]))
    <2> DEFINE p == Answered(req[r])
    <2>1. /\ Formed(p) /\ p.stage = "reply" /\ p.writes = req[r].writes
          /\ "refresh" \in req[r].writes => p.refresh = req[r].refresh
          /\ "refresh" \notin req[r].writes => p.refresh = None
        BY <1>1, AnsweredIs
    <2>2. Inv'
        BY <1>1, <1>3, <2>1, PutAlone
    <2>3. req'[r] = p
        BY <1>1, <1>3 DEF Put, Turn
    <2> QED BY <2>1, <2>2, <2>3 DEF Safe, TurnedAway
<1> QED BY <1>2, <1>3 DEF Lost

LEMMA ForwardOK ==
    ASSUME Inv, NEW r \in Requests, Forward(r)
    PROVE  Inv' /\ Safe(r)
<1> DEFINE q == req[r]
<1>1. /\ req \in [Requests -> Request] /\ Formed(q) /\ Good(q) /\ q \in Request
      /\ q.stage = "forward" /\ outages \in 0 .. MaxOutages
      /\ UNCHANGED <<sessions, banned, jar, ended, loggedOut, outages>>
    BY RequestsFormed DEF Inv, Forward
<1>2. ASSUME NEW a \in Request, a.refresh = q.refresh, Put(r, Answered(a))
      PROVE  Inv' /\ Safe(r)
    <2> DEFINE p == Answered(a)
    <2>1. /\ Formed(p) /\ p.stage = "reply" /\ p.writes = a.writes
          /\ "refresh" \in a.writes => p.refresh = a.refresh
          /\ "refresh" \notin a.writes => p.refresh = None
        BY AnsweredIs
    <2>2. Inv'
        BY <1>1, <1>2, <2>1, PutAlone
    <2>3. req'[r] = p
        BY <1>1, <1>2 DEF Put, Turn
    <2> QED BY <1>2, <2>1, <2>2, <2>3 DEF Safe, TurnedAway
<1>3. CASE q.auth = "fresh" /\ q.kind # "profile" /\ Put(r, Answered(q))
    BY <1>1, <1>2, <1>3
<1>4. CASE Put(r, Answered([q EXCEPT !.writes = @ \cup {"auth"}]))
    <2> DEFINE a == [q EXCEPT !.writes = @ \cup {"auth"}]
    <2>1. a \in Request /\ a.refresh = q.refresh
        BY <1>1 DEF Request
    <2> QED BY <1>2, <1>4, <2>1
<1>5. CASE (q.auth = "old" \/ (q.kind = "page" /\ banned)) /\ Put(r, Unauthorized(q))
    <2> DEFINE p == Unauthorized(q)
    <2>1. /\ Formed(p) /\ p.refresh \in {None, q.refresh}
          /\ ~q.tried /\ q.refresh # None => p = [q EXCEPT !.tried = TRUE, !.stage = "refresh"]
          /\ q.tried \/ q.refresh = None => p.stage = "reply"
        BY <1>1, UnauthorizedIs
    <2>2. p.stage \in {"refresh", "reply"}
        BY <1>1, <2>1 DEF Request
    <2>3. Inv'
        BY <1>1, <1>5, <2>1, <2>2, PutAlone
    <2>4. req'[r] = p
        BY <1>1, <1>5 DEF Put, Turn
    <2>5. CASE q.refresh = None
        BY <2>3, <2>5 DEF Safe, TurnedAway
    <2>6. CASE q.refresh # None /\ ~q.tried
        <3>1. p.stage = "refresh"
            BY <1>1, <2>1, <2>6 DEF Request
        <3> QED BY <2>3, <2>4, <3>1 DEF Safe, TurnedAway
    <2>7. CASE q.refresh # None /\ q.tried
        <3>1. banned
            BY <1>1, <1>5, <2>7 DEF Good
        <3>2. q.refresh \in ended'
            BY <1>1, <2>7, <3>1 DEF Inv, Request
        <3> QED BY <2>3, <3>2 DEF Safe
    <2> QED BY <2>5, <2>6, <2>7
<1> QED BY <1>3, <1>4, <1>5 DEF Forward

LEMMA ThrottledOK ==
    ASSUME Inv, NEW r \in Requests, Throttled(r)
    PROVE  Inv' /\ Safe(r)
<1> DEFINE q == req[r]
           next == CASE q.stage = "refresh" -> GivenUp(q)
                     [] q.stage = "forward" /\ q.kind = "page" -> Unauthorized(q)
                     [] OTHER -> Answered(q)
           p == [next EXCEPT !.excused = next.stage = "reply"]
<1>1. /\ req \in [Requests -> Request] /\ Formed(q) /\ Good(q) /\ q \in Request
      /\ q.stage \in {"forward", "refresh"} /\ Put(r, p) /\ outages \in 0 .. MaxOutages
      /\ UNCHANGED <<sessions, banned, jar, ended, loggedOut, outages>>
    BY RequestsFormed DEF Inv, Throttled
<1>2. Formed(next) /\ next.stage \in {"reply", "refresh"} /\ next.refresh \in {None, q.refresh}
    <2>1. CASE q.stage = "refresh"
        BY <1>1, <2>1, GivenUpIs
    <2>2. CASE q.stage = "forward" /\ q.kind = "page"
        <3>1. next = Unauthorized(q)
            BY <2>2
        <3>2. /\ Formed(Unauthorized(q)) /\ Unauthorized(q).refresh \in {None, q.refresh}
              /\ ~q.tried /\ q.refresh # None =>
                    Unauthorized(q) = [q EXCEPT !.tried = TRUE, !.stage = "refresh"]
              /\ q.tried \/ q.refresh = None => Unauthorized(q).stage = "reply"
            BY <1>1, UnauthorizedIs
        <3>3. Unauthorized(q).stage \in {"refresh", "reply"}
            BY <1>1, <3>2 DEF Request
        <3> QED BY <3>1, <3>2, <3>3
    <2>3. CASE q.stage = "forward" /\ q.kind # "page"
        <3>1. next = Answered(q)
            BY <2>3
        <3>2. /\ Formed(Answered(q)) /\ Answered(q).stage = "reply"
              /\ "refresh" \in q.writes => Answered(q).refresh = q.refresh
              /\ "refresh" \notin q.writes => Answered(q).refresh = None
            BY <1>1, AnsweredIs
        <3> QED BY <3>1, <3>2
    <2> QED BY <1>1, <2>1, <2>2, <2>3
<1> HIDE DEF next
<1>3. /\ Formed(p) /\ p.stage = next.stage /\ p.refresh = next.refresh
      /\ p.excused = (next.stage = "reply")
    BY <1>2 DEF Formed, Request
<1>4. Inv'
    BY <1>1, <1>2, <1>3, PutAlone
<1>5. req'[r] = p
    BY <1>1 DEF Put, Turn
<1> QED BY <1>3, <1>4, <1>5 DEF Safe, TurnedAway

LEMMA ReadSessionOK ==
    ASSUME Inv, NEW r \in Requests, ReadSession(r)
    PROVE  Inv' /\ Safe(r)
<1> DEFINE q == req[r]
<1>1. /\ req \in [Requests -> Request] /\ Formed(q) /\ Good(q) /\ q \in Request
      /\ q.stage = "refresh" /\ q.refresh \in Tokens /\ q.refresh # None
      /\ outages \in 0 .. MaxOutages
      /\ sessions[q.refresh] \in {"live", "expired", "gone"}
      /\ UNCHANGED <<sessions, banned, jar, ended, loggedOut, outages>>
    BY RequestsFormed, SessionsAssumption DEF Inv, ReadSession, Formed, Active, Stages, Good
<1>2. ASSUME NEW stage \in {"perms", "expired"}, Put(r, [q EXCEPT !.stage = stage]),
             stage = "expired" => q.refresh \in ended
      PROVE  Inv' /\ Safe(r)
    <2> DEFINE p == [q EXCEPT !.stage = stage]
    <2>1. Formed(p) /\ p.stage = stage /\ p.refresh = q.refresh
        BY <1>1 DEF Formed, Request, Stages, Active
    <2>2. Inv'
        BY <1>1, <1>2, <2>1, PutAlone
    <2>3. req'[r] = p
        BY <1>1, <1>2 DEF Put, Turn
    <2> QED BY <2>1, <2>2, <2>3 DEF Safe, TurnedAway
<1>3. CASE sessions[q.refresh] = "live"
    BY <1>2, <1>3 DEF ReadSession
<1>4. CASE sessions[q.refresh] = "expired"
    BY <1>1, <1>2, <1>4 DEF ReadSession, Inv
<1>5. CASE sessions[q.refresh] = "gone"
    <2>1. Put(r, GivenUp(q))
        BY <1>5 DEF ReadSession
    <2>2. Formed(GivenUp(q)) /\ GivenUp(q).stage = "reply" /\ GivenUp(q).refresh = None
        BY <1>1, GivenUpIs
    <2>3. Inv'
        BY <1>1, <2>1, <2>2, PutAlone
    <2>4. q.refresh \in ended'
        BY <1>1, <1>5 DEF Inv
    <2> QED BY <2>3, <2>4 DEF Safe
<1> QED BY <1>1, <1>3, <1>4, <1>5

(* The request goes on to another stage with the session it has read.       *)
LEMMA MovesOn ==
    ASSUME Inv, NEW r \in Requests, req[r].stage \in Active,
           NEW stage \in {"save", "banned"}, Put(r, [req[r] EXCEPT !.stage = stage]),
           stage = "banned" => banned,
           outages' \in 0 .. MaxOutages, UNCHANGED <<sessions, banned, jar, ended, loggedOut>>
    PROVE  Inv' /\ Safe(r)
<1> DEFINE p == [req[r] EXCEPT !.stage = stage]
<1>1. req \in [Requests -> Request] /\ Formed(req[r]) /\ req[r].refresh \in Tokens
    BY RequestsFormed DEF Inv, Formed
<1>2. Formed(p) /\ p.stage = stage /\ p.refresh = req[r].refresh
    BY <1>1 DEF Formed, Request, Stages, Active
<1>3. Inv'
    BY <1>2, PutAlone
<1>4. req'[r] = p
    BY <1>1 DEF Put, Turn
<1> QED BY <1>2, <1>3, <1>4 DEF Safe, TurnedAway

LEMMA CheckBanOK ==
    ASSUME Inv, NEW r \in Requests, CheckBan(r)
    PROVE  Inv' /\ Safe(r)
<1>1. /\ req[r].stage \in Active /\ outages' \in 0 .. MaxOutages
      /\ UNCHANGED <<sessions, banned, jar, ended, loggedOut>>
    <2>1. outages \in 0 .. MaxOutages /\ req[r].stage \in Active
        BY OutageType DEF CheckBan, Active, Stages
    <2> QED BY <2>1 DEF CheckBan
<1>2. CASE banned
    BY <1>1, <1>2, MovesOn DEF CheckBan
<1>3. CASE ~banned
    BY <1>1, <1>3, MovesOn DEF CheckBan
<1> QED BY <1>2, <1>3

LEMMA FailOpenOK ==
    ASSUME Inv, NEW r \in Requests, FailOpen(r)
    PROVE  Inv' /\ Safe(r)
<1>1. /\ req[r].stage \in Active /\ outages' \in 0 .. MaxOutages
      /\ UNCHANGED <<sessions, banned, jar, ended, loggedOut>>
      /\ Put(r, [req[r] EXCEPT !.stage = "save"])
    <2>1. req[r].stage \in Active
        BY DEF FailOpen, Active, Stages
    <2>2. outages' \in 0 .. MaxOutages
        BY OutageType DEF FailOpen
    <2> QED BY <2>1, <2>2 DEF FailOpen
<1> QED BY <1>1, MovesOn

(* The row is deleted and the request turned away: the session has ended.   *)
LEMMA DeletesRow ==
    ASSUME Inv, NEW r \in Requests, req[r].stage \in Active, req[r].refresh \in ended',
           sessions' = [sessions EXCEPT ![req[r].refresh] = "gone"],
           Put(r, GivenUp(req[r])),
           ended \subseteq ended', ended' \subseteq Tokens, loggedOut' \subseteq Tokens,
           UNCHANGED <<banned, jar, outages>>
    PROVE  Inv' /\ Safe(r)
<1>1. /\ req[r] \in Request /\ req[r].refresh \in Tokens /\ outages \in 0 .. MaxOutages
      /\ sessions \in [Tokens -> {"unused", "live", "expired", "gone"}]
      /\ \A t \in Tokens : sessions[t] \in {"expired", "gone"} => t \in ended
      /\ jar \in [auth: Access, refresh: Tokens \cup {None}]
    BY RequestsFormed DEF Inv, Formed
<1>2. /\ Formed(GivenUp(req[r])) /\ GivenUp(req[r]).stage = "reply"
      /\ GivenUp(req[r]).refresh = None
    BY <1>1, GivenUpIs
<1>3. /\ sessions' \in [Tokens -> {"unused", "live", "expired", "gone"}]
      /\ \A t \in Tokens : sessions'[t] = IF t = req[r].refresh THEN "gone" ELSE sessions[t]
    BY <1>1
<1>4. /\ \A t \in Tokens : sessions[t] # "unused" => sessions'[t] # "unused"
      /\ \A t \in Tokens : sessions'[t] \in {"expired", "gone"} => t \in ended'
    BY <1>1, <1>3
<1>5. Inv'
    BY <1>1, <1>2, <1>3, <1>4, PutKeeps
<1> QED BY <1>5 DEF Safe

LEMMA RemoveSessionOK ==
    ASSUME Inv, NEW r \in Requests, RemoveSession(r)
    PROVE  Inv' /\ Safe(r)
<1>1. /\ req[r].stage \in Active /\ Formed(req[r]) /\ req[r].refresh \in Tokens
      /\ ended \subseteq Tokens /\ loggedOut \subseteq Tokens
    BY RequestsFormed DEF Inv, RemoveSession, Formed, Active, Stages
<1>2. req[r].refresh \in ended
    BY <1>1 DEF Inv, Good, RemoveSession
<1> QED BY <1>1, <1>2, DeletesRow DEF RemoveSession

LEMMA InvalidateSessionOK ==
    ASSUME Inv, NEW r \in Requests, InvalidateSession(r)
    PROVE  Inv' /\ Safe(r)
<1>1. /\ req[r].stage \in Active /\ Formed(req[r]) /\ req[r].refresh \in Tokens
      /\ ended \subseteq Tokens /\ loggedOut \subseteq Tokens
    BY RequestsFormed DEF Inv, InvalidateSession, Formed, Active, Stages
<1>2. /\ ended' = ended \cup {req[r].refresh} /\ loggedOut' = loggedOut \cup {req[r].refresh}
    BY DEF InvalidateSession
<1> QED BY <1>1, <1>2, DeletesRow DEF InvalidateSession

LEMMA SaveSessionOK ==
    ASSUME Inv, NEW r \in Requests, SaveSession(r)
    PROVE  Inv' /\ Safe(r)
<1> DEFINE q == req[r]
           p == Minted(q)
<1>1. /\ req \in [Requests -> Request] /\ q \in Request
      /\ q.refresh \in Tokens /\ outages \in 0 .. MaxOutages
      /\ sessions \in [Tokens -> {"unused", "live", "expired", "gone"}]
      /\ \A t \in Tokens : sessions[t] \in {"expired", "gone"} => t \in ended
      /\ jar \in [auth: Access, refresh: Tokens \cup {None}]
      /\ ended \subseteq Tokens /\ loggedOut \subseteq Tokens
      /\ Put(r, p) /\ UNCHANGED <<banned, jar, ended, loggedOut, outages>>
    BY RequestsFormed DEF Inv, SaveSession, Formed, Active, Stages
<1>2. /\ Formed(p) /\ p.stage = "forward" /\ p.refresh = q.refresh
      /\ p.auth = "fresh" /\ "auth" \in p.writes
    BY <1>1 DEF Minted, Formed, Request, Active, Stages, Access
<1>3. /\ sessions' \in [Tokens -> {"unused", "live", "expired", "gone"}]
      /\ \A t \in Tokens : sessions'[t] = IF t = q.refresh THEN "live" ELSE sessions[t]
    BY <1>1 DEF SaveSession
<1>4. /\ \A t \in Tokens : sessions[t] # "unused" => sessions'[t] # "unused"
      /\ \A t \in Tokens : sessions'[t] \in {"expired", "gone"} => t \in ended'
    BY <1>1, <1>3
<1>5. Inv'
    BY <1>1, <1>2, <1>3, <1>4, PutKeeps
<1>6. req'[r] = p
    BY <1>1 DEF Put, Turn
<1> QED BY <1>2, <1>5, <1>6 DEF Safe, TurnedAway

(* What the request was to write may be written or not; it is excused.      *)
LEMMA DatabaseFailsOK ==
    ASSUME Inv, NEW r \in Requests, DatabaseFails(r)
    PROVE  Inv' /\ Safe(r)
<1> DEFINE q == req[r]
           p == [GivenUp(q) EXCEPT !.excused = TRUE]
           written == CASE q.stage = "save" -> "live"
                        [] q.stage \in {"expired", "logout"} -> "gone"
                        [] OTHER -> sessions[q.refresh]
<1>1. /\ req \in [Requests -> Request] /\ q \in Request /\ Good(q)
      /\ q.refresh \in Tokens /\ q.refresh # None
      /\ q.stage \in {"refresh", "expired", "save", "logout"}
      /\ sessions \in [Tokens -> {"unused", "live", "expired", "gone"}]
      /\ \A t \in Tokens : sessions[t] \in {"expired", "gone"} => t \in ended
      /\ jar \in [auth: Access, refresh: Tokens \cup {None}]
      /\ ended \subseteq Tokens /\ loggedOut \subseteq Tokens
      /\ outages' \in 0 .. MaxOutages
    BY RequestsFormed, OutageType, SessionsAssumption
    DEF Inv, DatabaseFails, Formed, Active, Stages
<1>2. /\ Put(r, p) /\ UNCHANGED <<banned, jar, loggedOut>>
      /\ sessions' = sessions \/ sessions' = [sessions EXCEPT ![q.refresh] = written]
      /\ ended' = IF q.stage = "logout" THEN ended \cup {q.refresh} ELSE ended
    BY DEF DatabaseFails
<1>3. Formed(GivenUp(q)) /\ GivenUp(q).stage = "reply" /\ GivenUp(q).refresh = None
    BY <1>1, GivenUpIs
<1>4. Formed(p) /\ p.stage = "reply" /\ p.refresh = None /\ p.excused
    BY <1>3 DEF Formed, Request
<1>5. /\ written \in {"unused", "live", "expired", "gone"}
      /\ sessions[q.refresh] # "unused" => written # "unused"
      /\ written \in {"expired", "gone"} => q.refresh \in ended'
    BY <1>1, <1>2 DEF Good
<1> HIDE DEF written
<1>6. /\ sessions' \in [Tokens -> {"unused", "live", "expired", "gone"}]
      /\ \A t \in Tokens : sessions'[t] = sessions[t] \/ (t = q.refresh /\ sessions'[t] = written)
    <2>1. q.refresh \in Tokens /\ sessions \in [Tokens -> {"unused", "live", "expired", "gone"}]
        BY <1>1
    <2>2. CASE sessions' = sessions
        BY <2>1, <2>2
    <2>3. CASE sessions' = [sessions EXCEPT ![q.refresh] = written]
        BY <1>5, <2>1, <2>3
    <2> QED BY <1>2, <2>2, <2>3 DEF written
<1>7. ended \subseteq ended' /\ ended' \subseteq Tokens /\ loggedOut' \subseteq Tokens
    BY <1>1, <1>2
<1>8. /\ \A t \in Tokens : sessions[t] # "unused" => sessions'[t] # "unused"
      /\ \A t \in Tokens : sessions'[t] \in {"expired", "gone"} => t \in ended'
    BY <1>1, <1>5, <1>6, <1>7
<1>9. Inv'
    BY <1>1, <1>2, <1>4, <1>6, <1>7, <1>8, PutKeeps
<1>10. req'[r] = p
    BY <1>1, <1>2 DEF Put, Turn
<1> QED BY <1>4, <1>9, <1>10 DEF Safe

(* One request's step turns no other request away.                          *)
LEMMA OthersSafe ==
    ASSUME Inv, NEW r \in Requests, NEW p, Put(r, p)
    PROVE  \A q \in Requests \ {r} : Safe(q)
<1> SUFFICES ASSUME NEW q \in Requests \ {r} PROVE Safe(q)
    OBVIOUS
<1>1. req'[q] = req[q]
    BY RequestsFormed DEF Inv, Put, Turn
<1> QED BY <1>1 DEF Safe, TurnedAway

(* The stage a request is in does not change, nor does it change hands.     *)
LEMMA NobodyMoves ==
    ASSUME \A r \in Requests : req'[r].stage = req[r].stage
    PROVE  \A r \in Requests : Safe(r)
    BY DEF Safe, TurnedAway

LEMMA RequestStep ==
    ASSUME Inv, NEW r \in Requests,
           \/ \E kind \in Kinds : Send(r, kind)
           \/ Reply(r) \/ Lost(r) \/ Backend(r) \/ Throttled(r) \/ FailOpen(r)
           \/ DatabaseFails(r)
    PROVE  Inv' /\ \A q \in Requests : Safe(q)
<1>1. Inv' /\ Safe(r)
    BY SendOK, ReplyOK, LostOK, ForwardOK, ThrottledOK, ReadSessionOK, CheckBanOK, FailOpenOK,
       RemoveSessionOK, SaveSessionOK, InvalidateSessionOK, DatabaseFailsOK
    DEF Backend
<1>2. \E p : Put(r, p)
    BY DEF Backend, Send, Reply, Lost, Forward, Throttled, ReadSession, CheckBan, FailOpen,
           RemoveSession, SaveSession, InvalidateSession, DatabaseFails
<1> QED BY <1>1, <1>2, OthersSafe

-----------------------------------------------------------------------------
(* Logins, time and the staff.                                              *)

LEMMA LoginOK ==
    ASSUME Inv, NEW t \in Tokens, Login(t)
    PROVE  Inv' /\ \A r \in Requests : Safe(r)
<1>1. /\ sessions \in [Tokens -> {"unused", "live", "expired", "gone"}]
      /\ req' = req /\ banned' = banned /\ ended' = ended /\ loggedOut' = loggedOut
      /\ jar' = [auth |-> "fresh", refresh |-> t]
      /\ \A r \in Requests : Formed(req[r]) /\ Good(req[r])
    BY RequestsFormed DEF Inv, Login
<1>2. outages' \in 0 .. MaxOutages
    BY OutageType DEF Login
<1>3. /\ sessions' \in [Tokens -> {"unused", "live", "expired", "gone"}]
      /\ \A s \in Tokens : sessions'[s] = IF s = t THEN "live" ELSE sessions[s]
    BY <1>1 DEF Login
<1>4. SessionsTypeOK'
    <2>1. jar' \in [auth: Access, refresh: Tokens \cup {None}]
        BY <1>1 DEF Access
    <2> QED BY <1>1, <1>2, <1>3, <2>1 DEF Inv, SessionsTypeOK
<1>5. \A r \in Requests : Good(req[r])'
    <2> SUFFICES ASSUME NEW r \in Requests PROVE Good(req[r])'
        OBVIOUS
    <2>1. req[r].refresh \in Tokens \cup {None} /\ Good(req[r])
        BY <1>1 DEF Formed, Request
    <2> QED BY <1>1, <1>3, <2>1 DEF Good
<1>6. \A s \in Tokens : sessions'[s] \in {"expired", "gone"} => s \in ended'
    BY <1>1, <1>3 DEF Inv
<1>7. Inv'
    BY <1>1, <1>3, <1>4, <1>5, <1>6 DEF Inv
<1> QED BY <1>1, <1>7, NobodyMoves

LEMMA HourOK ==
    ASSUME Inv, Hour
    PROVE  Inv' /\ \A r \in Requests : Safe(r)
<1> DEFINE Ages(r) == req[r].auth = "fresh" /\ "auth" \notin req[r].writes
<1>1. /\ req \in [Requests -> Request] /\ \A r \in Requests : Formed(req[r]) /\ Good(req[r])
      /\ jar \in [auth: Access, refresh: Tokens \cup {None}]
      /\ UNCHANGED <<sessions, banned, ended, loggedOut, outages>>
    BY RequestsFormed DEF Inv, Hour
<1>2. /\ jar' \in [auth: Access, refresh: Tokens \cup {None}]
      /\ jar'.refresh = jar.refresh
    <2>1. PICK a \in {"old", None} : jar' = [jar EXCEPT !.auth = a]
        BY DEF Hour
    <2> QED BY <1>1, <2>1 DEF Access
<1>3. req' = [r \in Requests |-> IF Ages(r) THEN [req[r] EXCEPT !.auth = "old"] ELSE req[r]]
    BY DEF Hour
<1>4. ASSUME NEW r \in Requests
      PROVE  /\ Formed(req'[r]) /\ Good(req[r])'
             /\ req'[r].stage = req[r].stage
    <2>1. CASE Ages(r)
        <3>1. req'[r] = [req[r] EXCEPT !.auth = "old"]
            BY <1>3, <2>1
        <3>2. /\ Formed(req'[r]) /\ req'[r].stage = req[r].stage
              /\ req'[r].refresh = req[r].refresh /\ req'[r].tried = req[r].tried
            BY <1>1, <3>1 DEF Formed, Request, Access
        <3>3. ~(req[r].stage = "forward" /\ req[r].tried)
            BY <1>1, <2>1 DEF Good
        <3> QED BY <1>1, <3>2, <3>3 DEF Good
    <2>2. CASE ~Ages(r)
        <3>1. req'[r] = req[r]
            BY <1>3, <2>2
        <3> QED BY <1>1, <3>1 DEF Good
    <2> QED BY <2>1, <2>2
<1>5. SessionsTypeOK'
    <2>1. req' \in [Requests -> Request]
        BY <1>3, <1>4 DEF Formed
    <2>2. \A r \in Requests : req'[r].stage \in Stages \ {"idle", "forward", "reply"}
                                => req'[r].refresh \in Tokens
        BY <1>4 DEF Formed, Active
    <2> QED BY <1>1, <1>2, <2>1, <2>2 DEF SessionsTypeOK, Inv
<1>6. Inv'
    BY <1>1, <1>2, <1>4, <1>5 DEF Inv
<1> QED BY <1>4, <1>6, NobodyMoves

LEMMA ExpireSessionOK ==
    ASSUME Inv, NEW t \in Tokens, ExpireSession(t)
    PROVE  Inv' /\ \A r \in Requests : Safe(r)
<1>1. /\ sessions \in [Tokens -> {"unused", "live", "expired", "gone"}]
      /\ req' = req /\ banned' = banned /\ jar' = jar /\ loggedOut' = loggedOut
      /\ outages' = outages /\ ended' = ended \cup {t} /\ ended \subseteq Tokens
      /\ \A r \in Requests : Formed(req[r]) /\ Good(req[r])
      /\ jar.refresh \in Tokens \cup {None}
    BY RequestsFormed DEF Inv, ExpireSession
<1>2. /\ sessions' \in [Tokens -> {"unused", "live", "expired", "gone"}]
      /\ \A s \in Tokens : sessions'[s] = IF s = t THEN "expired" ELSE sessions[s]
    BY <1>1 DEF ExpireSession
<1>3. SessionsTypeOK'
    BY <1>1, <1>2 DEF Inv, SessionsTypeOK
<1>4. \A r \in Requests : Good(req[r])'
    <2> SUFFICES ASSUME NEW r \in Requests PROVE Good(req[r])'
        OBVIOUS
    <2>1. req[r].refresh \in Tokens \cup {None} /\ Good(req[r])
        BY <1>1 DEF Formed, Request
    <2> QED BY <1>1, <1>2, <2>1 DEF Good
<1>5. \A s \in Tokens : sessions'[s] \in {"expired", "gone"} => s \in ended'
    BY <1>1, <1>2 DEF Inv
<1>6. Inv'
    BY <1>1, <1>2, <1>3, <1>4, <1>5 DEF Inv
<1> QED BY <1>1, <1>6, NobodyMoves

LEMMA BanOK ==
    ASSUME Inv, Ban
    PROVE  Inv' /\ \A r \in Requests : Safe(r)
<1>1. /\ req' = req /\ sessions' = sessions /\ jar' = jar /\ loggedOut' = loggedOut
      /\ outages' = outages /\ banned' = TRUE /\ ended' = Tokens
      /\ \A r \in Requests : Formed(req[r]) /\ Good(req[r])
    BY RequestsFormed DEF Inv, Ban
<1>2. SessionsTypeOK'
    BY <1>1 DEF Inv, SessionsTypeOK
<1>3. \A r \in Requests : Good(req[r])'
    BY <1>1 DEF Good, Formed, Active, Stages
<1>4. Inv'
    BY <1>1, <1>2, <1>3 DEF Inv
<1> QED BY <1>1, <1>4, NobodyMoves

-----------------------------------------------------------------------------
LEMMA StepOK == Inv /\ [SessionsNext]_vars => Inv' /\ \A r \in Requests : Safe(r)
<1> SUFFICES ASSUME Inv, [SessionsNext]_vars
             PROVE  Inv' /\ \A r \in Requests : Safe(r)
    OBVIOUS
<1>1. ASSUME NEW r \in Requests,
             \/ \E kind \in Kinds : Send(r, kind)
             \/ Reply(r) \/ Lost(r) \/ Backend(r) \/ Throttled(r) \/ FailOpen(r)
             \/ DatabaseFails(r)
      PROVE  Inv' /\ \A q \in Requests : Safe(q)
    BY <1>1, RequestStep
<1>2. ASSUME NEW t \in Tokens, Login(t) \/ ExpireSession(t)
      PROVE  Inv' /\ \A r \in Requests : Safe(r)
    BY <1>2, LoginOK, ExpireSessionOK
<1>3. CASE UNCHANGED vars
    <2>1. Inv'
        BY <1>3 DEF Inv, SessionsTypeOK, Good, vars
    <2>2. \A r \in Requests : req'[r].stage = req[r].stage
        BY <1>3 DEF vars
    <2> QED BY <2>1, <2>2, NobodyMoves
<1> QED BY <1>1, <1>2, <1>3, HourOK, BanOK DEF SessionsNext

(* Every cookie, request and row keeps its type; in particular a request    *)
(* that reaches refreshAuth or a logout carries a token to look up.         *)
THEOREM SessionsTypeCorrect == SessionsSpec => []SessionsTypeOK
<1>1. Inv => SessionsTypeOK
    BY DEF Inv
<1>2. Inv /\ [SessionsNext]_vars => Inv'
    BY StepOK
<1> QED BY InitInv, <1>1, <1>2, PTL DEF SessionsSpec

(* For any number of logins and of requests in parallel, and whatever       *)
(* answers are lost or lookups fail: a request is turned away only when its *)
(* session was logged out of, banned or expired, or when the throttler      *)
(* refused it or the database failed its refresh.                           *)
THEOREM ParallelRefresh == SessionsSpec => ParallelRefreshIsHarmless
<1> DEFINE Harmless == \A r \in Requests :
        TurnedAway(r) /\ ~req'[r].excused => req[r].refresh \in ended'
<1>1. Inv /\ [SessionsNext]_vars => Inv'
    BY StepOK
<1>2. Inv /\ [SessionsNext]_vars => [Harmless]_vars
    BY StepOK DEF Safe
<1> QED BY InitInv, <1>1, <1>2, PTL DEF SessionsSpec, ParallelRefreshIsHarmless

-----------------------------------------------------------------------------
(***************************************************************************)
(* HcbToken.  A spent token is never stored because a pair that is         *)
(* answered but not saved is known to one holder only: the refresh in      *)
(* flight, or the callback that exchanged the code.                        *)
(***************************************************************************)

KnownToken == 1 .. minted \cup {None}

(* Every pair the program holds was minted.                                 *)
HoldsMinted ==
    /\ row \in KnownToken /\ flight.old \in KnownToken /\ flight.new \in KnownToken
    /\ \A r \in Requests : call[r].cred \in KnownToken
    /\ \A a \in Connects : connect[a].new \in KnownToken
    /\ usable \subseteq 1 .. minted

(* A refresh that was answered has a pair that works.                       *)
AnswerWorks == flight.stage = "answered" => flight.new \in usable

(* A callback that was answered has a pair that works, and nobody else has. *)
Apart(a) ==
    /\ connect[a].new \notin {row, flight.old, flight.new}
    /\ \A r \in Requests : call[r].cred # connect[a].new
    /\ \A b \in Connects \ {a} : connect[b].stage = "answered" => connect[b].new # connect[a].new

ExchangeWorks == \A a \in Connects :
    connect[a].stage = "answered" => connect[a].new \in usable /\ Apart(a)

(* The inductive invariant.                                                 *)
HcbInv == HcbTypeOK /\ HoldsMinted /\ AnswerWorks /\ ExchangeWorks /\ StoredTokenWorks

Flights == [stage: {"idle", "posted", "answered", "saved"},
            old: Pairs \cup {None}, new: Pairs \cup {None}]
Calls == [stage: {"idle", "reading", "read", "waiting"}, cred: Pairs \cup {None}]
Exchanges == [stage: {"idle", "exchanging", "answered"}, new: Pairs \cup {None}]

-----------------------------------------------------------------------------
(* What the steps do, in the terms of the invariant.                        *)

LEMMA MintedRange == HcbTypeOK => /\ minted \in Nat /\ KnownToken \subseteq Pairs \cup {None}
                                  /\ None \notin Pairs
  BY HcbTokenAssumption DEF HcbTypeOK, KnownToken, Pairs

(* HCB's answer is a pair nobody has seen.                                  *)
LEMMA MintEffect ==
    ASSUME HcbTypeOK, NEW spent, Mint(spent)
    PROVE  /\ minted' \in 0 .. MaxPairs /\ minted + 1 \in Pairs /\ minted' = minted + 1
           /\ KnownToken \subseteq KnownToken' /\ minted + 1 \in KnownToken' /\ minted + 1 \notin KnownToken
           /\ 1 .. minted \subseteq 1 .. minted'
           /\ usable' = (usable \ spent) \cup {minted + 1}
           /\ minted + 1 \in 1 .. minted'
<1>1. minted \in Nat /\ minted < MaxPairs /\ minted' = minted + 1 /\ MaxPairs \in Nat
  BY HcbTokenAssumption DEF HcbTypeOK, Mint
<1>2. minted' \in 0 .. MaxPairs /\ minted + 1 \in Pairs
  BY <1>1 DEF Pairs
<1>3. 1 .. minted \subseteq 1 .. minted' /\ minted + 1 \in 1 .. minted' /\ minted + 1 \notin 1 .. minted
  BY <1>1
<1>4. minted + 1 # None
  BY <1>1, HcbTokenAssumption
<1>5. QED
  BY <1>1, <1>2, <1>3, <1>4 DEF KnownToken, Mint

(* The promise settles for every request that waits.                        *)
LEMMA SettleEffect ==
    ASSUME HcbTypeOK, Settle
    PROVE  /\ flight' \in Flights /\ flight'.stage = "idle"
           /\ flight'.old = None /\ flight'.new = None
           /\ call' \in [Requests -> Calls]
           /\ \A r \in Requests : call'[r].cred \in {call[r].cred, None}
<1>1. Grounded \in Flights /\ Grounded.stage = "idle" /\ Grounded.old = None /\ Grounded.new = None
  BY DEF Grounded, Flights
<1>2. Away \in Calls /\ Away.cred = None
  BY DEF Away, Calls
<1>3. QED
  BY <1>1, <1>2 DEF Settle, HcbTypeOK, Calls

(* A request's own step: it holds the pair it held, the one stored, or none.*)
LEMMA CallerEffect ==
    ASSUME HcbTypeOK, NEW r \in Requests, Need(r) \/ Caller(r)
    PROVE  /\ call' \in [Requests -> Calls]
           /\ \A s \in Requests : call'[s].cred \in {call[s].cred, row, None}
           /\ flight' \in Flights /\ UNCHANGED <<row, connect, minted, usable, aged, lost>>
           /\ \/ flight' = flight
              \/ /\ flight'.stage = "posted" /\ flight'.new = None
                 /\ flight'.old = call[r].cred /\ flight'.old \in Pairs
                 /\ flight.stage = "idle"
<1>1. call \in [Requests -> Calls] /\ flight \in Flights /\ row \in Pairs \cup {None} /\ aged \subseteq Pairs
  BY DEF HcbTypeOK, Calls, Flights
<1>2. ASSUME NEW state \in Calls, state.cred \in {call[r].cred, row, None}, call' = Turn(call, r, state)
      PROVE  /\ call' \in [Requests -> Calls]
             /\ \A s \in Requests : call'[s].cred \in {call[s].cred, row, None}
  BY <1>1, <1>2 DEF Turn
<1>3. CASE Need(r)
  <2>1. [stage |-> "reading", cred |-> None] \in Calls
    BY DEF Calls
  <2>2. QED
    BY <1>1, <1>2, <1>3, <2>1 DEF Need
<1>4. CASE ReadCredential(r)
  <2>1. [stage |-> "read", cred |-> row] \in Calls
    BY <1>1 DEF Calls
  <2>2. QED
    BY <1>1, <1>2, <1>4, <2>1 DEF ReadCredential
<1>5. CASE UseCredential(r)
  <2>1. Away \in Calls /\ Away.cred = None
    BY DEF Calls, Away
  <2>2. QED
    BY <1>1, <1>2, <1>5, <2>1 DEF UseCredential
<1>6. CASE JoinRefresh(r)
  <2>1. call[r].cred \in Pairs /\ [stage |-> "waiting", cred |-> call[r].cred] \in Calls
    BY <1>1, <1>6 DEF JoinRefresh, Calls
  <2>2. Departure(call[r].cred) \in Flights
    BY <2>1 DEF Departure, Flights
  <2>3. Grounded.stage = "idle"
    BY DEF Grounded
  <2>4. QED
    BY <1>1, <1>2, <1>6, <2>1, <2>2, <2>3 DEF JoinRefresh, Departure
<1>7. QED
  BY <1>3, <1>4, <1>5, <1>6 DEF Caller

-----------------------------------------------------------------------------
(* The invariant, one group of actions at a time.                           *)

LEMMA CallerKeeps ==
    ASSUME HcbInv, NEW r \in Requests, Need(r) \/ Caller(r)
    PROVE  HcbInv'
<1>1. HcbTypeOK /\ None \in KnownToken
  BY DEF HcbInv, KnownToken
<1>2. /\ call' \in [Requests -> Calls]
      /\ \A s \in Requests : call'[s].cred \in {call[s].cred, row, None}
      /\ flight' \in Flights /\ UNCHANGED <<row, connect, minted, usable, aged, lost>>
      /\ \/ flight' = flight
         \/ /\ flight'.stage = "posted" /\ flight'.new = None
            /\ flight'.old = call[r].cred /\ flight'.old \in Pairs
            /\ flight.stage = "idle"
  BY <1>1, CallerEffect
<1>3. HcbTypeOK'
  BY <1>1, <1>2 DEF HcbTypeOK, Calls, Flights
<1>4. HoldsMinted' /\ AnswerWorks' /\ StoredTokenWorks'
  BY <1>1, <1>2 DEF HcbInv, HoldsMinted, AnswerWorks, StoredTokenWorks, KnownToken
<1>5. ExchangeWorks'
  <2> SUFFICES ASSUME NEW a \in Connects, connect[a].stage = "answered"
               PROVE  connect'[a].new \in usable' /\ Apart(a)'
    BY <1>2 DEF ExchangeWorks
  <2>1. connect[a].new \in usable /\ Apart(a) /\ connect[a].new # None
    BY <1>1, MintedRange DEF HcbInv, ExchangeWorks, HcbTypeOK
  <2>2. QED
    BY <1>2, <2>1 DEF Apart
<1>6. QED
  BY <1>3, <1>4, <1>5 DEF HcbInv

LEMMA SettlesKeeps ==
    ASSUME HcbInv, Settle, UNCHANGED <<row, connect, minted, aged>>,
           lost \subseteq lost', lost' \subseteq Pairs,
           flight.stage = "answered" => flight.old \in lost', usable' = usable
    PROVE  HcbInv'
<1>1. HcbTypeOK /\ None \in KnownToken
  BY DEF HcbInv, KnownToken
<1>2. /\ flight' \in Flights /\ flight'.stage = "idle" /\ flight'.old = None /\ flight'.new = None
      /\ call' \in [Requests -> Calls]
      /\ \A r \in Requests : call'[r].cred \in {call[r].cred, None}
  BY <1>1, SettleEffect
<1>3. HcbTypeOK'
  BY <1>1, <1>2 DEF HcbTypeOK, Calls, Flights
<1>4. HoldsMinted' /\ AnswerWorks' /\ StoredTokenWorks'
  BY <1>1, <1>2 DEF HcbInv, HoldsMinted, AnswerWorks, StoredTokenWorks, KnownToken
<1>5. ExchangeWorks'
  <2> SUFFICES ASSUME NEW a \in Connects, connect[a].stage = "answered"
               PROVE  connect'[a].new \in usable' /\ Apart(a)'
    BY DEF ExchangeWorks
  <2>1. connect[a].new \in usable /\ Apart(a) /\ connect[a].new # None
    BY <1>1, MintedRange DEF HcbInv, ExchangeWorks, HcbTypeOK
  <2>2. QED
    BY <1>2, <2>1 DEF Apart
<1>6. QED
  BY <1>3, <1>4, <1>5 DEF HcbInv

(* HCB spends the pair in flight; the answer arrives or is lost.            *)
LEMMA RotatesKeeps ==
    ASSUME HcbInv, Refreshed \/ RefreshLost
    PROVE  HcbInv'
<1>1. HcbTypeOK /\ None \in KnownToken /\ flight \in Flights
  BY DEF HcbInv, KnownToken, HcbTypeOK, Flights
<1>2. /\ flight.stage = "posted" /\ flight.old \in usable /\ Mint({flight.old})
      /\ UNCHANGED <<row, connect, aged>>
  BY DEF Refreshed, RefreshLost, Rotates
<1>3. /\ minted' \in 0 .. MaxPairs /\ minted + 1 \in Pairs /\ minted' = minted + 1
      /\ KnownToken \subseteq KnownToken' /\ minted + 1 \in KnownToken' /\ minted + 1 \notin KnownToken
      /\ 1 .. minted \subseteq 1 .. minted' /\ minted + 1 \in 1 .. minted'
      /\ usable' = (usable \ {flight.old}) \cup {minted + 1}
  BY <1>1, <1>2, MintEffect
<1>4. /\ flight' \in Flights /\ call' \in [Requests -> Calls]
      /\ \A r \in Requests : call'[r].cred \in {call[r].cred, None}
      /\ \/ flight'.stage = "answered" /\ flight'.old = flight.old /\ flight'.new = minted + 1
            /\ lost' = lost
         \/ flight'.stage = "idle" /\ flight'.old = None /\ flight'.new = None
            /\ lost' = lost \cup {flight.old}
  <2>1. CASE Refreshed
    <3>1. /\ [flight EXCEPT !.stage = "answered", !.new = minted + 1] \in Flights
          /\ flight' = [flight EXCEPT !.stage = "answered", !.new = minted + 1]
          /\ call' = call /\ lost' = lost
      BY <1>1, <1>3, <2>1 DEF Refreshed, Flights
    <3>2. QED
      BY <1>1, <3>1 DEF Flights, HcbTypeOK, Calls
  <2>2. CASE RefreshLost
    BY <1>1, <2>2, SettleEffect DEF RefreshLost
  <2>3. QED
    BY <2>1, <2>2
<1>5. flight.old \in Pairs
  BY <1>1, <1>2 DEF HcbTypeOK
<1>6. HcbTypeOK'
  BY <1>1, <1>2, <1>3, <1>4, <1>5 DEF HcbTypeOK, Calls, Flights
<1>7. HoldsMinted'
  BY <1>1, <1>2, <1>3, <1>4 DEF HcbInv, HoldsMinted
<1>8. AnswerWorks' /\ StoredTokenWorks'
  BY <1>2, <1>3, <1>4 DEF HcbInv, AnswerWorks, StoredTokenWorks
<1>9. ExchangeWorks'
  <2> SUFFICES ASSUME NEW a \in Connects, connect[a].stage = "answered"
               PROVE  connect'[a].new \in usable' /\ Apart(a)'
    BY <1>2 DEF ExchangeWorks
  <2>1. connect[a].new \in usable /\ Apart(a) /\ connect[a].new # None /\ connect[a].new \in KnownToken
    BY <1>1, MintedRange DEF HcbInv, ExchangeWorks, HcbTypeOK, HoldsMinted
  <2>2. connect[a].new # minted + 1 /\ connect[a].new # flight.old
    BY <1>3, <2>1 DEF Apart
  <2>3. QED
    BY <1>2, <1>3, <1>4, <2>1, <2>2 DEF Apart
<1>10. QED
  BY <1>6, <1>7, <1>8, <1>9 DEF HcbInv

LEMMA SaveRefreshedKeeps ==
    ASSUME HcbInv, SaveRefreshed
    PROVE  HcbInv'
<1>1. HcbTypeOK /\ flight \in Flights /\ flight.new \in Pairs
  BY DEF HcbInv, HcbTypeOK, Flights, SaveRefreshed
<1>2. /\ flight.stage = "answered" /\ row' = flight.new
      /\ flight' \in Flights /\ flight'.stage = "saved"
      /\ flight'.old = flight.old /\ flight'.new = flight.new
      /\ UNCHANGED <<call, connect, minted, usable, aged, lost>>
  BY <1>1 DEF SaveRefreshed, Flights
<1>3. HcbTypeOK'
  BY <1>1, <1>2 DEF HcbTypeOK, Flights
<1>4. HoldsMinted' /\ AnswerWorks' /\ StoredTokenWorks'
  BY <1>2 DEF HcbInv, HoldsMinted, AnswerWorks, StoredTokenWorks, KnownToken
<1>5. ExchangeWorks'
  BY <1>2 DEF HcbInv, ExchangeWorks, Apart
<1>6. QED
  BY <1>3, <1>4, <1>5 DEF HcbInv

(* A callback starts, or fails: it holds no pair.                           *)
LEMMA NoPairKeeps ==
    ASSUME HcbInv, NEW a \in Connects, StartConnect(a) \/ ConnectFails(a)
    PROVE  HcbInv'
<1>1. HcbTypeOK /\ connect \in [Connects -> Exchanges] /\ None \in KnownToken
  BY DEF HcbInv, HcbTypeOK, Exchanges, KnownToken
<1>2. /\ connect' \in [Connects -> Exchanges]
      /\ connect'[a].stage # "answered" /\ connect'[a].new \in {connect[a].new, None}
      /\ \A b \in Connects \ {a} : connect'[b] = connect[b]
      /\ UNCHANGED <<row, flight, call, minted, usable, aged, lost>>
  <2>1. CASE StartConnect(a)
    <3>1. /\ [connect[a] EXCEPT !.stage = "exchanging"] \in Exchanges
          /\ connect' = [connect EXCEPT ![a] = [connect[a] EXCEPT !.stage = "exchanging"]]
      BY <1>1, <2>1 DEF StartConnect, Exchanges
    <3>2. QED
      BY <1>1, <2>1, <3>1 DEF StartConnect, Exchanges
  <2>2. CASE ConnectFails(a)
    <3>1. Unconnected \in Exchanges /\ Unconnected.stage = "idle" /\ Unconnected.new = None
      BY DEF Unconnected, Exchanges
    <3>2. QED
      BY <1>1, <2>2, <3>1 DEF ConnectFails
  <2>3. QED
    BY <2>1, <2>2
<1>3. HcbTypeOK'
  BY <1>1, <1>2 DEF HcbTypeOK, Exchanges
<1>4. HoldsMinted' /\ AnswerWorks' /\ StoredTokenWorks'
  BY <1>1, <1>2 DEF HcbInv, HoldsMinted, AnswerWorks, StoredTokenWorks, KnownToken
<1>5. ExchangeWorks'
  <2> SUFFICES ASSUME NEW b \in Connects \ {a}, connect[b].stage = "answered"
               PROVE  connect'[b].new \in usable' /\ Apart(b)'
    BY <1>2 DEF ExchangeWorks
  <2>1. QED
    BY <1>2 DEF HcbInv, ExchangeWorks, Apart
<1>6. QED
  BY <1>3, <1>4, <1>5 DEF HcbInv

(* A callback is answered with a pair that nobody has.                      *)
LEMMA ExchangedKeeps ==
    ASSUME HcbInv, NEW a \in Connects, Exchanged(a)
    PROVE  HcbInv'
<1>1. HcbTypeOK /\ connect \in [Connects -> Exchanges]
  BY DEF HcbInv, HcbTypeOK, Exchanges
<1>2. Mint({}) /\ UNCHANGED <<row, flight, call, aged, lost>>
  BY DEF Exchanged
<1>3. /\ minted' \in 0 .. MaxPairs /\ minted + 1 \in Pairs /\ minted' = minted + 1
      /\ KnownToken \subseteq KnownToken' /\ minted + 1 \in KnownToken' /\ minted + 1 \notin KnownToken
      /\ 1 .. minted \subseteq 1 .. minted' /\ minted + 1 \in 1 .. minted'
      /\ usable' = usable \cup {minted + 1}
  BY <1>1, <1>2, MintEffect
<1>4. /\ connect' \in [Connects -> Exchanges]
      /\ connect'[a].stage = "answered" /\ connect'[a].new = minted + 1
      /\ \A b \in Connects \ {a} : connect'[b] = connect[b]
  <2>1. [stage |-> "answered", new |-> minted + 1] \in Exchanges
    BY <1>3 DEF Exchanges
  <2>2. QED
    BY <1>1, <2>1 DEF Exchanged
<1>5. HcbTypeOK'
  <2>1. usable' \subseteq Pairs
    BY <1>1, <1>3 DEF HcbTypeOK
  <2>2. \A b \in Connects : connect'[b].stage = "answered" => connect'[b].new \in Pairs
    BY <1>1, <1>3, <1>4 DEF HcbTypeOK
  <2>3. QED
    BY <1>1, <1>2, <1>3, <1>4, <2>1, <2>2 DEF HcbTypeOK, Exchanges
<1>6. HoldsMinted' /\ AnswerWorks' /\ StoredTokenWorks'
  BY <1>2, <1>3, <1>4 DEF HcbInv, HoldsMinted, AnswerWorks, StoredTokenWorks
<1>7. ExchangeWorks'
  <2>1. Apart(a)'
    BY <1>2, <1>3, <1>4 DEF HcbInv, HoldsMinted, Apart
  <2>2. ASSUME NEW b \in Connects \ {a}, connect[b].stage = "answered"
        PROVE  connect'[b].new \in usable' /\ Apart(b)'
    <3>1. connect[b].new \in usable /\ Apart(b) /\ connect[b].new \in KnownToken
      BY <2>2 DEF HcbInv, ExchangeWorks, HoldsMinted
    <3>2. QED
      BY <1>2, <1>3, <1>4, <3>1 DEF Apart
  <2>3. QED
    BY <1>3, <1>4, <2>1, <2>2 DEF ExchangeWorks
<1>8. QED
  BY <1>5, <1>6, <1>7 DEF HcbInv

LEMMA SaveConnectedKeeps ==
    ASSUME HcbInv, NEW a \in Connects, SaveConnected(a)
    PROVE  HcbInv'
<1>1. HcbTypeOK /\ connect \in [Connects -> Exchanges] /\ connect[a].new \in Pairs
  BY DEF HcbInv, HcbTypeOK, Exchanges, SaveConnected
<1>2. Unconnected \in Exchanges /\ Unconnected.stage = "idle" /\ Unconnected.new = None
  BY DEF Unconnected, Exchanges
<1>3. /\ row' = connect[a].new /\ connect[a].stage = "answered"
      /\ connect' \in [Connects -> Exchanges]
      /\ connect'[a].stage = "idle" /\ connect'[a].new = None
      /\ \A b \in Connects \ {a} : connect'[b] = connect[b]
      /\ UNCHANGED <<flight, call, minted, usable, aged, lost>>
  BY <1>1, <1>2 DEF SaveConnected
<1>4. connect[a].new \in usable /\ Apart(a)
  BY <1>3 DEF HcbInv, ExchangeWorks
<1>5. HcbTypeOK'
  BY <1>1, <1>3 DEF HcbTypeOK, Exchanges
<1>6. HoldsMinted' /\ AnswerWorks' /\ StoredTokenWorks'
  BY <1>3, <1>4 DEF HcbInv, HoldsMinted, AnswerWorks, StoredTokenWorks, KnownToken
<1>7. ExchangeWorks'
  <2> SUFFICES ASSUME NEW b \in Connects \ {a}, connect[b].stage = "answered"
               PROVE  connect'[b].new \in usable' /\ Apart(b)'
    BY <1>3 DEF ExchangeWorks
  <2>1. connect[b].new \in usable /\ Apart(b) /\ connect[b].new # connect[a].new
    BY <1>3, <1>4 DEF HcbInv, ExchangeWorks, Apart
  <2>2. QED
    BY <1>3, <2>1 DEF Apart
<1>8. QED
  BY <1>5, <1>6, <1>7 DEF HcbInv

LEMMA CrashKeeps ==
    ASSUME HcbInv, HcbCrash
    PROVE  HcbInv'
<1>1. HcbTypeOK /\ flight.stage = "answered" => flight.old \in Pairs
  BY DEF HcbInv, HcbTypeOK
<1>2. /\ Grounded \in Flights /\ Grounded.stage = "idle" /\ Grounded.old = None
      /\ Grounded.new = None /\ Away \in Calls /\ Away.cred = None
      /\ Unconnected \in Exchanges /\ Unconnected.stage = "idle" /\ Unconnected.new = None
  BY DEF Grounded, Away, Unconnected, Flights, Calls, Exchanges
<1>3. HcbTypeOK'
  BY <1>1, <1>2 DEF HcbInv, HcbTypeOK, HcbCrash, Flights, Calls, Exchanges
<1>4. HoldsMinted' /\ AnswerWorks' /\ StoredTokenWorks' /\ ExchangeWorks'
  BY <1>2 DEF HcbInv, HcbCrash, HoldsMinted, AnswerWorks, StoredTokenWorks, ExchangeWorks, KnownToken
<1>5. QED
  BY <1>3, <1>4 DEF HcbInv

LEMMA HcbInvStep == HcbInv /\ [HcbNext]_hcbVars => HcbInv'
<1> SUFFICES ASSUME HcbInv, [HcbNext]_hcbVars PROVE HcbInv'
  OBVIOUS
<1>1. CASE RefreshRefused \/ RefreshFails \/ SaveFails \/ HandOut
  <2>1. /\ Settle /\ UNCHANGED <<row, connect, minted, usable, aged>>
        /\ lost' = lost \/ (flight.stage = "answered" /\ lost' = lost \cup {flight.old})
        /\ flight.stage = "answered" => lost' = lost \cup {flight.old}
    BY <1>1 DEF RefreshRefused, RefreshFails, SaveFails, HandOut
  <2>2. lost \subseteq Pairs /\ (flight.stage = "answered" => flight.old \in Pairs)
    BY DEF HcbInv, HcbTypeOK
  <2>3. QED
    BY <2>1, <2>2, SettlesKeeps
<1>2. ASSUME NEW p \in Pairs, Expire(p) PROVE HcbInv'
  <2>1. /\ UNCHANGED <<row, flight, call, connect, minted, usable, lost>>
        /\ aged' \subseteq aged \cup {p}
    BY <1>2 DEF Expire
  <2>2. HcbTypeOK'
    BY <2>1 DEF HcbInv, HcbTypeOK
  <2>3. QED
    BY <2>1, <2>2 DEF HcbInv, HoldsMinted, AnswerWorks, StoredTokenWorks, ExchangeWorks, Apart, KnownToken
<1>3. CASE UNCHANGED hcbVars
  BY <1>3 DEF hcbVars, HcbInv, HcbTypeOK, HoldsMinted, AnswerWorks, StoredTokenWorks,
              ExchangeWorks, Apart, KnownToken
<1>4. QED
  BY <1>1, <1>2, <1>3, CallerKeeps, RotatesKeeps, SaveRefreshedKeeps, NoPairKeeps, ExchangedKeeps,
     SaveConnectedKeeps, CrashKeeps
  DEF HcbNext, Flight

LEMMA HcbInvInit == HcbInit => HcbInv
<1> SUFFICES ASSUME HcbInit PROVE HcbInv
  OBVIOUS
<1>1. /\ Grounded \in Flights /\ Grounded.stage = "idle" /\ Grounded.old = None
      /\ Grounded.new = None /\ Away \in Calls /\ Away.cred = None
      /\ Unconnected \in Exchanges /\ Unconnected.stage = "idle" /\ Unconnected.new = None
  BY DEF Grounded, Away, Unconnected, Flights, Calls, Exchanges
<1>2. HcbTypeOK
  BY <1>1, HcbTokenAssumption DEF HcbInit, HcbTypeOK, Flights, Calls, Exchanges
<1>3. QED
  BY <1>1, <1>2 DEF HcbInit, HcbInv, HoldsMinted, AnswerWorks, StoredTokenWorks, ExchangeWorks, KnownToken

(* The invariant holds however many requests, refreshes and reconnections   *)
(* overlap, and however often a token is minted.                            *)
THEOREM HcbInvariant == HcbSpec => []HcbInv
  BY HcbInvInit, HcbInvStep, PTL DEF HcbSpec

(* What the row, the requests and the callbacks hold are pairs, or null.    *)
THEOREM HcbTypeCorrect == HcbSpec => []HcbTypeOK
  BY HcbInvariant, PTL DEF HcbInv

(* The stored refresh token is one HCB still takes, or the refresh that     *)
(* spent it is about to replace it, or failed: no number of requests and    *)
(* reconnections leaves a spent one behind.                                 *)
THEOREM TokenIsKept == HcbSpec => []StoredTokenWorks
  BY HcbInvariant, PTL DEF HcbInv

(* An admin is told that the connection expired only when a failure lost    *)
(* its successor, or the refresh had started from a row replaced since.     *)
THEOREM RefusalIsTrue == HcbSpec => RefusedOnlyWhenStale
<1>1. HcbInv => [RefreshRefused => row \in lost \/ flight.old # row]_hcbVars
  <2> SUFFICES ASSUME HcbInv, RefreshRefused, flight.old = row
               PROVE  row \in lost
    OBVIOUS
  <2>1. flight.stage = "posted" /\ row \notin usable
    BY DEF RefreshRefused
  <2>2. row # None
    BY <2>1, MintedRange DEF HcbInv, HcbTypeOK
  <2>3. QED
    BY <2>1, <2>2 DEF HcbInv, StoredTokenWorks
<1>2. QED
  BY <1>1, HcbInvariant, PTL DEF RefusedOnlyWhenStale

(***************************************************************************)
(* Devlogs.  Rows that a request has read may be old when it saves them;   *)
(* but what a row says of a devlog's project was true when it was read, a  *)
(* devlog changes its project only by losing it, and then the key refuses  *)
(* the row.                                                                *)
(***************************************************************************)

Job == [stage: JobStages, project: DevlogProjects \cup {None}, session: SessionIds \cup {None},
        devlog: DevlogIds \cup {None}, row: Session \cup {None}]

(* A devlog that was made for project p: unless either is gone, it is one   *)
(* of p's.                                                                  *)
MadeFor == {m \in DevlogIds \X DevlogProjects :
    /\ devlogs[m[1]] # Unborn
    /\ m[1] \in DevlogRows => devlogs[m[1]].project = m[2] \/ m[2] \notin projectRows}

SoundRow(entity, made) == entity \in Session /\ (entity.devlog # None => <<entity.devlog, entity.project>> \in made)

SoundJob(q, made) ==
    /\ q \in Job
    /\ q.stage \in {"uploading", "attach", "attaching", "opening"} => q.project \in DevlogProjects
    /\ q.stage \in {"attach", "attaching"} => <<q.devlog, q.project>> \in made
    /\ q.stage \in {"attach", "attaching", "listed", "mirroring"} => q.session \in SessionIds
    /\ q.stage \in {"attaching", "mirroring"} => SoundRow(q.row, made)
    /\ q.stage = "attaching" => q.row.project = q.project /\ q.row.devlog = None

DevlogsInv ==
    /\ DevlogsTypeOK /\ EvidenceBelongs
    /\ \A r \in Requests : SoundJob(job[r], MadeFor)

LEMMA IdleJob == NoJob \in Job /\ NoJob.stage = "idle" /\ NoJob.row = None /\ \A made : SoundJob(NoJob, made)
<1>1. NoJob \in Job /\ NoJob.stage = "idle" /\ NoJob.row = None
  BY DEF NoJob, Job, JobStages
<1>2. QED
  BY <1>1 DEF SoundJob

LEMMA RowsAre ==
    ASSUME DevlogsTypeOK
    PROVE  /\ \A d \in DevlogRows : devlogs[d] \in Devlog
           /\ \A s \in SessionRows : lookoutSessions[s] \in Session
           /\ \A r \in Requests : job[r] \in Job
  BY DEF DevlogsTypeOK, DevlogRows, SessionRows, Job

(* A devlog keeps its project, or loses it with the project.                *)
DevlogsStay ==
    /\ projectRows' \subseteq projectRows
    /\ \A d \in DevlogIds : devlogs[d] # Unborn =>
        /\ devlogs'[d] # Unborn
        /\ d \in DevlogRows' => /\ d \in DevlogRows
                                /\ \/ devlogs'[d].project = devlogs[d].project
                                   \/ devlogs[d].project \notin projectRows'

LEMMA MadeStays ==
    ASSUME DevlogsStay
    PROVE  /\ MadeFor \subseteq MadeFor'
           /\ \A q : SoundJob(q, MadeFor) => SoundJob(q, MadeFor')
<1>1. ASSUME NEW m \in MadeFor PROVE m \in MadeFor'
  <2>1. /\ m \in DevlogIds \X DevlogProjects /\ m[1] \in DevlogIds
        /\ devlogs[m[1]] # Unborn
        /\ m[1] \in DevlogRows => devlogs[m[1]].project = m[2] \/ m[2] \notin projectRows
    BY DEF MadeFor
  <2>2. devlogs'[m[1]] # Unborn
    BY <2>1 DEF DevlogsStay
  <2>3. ASSUME m[1] \in DevlogRows' PROVE devlogs'[m[1]].project = m[2] \/ m[2] \notin projectRows'
    BY <2>1, <2>3 DEF DevlogsStay
  <2>4. QED
    BY <2>1, <2>2, <2>3 DEF MadeFor
<1>2. QED
  BY <1>1 DEF SoundJob, SoundRow

LEMMA NoDevlogMoves ==
    UNCHANGED <<projectRows, devlogs>> => DevlogsStay /\ DevlogRows' = DevlogRows
  BY DEF DevlogsStay, DevlogRows

(* One request moves, and no devlog but in a way that may be.               *)
LEMMA JobMoves ==
    ASSUME DevlogsInv, NEW r \in Requests, NEW q, SoundJob(q, MadeFor'),
           job' = [job EXCEPT ![r] = q], DevlogsStay
    PROVE  job' \in [Requests -> Job] /\ \A t \in Requests : SoundJob(job'[t], MadeFor')
<1>1. job \in [Requests -> Job] /\ q \in Job
  BY DEF DevlogsInv, DevlogsTypeOK, Job, SoundJob
<1>2. \A t \in Requests : SoundJob(job[t], MadeFor')
  BY MadeStays DEF DevlogsInv
<1>3. job' \in [Requests -> Job]
  BY <1>1
<1>4. job'[r] = q /\ \A t \in Requests \ {r} : job'[t] = job[t]
  BY <1>1
<1>5. QED
  BY <1>2, <1>3, <1>4

(* No row is written.                                                       *)
LEMMA OnlyJobMoves ==
    ASSUME DevlogsInv, NEW r \in Requests, NEW q, SoundJob(q, MadeFor),
           job' = [job EXCEPT ![r] = q], UNCHANGED <<projectRows, devlogs, lookoutSessions>>
    PROVE  DevlogsInv' /\ \A s \in SessionRows : KeepsEvidence(s)
<1>1. DevlogsStay /\ SoundJob(q, MadeFor')
  BY NoDevlogMoves, MadeStays
<1>2. job' \in [Requests -> Job] /\ \A t \in Requests : SoundJob(job'[t], MadeFor')
  BY <1>1, JobMoves
<1>3. DevlogsTypeOK'
  BY <1>2 DEF DevlogsInv, DevlogsTypeOK, DevlogRows, Job
<1>4. EvidenceBelongs'
  BY DEF DevlogsInv, EvidenceBelongs, SessionRows, DevlogRows
<1>5. \A s \in SessionRows : KeepsEvidence(s)
  BY DEF KeepsEvidence, SessionRows
<1>6. QED
  BY <1>2, <1>3, <1>4, <1>5 DEF DevlogsInv

(* A row is saved whole, or the keys refuse it.                             *)
LEMMA SaveKeeps ==
    ASSUME DevlogsTypeOK, EvidenceBelongs, NEW s \in SessionIds, NEW new, SoundRow(new, MadeFor),
           Save(s, new), UNCHANGED <<projectRows, devlogs>>
    PROVE  /\ lookoutSessions' \in [SessionIds -> Session \cup {Unborn, Deleted}]
           /\ EvidenceBelongs'
           /\ \A t \in SessionIds : lookoutSessions'[t] = lookoutSessions[t] \/ (t = s /\ lookoutSessions'[t] = new)
<1>1. CASE ~KeysHold(s, new)
  <2>1. lookoutSessions' = lookoutSessions
    BY <1>1 DEF Save
  <2>2. QED
    BY <2>1 DEF DevlogsTypeOK, EvidenceBelongs, SessionRows, DevlogRows
<1>2. CASE KeysHold(s, new)
  <2>1. lookoutSessions' = [lookoutSessions EXCEPT ![s] = new] /\ new \in Session
    BY <1>2 DEF Save, SoundRow
  <2>2. lookoutSessions'[s] = new /\ \A t \in SessionIds \ {s} : lookoutSessions'[t] = lookoutSessions[t]
    BY <2>1 DEF DevlogsTypeOK
  <2>3. lookoutSessions' \in [SessionIds -> Session \cup {Unborn, Deleted}]
    BY <2>1 DEF DevlogsTypeOK
  <2>4. new \notin {Unborn, Deleted}
    BY <2>1, DevlogsAssumption
  <2>5. SessionRows' = SessionRows \cup {s} /\ DevlogRows' = DevlogRows
    BY <2>2, <2>4 DEF SessionRows, DevlogRows
  <2>6. new.project \in projectRows /\ (new.devlog # None =>
            new.devlog \in DevlogRows /\ devlogs[new.devlog].project = new.project
              /\ \A t \in SessionRows \ {s} : lookoutSessions[t].devlog # new.devlog)
    BY <1>2 DEF KeysHold, SoundRow, MadeFor
  <2>7. EvidenceBelongs'
    <3> SUFFICES ASSUME NEW t \in SessionRows \cup {s}
                 PROVE  /\ lookoutSessions'[t].project \in projectRows
                        /\ lookoutSessions'[t].devlog # None =>
                            /\ lookoutSessions'[t].devlog \in DevlogRows
                            /\ devlogs[lookoutSessions'[t].devlog].project = lookoutSessions'[t].project
                            /\ \A v \in SessionRows \cup {s} :
                                lookoutSessions'[v].devlog = lookoutSessions'[t].devlog => v = t
      BY <2>5 DEF EvidenceBelongs
    <3>1. SessionRows \subseteq SessionIds
      BY DEF SessionRows
    <3>2. CASE t = s
      BY <2>2, <2>6, <3>1, <3>2
    <3>3. CASE t # s
      <4>1. t \in SessionRows /\ lookoutSessions'[t] = lookoutSessions[t]
        BY <2>2, <3>1, <3>3
      <4>2. /\ lookoutSessions[t].project \in projectRows
            /\ lookoutSessions[t].devlog # None =>
                /\ lookoutSessions[t].devlog \in DevlogRows
                /\ devlogs[lookoutSessions[t].devlog].project = lookoutSessions[t].project
                /\ \A v \in SessionRows : lookoutSessions[v].devlog = lookoutSessions[t].devlog => v = t
        BY <4>1 DEF EvidenceBelongs
      <4>3. ASSUME lookoutSessions[t].devlog # None,
                   NEW v \in SessionRows \cup {s}, lookoutSessions'[v].devlog = lookoutSessions'[t].devlog
            PROVE  v = t
        <5>1. v # s
          BY <2>2, <2>6, <3>3, <4>1, <4>3
        <5>2. QED
          BY <2>2, <3>1, <4>1, <4>2, <4>3, <5>1
      <4>4. QED
        BY <4>1, <4>2, <4>3
    <3>4. QED
      BY <3>2, <3>3
  <2>8. QED
    BY <2>2, <2>3, <2>7
<1>3. QED
  BY <1>1, <1>2

(* A request that starts is sound; one that goes on keeps what it was asked.*)
LEMMA StartedJobs ==
    ASSUME NEW p \in DevlogProjects, NEW s \in SessionIds \cup {None}, NEW made
    PROVE  /\ SoundJob([NoJob EXCEPT !.stage = "uploading", !.project = p, !.session = s], made)
           /\ SoundJob([NoJob EXCEPT !.stage = "opening", !.project = p], made)
  BY DEF NoJob, SoundJob, Job, JobStages

LEMMA ListedJob ==
    ASSUME NEW s \in SessionIds, NEW made
    PROVE  SoundJob([NoJob EXCEPT !.stage = "listed", !.session = s], made)
  BY DEF NoJob, SoundJob, Job, JobStages

LEMMA RequestAsks ==
    ASSUME DevlogsInv, NEW r \in Requests,
           \/ \E p \in DevlogProjects : (\E s \in SessionIds \cup {None} : CreateDevlog(r, p, s)) \/ OpenSession(r, p)
           \/ \E s \in SessionIds : Export(r, s)
           \/ UploadFails(r)
           \/ MirrorFails(r)
    PROVE  DevlogsInv' /\ \A s \in SessionRows : KeepsEvidence(s)
<1> DEFINE Goes(q) == /\ job' = [job EXCEPT ![r] = q] /\ UNCHANGED <<projectRows, devlogs, lookoutSessions>>
<1>1. ASSUME NEW q, Goes(q), SoundJob(q, MadeFor) PROVE DevlogsInv' /\ \A s \in SessionRows : KeepsEvidence(s)
  BY <1>1, OnlyJobMoves
<1>2. ASSUME NEW p \in DevlogProjects, NEW s \in SessionIds \cup {None}, CreateDevlog(r, p, s)
      PROVE  Goes([NoJob EXCEPT !.stage = "uploading", !.project = p, !.session = s])
  BY <1>2 DEF CreateDevlog, StartJob, Turn
<1>3. ASSUME NEW p \in DevlogProjects, OpenSession(r, p)
      PROVE  Goes([NoJob EXCEPT !.stage = "opening", !.project = p])
  BY <1>3 DEF OpenSession, StartJob, Turn
<1>4. ASSUME NEW s \in SessionIds, Export(r, s)
      PROVE  Goes([NoJob EXCEPT !.stage = "listed", !.session = s])
  BY <1>4 DEF Export, StartJob, Turn
<1>5. ASSUME UploadFails(r) \/ MirrorFails(r) PROVE Goes(NoJob)
  BY <1>5 DEF UploadFails, MirrorFails, EndJob, Turn
<1> HIDE DEF Goes
<1>6. QED
  <2>1. ASSUME NEW p \in DevlogProjects, NEW s \in SessionIds \cup {None}, CreateDevlog(r, p, s)
        PROVE  DevlogsInv' /\ \A t \in SessionRows : KeepsEvidence(t)
    BY <1>1, <1>2, <2>1, StartedJobs
  <2>2. ASSUME NEW p \in DevlogProjects, OpenSession(r, p)
        PROVE  DevlogsInv' /\ \A t \in SessionRows : KeepsEvidence(t)
    BY <1>1, <1>3, <2>2, StartedJobs
  <2>3. ASSUME NEW s \in SessionIds, Export(r, s)
        PROVE  DevlogsInv' /\ \A t \in SessionRows : KeepsEvidence(t)
    BY <1>1, <1>4, <2>3, ListedJob
  <2>4. ASSUME UploadFails(r) \/ MirrorFails(r)
        PROVE  DevlogsInv' /\ \A t \in SessionRows : KeepsEvidence(t)
    BY <1>1, <1>5, <2>4, IdleJob
  <2>5. QED
    BY <2>1, <2>2, <2>3, <2>4

LEMMA ReadFreeSessionKeeps ==
    ASSUME DevlogsInv, NEW r \in Requests, ReadFreeSession(r)
    PROVE  DevlogsInv' /\ \A s \in SessionRows : KeepsEvidence(s)
<1> DEFINE q == job[r]
<1>1. SoundJob(q, MadeFor) /\ q \in Job /\ q.stage = "attach" /\ UNCHANGED <<projectRows, devlogs, lookoutSessions>>
  BY DEF DevlogsInv, ReadFreeSession, SoundJob
<1>2. CASE job' = [job EXCEPT ![r] = NoJob]
  BY <1>1, <1>2, OnlyJobMoves, IdleJob
<1>3. ASSUME NEW entity \in Session, entity.project = q.project, entity.devlog = None,
             job' = [job EXCEPT ![r].stage = "attaching", ![r].row = entity]
      PROVE  DevlogsInv' /\ \A s \in SessionRows : KeepsEvidence(s)
  <2>1. job' = [job EXCEPT ![r] = [q EXCEPT !.stage = "attaching", !.row = entity]]
    BY <1>3
  <2> HIDE DEF q
  <2>2. SoundJob([q EXCEPT !.stage = "attaching", !.row = entity], MadeFor)
    BY <1>1, <1>3 DEF SoundJob, Job, SoundRow, JobStages
  <2>3. QED
    BY <1>1, <2>1, <2>2, OnlyJobMoves
<1>4. \/ job' = [job EXCEPT ![r] = NoJob]
      \/ /\ q.session \in SessionRows /\ lookoutSessions[q.session].project = q.project
         /\ lookoutSessions[q.session].devlog = None
         /\ job' = [job EXCEPT ![r].stage = "attaching", ![r].row = lookoutSessions[q.session]]
  BY DEF ReadFreeSession, EndJob, Turn
<1>5. \A s \in SessionRows : lookoutSessions[s] \in Session
  BY RowsAre DEF DevlogsInv
<1> HIDE DEF q
<1>6. QED
  BY <1>2, <1>3, <1>4, <1>5

LEMMA ReadForMirrorKeeps ==
    ASSUME DevlogsInv, NEW r \in Requests, ReadForMirror(r)
    PROVE  DevlogsInv' /\ \A s \in SessionRows : KeepsEvidence(s)
<1> DEFINE q == job[r]
<1>1. SoundJob(q, MadeFor) /\ q \in Job /\ q.stage = "listed" /\ UNCHANGED <<projectRows, devlogs, lookoutSessions>>
  BY DEF DevlogsInv, ReadForMirror, SoundJob
<1>2. CASE job' = [job EXCEPT ![r] = NoJob]
  BY <1>1, <1>2, OnlyJobMoves, IdleJob
<1>3. ASSUME NEW entity, SoundRow(entity, MadeFor),
             job' = [job EXCEPT ![r].stage = "mirroring", ![r].row = entity]
      PROVE  DevlogsInv' /\ \A s \in SessionRows : KeepsEvidence(s)
  <2>1. job' = [job EXCEPT ![r] = [q EXCEPT !.stage = "mirroring", !.row = entity]]
    BY <1>3
  <2> HIDE DEF q
  <2>2. SoundJob([q EXCEPT !.stage = "mirroring", !.row = entity], MadeFor)
    BY <1>1, <1>3 DEF SoundJob, Job, SoundRow, JobStages
  <2>3. QED
    BY <1>1, <2>1, <2>2, OnlyJobMoves
<1>4. \/ job' = [job EXCEPT ![r] = NoJob]
      \/ /\ q.session \in SessionRows
         /\ job' = [job EXCEPT ![r].stage = "mirroring", ![r].row = lookoutSessions[q.session]]
  BY DEF ReadForMirror, EndJob, Turn
<1>5. ASSUME NEW s \in SessionRows PROVE SoundRow(lookoutSessions[s], MadeFor)
  <2>1. lookoutSessions[s] \in Session
    BY RowsAre DEF DevlogsInv
  <2>2. lookoutSessions[s].devlog # None =>
            /\ lookoutSessions[s].devlog \in DevlogRows
            /\ devlogs[lookoutSessions[s].devlog].project = lookoutSessions[s].project
    BY DEF DevlogsInv, EvidenceBelongs
  <2>3. lookoutSessions[s].project \in DevlogProjects
    BY <2>1 DEF Session
  <2>4. QED
    BY <2>1, <2>2, <2>3 DEF SoundRow, MadeFor, DevlogRows
<1> HIDE DEF q
<1>6. QED
  BY <1>2, <1>3, <1>4, <1>5

(* A request saves the row it read, with a change, and ends.                *)
LEMMA JobSaves ==
    ASSUME DevlogsInv, NEW r \in Requests, NEW s \in SessionIds, NEW new, SoundRow(new, MadeFor),
           Save(s, new), UNCHANGED <<projectRows, devlogs>>, job' = [job EXCEPT ![r] = NoJob]
    PROVE  DevlogsInv' /\ \A t \in SessionRows : lookoutSessions'[t] = lookoutSessions[t] \/ (t = s /\ lookoutSessions'[t] = new)
<1>1. /\ lookoutSessions' \in [SessionIds -> Session \cup {Unborn, Deleted}]
      /\ EvidenceBelongs'
      /\ \A t \in SessionIds : lookoutSessions'[t] = lookoutSessions[t] \/ (t = s /\ lookoutSessions'[t] = new)
  BY SaveKeeps DEF DevlogsInv
<1>2. DevlogsStay
  BY NoDevlogMoves
<1>3. job' \in [Requests -> Job] /\ \A t \in Requests : SoundJob(job'[t], MadeFor')
  BY <1>2, JobMoves, IdleJob
<1>4. DevlogsTypeOK'
  BY <1>1, <1>3 DEF DevlogsInv, DevlogsTypeOK, DevlogRows, Job
<1>5. QED
  BY <1>1, <1>3, <1>4 DEF DevlogsInv, SessionRows

LEMMA AttachKeeps ==
    ASSUME DevlogsInv, NEW r \in Requests, Attach(r)
    PROVE  DevlogsInv' /\ \A s \in SessionRows : KeepsEvidence(s)
<1> DEFINE q == job[r]
           new == [q.row EXCEPT !.devlog = q.devlog]
<1>1. SoundJob(q, MadeFor) /\ q.stage = "attaching" /\ UNCHANGED <<projectRows, devlogs>>
      /\ Save(q.session, new) /\ job' = [job EXCEPT ![r] = NoJob]
  BY DEF DevlogsInv, Attach, EndJob, Turn
<1>2. q.session = job[r].session /\ q.row = job[r].row
  OBVIOUS
<1> HIDE DEF q
<1>3. /\ q.row \in Session /\ q.row.devlog = None /\ q.row.project = q.project
      /\ <<q.devlog, q.project>> \in MadeFor /\ q.session \in SessionIds
  BY <1>1 DEF SoundJob, SoundRow
<1>4. q.devlog \in DevlogIds
  BY <1>3 DEF MadeFor
<1>5. SoundRow(new, MadeFor)
  <2>1. new \in Session /\ new.devlog = q.devlog /\ new.project = q.project
    BY <1>3, <1>4 DEF Session
  <2>2. QED
    BY <1>3, <2>1 DEF SoundRow
<1> HIDE DEF new
<1>6. DevlogsInv' /\ \A t \in SessionRows : lookoutSessions'[t] = lookoutSessions[t] \/ t = q.session
  BY <1>1, <1>3, <1>5, JobSaves
<1>7. q.row # None
  BY <1>3, DevlogsAssumption
<1>8. ASSUME NEW s \in SessionRows PROVE KeepsEvidence(s)
  <2>1. CASE s # q.session
    BY <1>6, <2>1 DEF KeepsEvidence, SessionRows
  <2>2. CASE s = q.session
    <3>1. lookoutSessions[s].devlog # None => q.row # lookoutSessions[s]
      BY <1>3
    <3>2. QED
      BY <1>2, <1>7, <2>2, <3>1 DEF KeepsEvidence
  <2>3. QED
    BY <2>1, <2>2
<1>9. QED
  BY <1>6, <1>8

LEMMA MirroredKeeps ==
    ASSUME DevlogsInv, NEW r \in Requests, Mirrored(r)
    PROVE  DevlogsInv' /\ \A s \in SessionRows : KeepsEvidence(s)
<1> DEFINE q == job[r]
           new == [q.row EXCEPT !.cdn = TRUE]
<1>1. SoundJob(q, MadeFor) /\ q.stage = "mirroring" /\ UNCHANGED <<projectRows, devlogs>>
      /\ Save(q.session, new) /\ job' = [job EXCEPT ![r] = NoJob]
  BY DEF DevlogsInv, Mirrored, EndJob, Turn
<1>2. q.session = job[r].session /\ q.row = job[r].row
  OBVIOUS
<1> HIDE DEF q
<1>3. SoundRow(q.row, MadeFor) /\ q.row \in Session /\ q.session \in SessionIds
  BY <1>1 DEF SoundJob, SoundRow
<1>4. new \in Session /\ new.devlog = q.row.devlog /\ new.project = q.row.project /\ new.cdn
  BY <1>3 DEF Session
<1> HIDE DEF new
<1>5. SoundRow(new, MadeFor)
  BY <1>3, <1>4 DEF SoundRow
<1>6. DevlogsInv' /\ \A t \in SessionRows :
          lookoutSessions'[t] = lookoutSessions[t] \/ (t = q.session /\ lookoutSessions'[t] = new)
  BY <1>1, <1>3, <1>5, JobSaves
<1>7. q.row # None /\ new \notin {Unborn, Deleted}
  BY <1>3, <1>4, DevlogsAssumption
<1>8. ASSUME NEW s \in SessionRows PROVE KeepsEvidence(s)
  <2>1. CASE lookoutSessions'[s] = lookoutSessions[s]
    BY <2>1 DEF KeepsEvidence, SessionRows
  <2>2. CASE s = q.session /\ q.row # lookoutSessions[s]
    BY <1>2, <1>7, <2>2 DEF KeepsEvidence
  <2>3. CASE lookoutSessions'[s] = new /\ q.row = lookoutSessions[s]
    BY <1>4, <1>7, <2>3 DEF KeepsEvidence
  <2>4. QED
    BY <1>6, <2>1, <2>2, <2>3
<1>9. QED
  BY <1>6, <1>8

LEMMA SaveLookoutKeeps ==
    ASSUME DevlogsInv, NEW r \in Requests, NEW s \in SessionIds, SaveLookout(r, s)
    PROVE  DevlogsInv' /\ \A t \in SessionRows : KeepsEvidence(t)
<1> DEFINE q == job[r]
           new == [project |-> q.project, devlog |-> None, cdn |-> FALSE, old |-> FALSE]
<1>1. SoundJob(q, MadeFor) /\ q.stage = "opening" /\ UNCHANGED <<projectRows, devlogs>>
      /\ job' = [job EXCEPT ![r] = NoJob] /\ lookoutSessions[s] = Unborn
  BY DEF DevlogsInv, SaveLookout, EndJob, Turn
<1>2. Save(s, new) \/ UNCHANGED lookoutSessions
  BY DEF SaveLookout
<1> HIDE DEF q
<1>3. q.project \in DevlogProjects
  BY <1>1 DEF SoundJob
<1>4. SoundRow(new, MadeFor)
  BY <1>3 DEF SoundRow, Session
<1> HIDE DEF new
<1>5. CASE UNCHANGED lookoutSessions
  BY <1>1, <1>5, OnlyJobMoves, IdleJob
<1>6. CASE Save(s, new)
  <2>1. DevlogsInv' /\ \A t \in SessionRows : lookoutSessions'[t] = lookoutSessions[t] \/ t = s
    BY <1>1, <1>4, <1>6, JobSaves
  <2>2. s \notin SessionRows
    BY <1>1 DEF SessionRows
  <2>3. \A t \in SessionRows : KeepsEvidence(t)
    BY <2>1, <2>2 DEF KeepsEvidence, SessionRows
  <2>4. QED
    BY <2>1, <2>3
<1>7. QED
  BY <1>2, <1>5, <1>6

LEMMA SaveDevlogKeeps ==
    ASSUME DevlogsInv, NEW r \in Requests, NEW d \in DevlogIds, SaveDevlog(r, d)
    PROVE  DevlogsInv' /\ \A s \in SessionRows : KeepsEvidence(s)
<1> DEFINE q == job[r]
           new == [project |-> q.project, approved |-> FALSE, hours |-> None]
<1>1. SoundJob(q, MadeFor) /\ q.stage = "uploading" /\ devlogs[d] = Unborn
      /\ UNCHANGED <<projectRows, lookoutSessions>>
  BY DEF DevlogsInv, SaveDevlog
<1>2. \/ job' = [job EXCEPT ![r] = NoJob] /\ devlogs' = devlogs
      \/ /\ devlogs' = [devlogs EXCEPT ![d] = new]
         /\ \/ job' = [job EXCEPT ![r] = NoJob]
            \/ q.session # None /\ job' = [job EXCEPT ![r].stage = "attach", ![r].devlog = d]
  BY DEF SaveDevlog, EndJob, Turn
<1>3. job' = [job EXCEPT ![r].stage = "attach", ![r].devlog = d]
          => job' = [job EXCEPT ![r] = [q EXCEPT !.stage = "attach", !.devlog = d]]
  OBVIOUS
<1> HIDE DEF q
<1>4. q \in Job /\ q.project \in DevlogProjects
  BY <1>1 DEF SoundJob
<1>5. new \in Devlog /\ new.project = q.project /\ new.approved = FALSE /\ new.hours = None
  BY <1>4 DEF Devlog
<1> HIDE DEF new
<1>6. CASE job' = [job EXCEPT ![r] = NoJob] /\ devlogs' = devlogs
  BY <1>1, <1>6, OnlyJobMoves, IdleJob
<1>7. CASE devlogs' = [devlogs EXCEPT ![d] = new]
  <2>1. /\ devlogs'[d] = new /\ \A e \in DevlogIds \ {d} : devlogs'[e] = devlogs[e]
        /\ devlogs' \in [DevlogIds -> Devlog \cup {Unborn, Deleted}]
    BY <1>5, <1>7 DEF DevlogsInv, DevlogsTypeOK
  <2>2. new \notin {Unborn, Deleted}
    BY <1>5, DevlogsAssumption
  <2>3. DevlogRows' = DevlogRows \cup {d} /\ d \notin DevlogRows
    BY <1>1, <2>1, <2>2 DEF DevlogRows
  <2>4. DevlogsStay
    BY <1>1, <2>1, <2>2, <2>3 DEF DevlogsStay
  <2>5. <<d, q.project>> \in MadeFor'
    BY <1>4, <1>5, <2>1, <2>2 DEF MadeFor
  <2>6. SoundJob([q EXCEPT !.stage = "attach", !.devlog = d], MadeFor') \/ q.session = None
    BY <1>1, <1>4, <2>5 DEF SoundJob, Job, JobStages
  <2>7. job' \in [Requests -> Job] /\ \A t \in Requests : SoundJob(job'[t], MadeFor')
    <3>1. CASE job' = [job EXCEPT ![r] = NoJob]
      BY <2>4, <3>1, JobMoves, IdleJob
    <3>2. CASE q.session # None /\ job' = [job EXCEPT ![r] = [q EXCEPT !.stage = "attach", !.devlog = d]]
      BY <2>4, <2>6, <3>2, JobMoves
    <3>3. CASE devlogs' = devlogs
      BY <1>1, <2>1, <2>2, <3>3
    <3>4. QED
      BY <1>2, <1>3, <3>1, <3>2, <3>3
  <2>8. \A e \in DevlogRows' : devlogs'[e].approved = (devlogs'[e].hours # None)
    <3>1. new.approved = (new.hours # None)
      BY <1>5
    <3>2. DevlogRows \subseteq DevlogIds
      BY DEF DevlogRows
    <3>3. QED
      BY <2>1, <2>3, <3>1, <3>2 DEF DevlogsInv, DevlogsTypeOK
  <2>9. DevlogsTypeOK'
    BY <1>1, <2>1, <2>7, <2>8 DEF DevlogsInv, DevlogsTypeOK, Job
  <2>10. EvidenceBelongs'
    <3>1. SessionRows' = SessionRows
      BY <1>1 DEF SessionRows
    <3>2. \A e \in DevlogRows : devlogs'[e] = devlogs[e]
      BY <2>1, <2>3 DEF DevlogRows
    <3>3. QED
      BY <1>1, <2>3, <3>1, <3>2 DEF DevlogsInv, EvidenceBelongs
  <2>11. \A s \in SessionRows : KeepsEvidence(s)
    BY <1>1 DEF KeepsEvidence, SessionRows
  <2>12. QED
    BY <2>7, <2>9, <2>10, <2>11 DEF DevlogsInv
<1>8. QED
  BY <1>2, <1>6, <1>7

(* A session gets old, in the eyes of whoever has read it too.              *)
LEMMA AgeKeeps ==
    ASSUME DevlogsInv, NEW s \in SessionIds, Age(s)
    PROVE  DevlogsInv' /\ \A t \in SessionRows : KeepsEvidence(t)
<1>1. /\ s \in SessionRows /\ UNCHANGED <<projectRows, devlogs>>
      /\ lookoutSessions' = [lookoutSessions EXCEPT ![s].old = TRUE]
      /\ job' = [r \in Requests |->
            IF job[r].session = s /\ job[r].row # None THEN [job[r] EXCEPT !.row.old = TRUE]
            ELSE job[r]]
  BY DEF Age
<1> DEFINE entity == lookoutSessions[s]
<1>2. entity \in Session
  BY <1>1, RowsAre DEF DevlogsInv
<1>3. lookoutSessions'[s] = [entity EXCEPT !.old = TRUE]
      /\ \A t \in SessionIds \ {s} : lookoutSessions'[t] = lookoutSessions[t]
  BY <1>1 DEF DevlogsInv, DevlogsTypeOK
<1> HIDE DEF entity
<1>4. /\ lookoutSessions'[s] \in Session /\ lookoutSessions'[s].project = entity.project
      /\ lookoutSessions'[s].devlog = entity.devlog /\ lookoutSessions'[s].cdn = entity.cdn
  BY <1>2, <1>3 DEF Session
<1>5. lookoutSessions'[s] \notin {Unborn, Deleted}
  BY <1>4, DevlogsAssumption
<1>6. SessionRows' = SessionRows /\ SessionRows \subseteq SessionIds
  BY <1>1, <1>3, <1>5 DEF SessionRows
<1>7. \A t \in SessionRows : /\ lookoutSessions'[t].project = lookoutSessions[t].project
                             /\ lookoutSessions'[t].devlog = lookoutSessions[t].devlog
                             /\ lookoutSessions'[t].cdn = lookoutSessions[t].cdn
  BY <1>3, <1>4, <1>6 DEF entity
<1>8. lookoutSessions' \in [SessionIds -> Session \cup {Unborn, Deleted}]
  BY <1>1, <1>3, <1>4 DEF DevlogsInv, DevlogsTypeOK
<1>9. DevlogsStay /\ DevlogRows' = DevlogRows
  BY <1>1, NoDevlogMoves
<1>10. ASSUME NEW r \in Requests PROVE job'[r] \in Job /\ SoundJob(job'[r], MadeFor')
  <2> DEFINE q == job[r]
  <2>1. SoundJob(q, MadeFor') /\ q \in Job
    BY <1>9, MadeStays DEF DevlogsInv, SoundJob
  <2>2. job'[r] = IF q.session = s /\ q.row # None THEN [q EXCEPT !.row.old = TRUE] ELSE q
    BY <1>1
  <2> HIDE DEF q
  <2>3. CASE q.session = s /\ q.row # None
    <3> DEFINE read == q.row
               older == [read EXCEPT !.old = TRUE]
    <3>1. read \in Session
      BY <2>1, <2>3 DEF Job
    <3>2. job'[r] = [q EXCEPT !.row = older]
      BY <2>1, <2>2, <2>3 DEF Job
    <3> HIDE DEF read
    <3>3. older \in Session /\ older.project = read.project /\ older.devlog = read.devlog
      BY <3>1 DEF Session
    <3> HIDE DEF older
    <3>4. /\ job'[r] \in Job /\ job'[r].row = older /\ job'[r].stage = q.stage /\ job'[r].project = q.project
          /\ job'[r].devlog = q.devlog /\ job'[r].session = q.session
      BY <2>1, <3>2, <3>3 DEF Job
    <3>5. SoundRow(read, MadeFor') => SoundRow(older, MadeFor')
      BY <3>3 DEF SoundRow
    <3>6. QED
      BY <2>1, <3>3, <3>4, <3>5 DEF SoundJob, read
  <2>4. CASE ~(q.session = s /\ q.row # None)
    BY <2>1, <2>2, <2>4
  <2>5. QED
    BY <2>3, <2>4
<1>11. job' \in [Requests -> Job]
  <2>1. job' = [r \in Requests |-> job'[r]]
    BY <1>1
  <2>2. QED
    BY <1>10, <2>1
<1>12. DevlogsTypeOK'
  BY <1>1, <1>8, <1>9, <1>11 DEF DevlogsInv, DevlogsTypeOK, Job
<1>13. EvidenceBelongs'
  BY <1>1, <1>6, <1>7, <1>9 DEF DevlogsInv, EvidenceBelongs
<1>14. \A t \in SessionRows : KeepsEvidence(t)
  <2>1. \A t \in SessionRows : lookoutSessions'[t] \notin {Unborn, Deleted}
    BY <1>6 DEF SessionRows
  <2>2. QED
    BY <1>7, <2>1 DEF KeepsEvidence
<1>15. QED
  BY <1>10, <1>12, <1>13, <1>14 DEF DevlogsInv

(* Rows of sessions go, or lose a devlog; no request moves.                 *)
LEMMA RowsGo ==
    ASSUME DevlogsInv, UNCHANGED job, DevlogsStay, projectRows' \subseteq DevlogProjects,
           devlogs' \in [DevlogIds -> Devlog \cup {Unborn, Deleted}],
           \A d \in DevlogRows' : devlogs'[d].approved = (devlogs'[d].hours # None),
           lookoutSessions' \in [SessionIds -> Session \cup {Unborn, Deleted}],
           \A s \in SessionRows' :
              /\ s \in SessionRows /\ lookoutSessions'[s].project = lookoutSessions[s].project
              /\ lookoutSessions'[s].devlog \in {lookoutSessions[s].devlog, None}
              /\ lookoutSessions'[s].project \in projectRows'
              /\ lookoutSessions'[s].devlog # None =>
                    /\ lookoutSessions'[s].devlog \in DevlogRows'
                    /\ devlogs'[lookoutSessions'[s].devlog].project = lookoutSessions'[s].project
    PROVE  DevlogsInv'
<1>1. DevlogsTypeOK'
  BY DEF DevlogsInv, DevlogsTypeOK
<1>2. EvidenceBelongs'
  BY DEF DevlogsInv, EvidenceBelongs
<1>3. \A r \in Requests : SoundJob(job[r], MadeFor')
  BY MadeStays DEF DevlogsInv
<1>4. QED
  BY <1>1, <1>2, <1>3 DEF DevlogsInv

LEMMA PruneKeeps ==
    ASSUME DevlogsInv, Prune
    PROVE  DevlogsInv' /\ \A s \in SessionRows : KeepsEvidence(s)
<1>1. /\ UNCHANGED <<projectRows, devlogs, job>>
      /\ lookoutSessions' = [s \in SessionIds |-> IF Stale(s) THEN Deleted ELSE lookoutSessions[s]]
  BY DEF Prune
<1>2. \A s \in SessionIds : lookoutSessions'[s] = Deleted \/ lookoutSessions'[s] = lookoutSessions[s]
  BY <1>1
<1>3. SessionRows' \subseteq SessionRows /\ \A s \in SessionRows' : lookoutSessions'[s] = lookoutSessions[s]
  BY <1>2 DEF SessionRows
<1>4. lookoutSessions' \in [SessionIds -> Session \cup {Unborn, Deleted}]
  BY <1>1, <1>2 DEF DevlogsInv, DevlogsTypeOK
<1>5. DevlogsStay /\ DevlogRows' = DevlogRows
  BY <1>1, NoDevlogMoves
<1>6. /\ projectRows' \subseteq DevlogProjects
      /\ devlogs' \in [DevlogIds -> Devlog \cup {Unborn, Deleted}]
      /\ \A d \in DevlogRows' : devlogs'[d].approved = (devlogs'[d].hours # None)
  BY <1>1, <1>5 DEF DevlogsInv, DevlogsTypeOK
<1>7. ASSUME NEW s \in SessionRows'
      PROVE  /\ s \in SessionRows /\ lookoutSessions'[s].project = lookoutSessions[s].project
             /\ lookoutSessions'[s].devlog \in {lookoutSessions[s].devlog, None}
             /\ lookoutSessions'[s].project \in projectRows'
             /\ lookoutSessions'[s].devlog # None =>
                    /\ lookoutSessions'[s].devlog \in DevlogRows'
                    /\ devlogs'[lookoutSessions'[s].devlog].project = lookoutSessions'[s].project
  BY <1>1, <1>3, <1>5 DEF DevlogsInv, EvidenceBelongs
<1>8. DevlogsInv'
  BY <1>1, <1>4, <1>5, <1>6, <1>7, RowsGo
<1>9. ASSUME NEW s \in SessionRows PROVE KeepsEvidence(s)
  <2>1. lookoutSessions[s].devlog # None => lookoutSessions'[s] = lookoutSessions[s]
    BY <1>1 DEF Stale, SessionRows
  <2>2. QED
    BY <2>1 DEF KeepsEvidence, SessionRows
<1>10. QED
  BY <1>8, <1>9

LEMMA DeleteOwnKeeps ==
    ASSUME DevlogsInv, NEW d \in DevlogIds, DeleteOwn(d)
    PROVE  DevlogsInv' /\ \A s \in SessionRows : KeepsEvidence(s)
<1>1. /\ d \in DevlogRows /\ UNCHANGED <<projectRows, job>>
      /\ devlogs' = [devlogs EXCEPT ![d] = Deleted]
      /\ lookoutSessions' = [s \in SessionIds |->
            IF s \in SessionRows /\ lookoutSessions[s].devlog = d
            THEN [lookoutSessions[s] EXCEPT !.devlog = None] ELSE lookoutSessions[s]]
  BY DEF DeleteOwn
<1>2. /\ devlogs'[d] = Deleted /\ \A e \in DevlogIds \ {d} : devlogs'[e] = devlogs[e]
      /\ devlogs' \in [DevlogIds -> Devlog \cup {Unborn, Deleted}]
  BY <1>1 DEF DevlogsInv, DevlogsTypeOK
<1>3. DevlogRows' = DevlogRows \ {d}
  BY <1>2 DEF DevlogRows
<1>4. DevlogsStay
  BY <1>1, <1>2, <1>3, DevlogsAssumption DEF DevlogsStay
<1>5. /\ projectRows' \subseteq DevlogProjects
      /\ \A e \in DevlogRows' : devlogs'[e].approved = (devlogs'[e].hours # None)
  BY <1>1, <1>2, <1>3 DEF DevlogsInv, DevlogsTypeOK, DevlogRows
<1>6. ASSUME NEW s \in SessionRows
      PROVE  /\ lookoutSessions'[s] \in Session /\ lookoutSessions'[s].project = lookoutSessions[s].project
             /\ lookoutSessions'[s].cdn = lookoutSessions[s].cdn
             /\ lookoutSessions'[s].devlog = IF lookoutSessions[s].devlog = d THEN None ELSE lookoutSessions[s].devlog
  <2> DEFINE entity == lookoutSessions[s]
  <2>1. entity \in Session
    BY RowsAre DEF DevlogsInv
  <2>2. lookoutSessions'[s] = IF entity.devlog = d THEN [entity EXCEPT !.devlog = None] ELSE entity
    BY <1>1 DEF SessionRows
  <2> HIDE DEF entity
  <2>3. lookoutSessions'[s] \in Session /\ lookoutSessions'[s].project = entity.project
        /\ lookoutSessions'[s].cdn = entity.cdn
        /\ lookoutSessions'[s].devlog = IF entity.devlog = d THEN None ELSE entity.devlog
    BY <2>1, <2>2 DEF Session
  <2>4. QED
    BY <2>3 DEF entity
<1>7. \A s \in SessionIds \ SessionRows : lookoutSessions'[s] = lookoutSessions[s]
  BY <1>1
<1>8. \A s \in SessionRows : lookoutSessions'[s] \notin {Unborn, Deleted}
  BY <1>6, DevlogsAssumption
<1>9. SessionRows' = SessionRows /\ SessionRows \subseteq SessionIds
  BY <1>7, <1>8 DEF SessionRows
<1>10. lookoutSessions' \in [SessionIds -> Session \cup {Unborn, Deleted}]
  <2>1. \A s \in SessionIds : lookoutSessions'[s] \in Session \cup {Unborn, Deleted}
    BY <1>6, <1>7 DEF SessionRows
  <2>2. lookoutSessions' = [s \in SessionIds |-> lookoutSessions'[s]]
    BY <1>1
  <2>3. QED
    BY <2>1, <2>2
<1>11. ASSUME NEW s \in SessionRows'
       PROVE  /\ s \in SessionRows /\ lookoutSessions'[s].project = lookoutSessions[s].project
              /\ lookoutSessions'[s].devlog \in {lookoutSessions[s].devlog, None}
              /\ lookoutSessions'[s].project \in projectRows'
              /\ lookoutSessions'[s].devlog # None =>
                    /\ lookoutSessions'[s].devlog \in DevlogRows'
                    /\ devlogs'[lookoutSessions'[s].devlog].project = lookoutSessions'[s].project
  <2>1. /\ lookoutSessions[s].project \in projectRows
        /\ lookoutSessions[s].devlog # None =>
              /\ lookoutSessions[s].devlog \in DevlogRows
              /\ devlogs[lookoutSessions[s].devlog].project = lookoutSessions[s].project
    BY <1>9 DEF DevlogsInv, EvidenceBelongs
  <2>2. DevlogRows \subseteq DevlogIds
    BY DEF DevlogRows
  <2>3. QED
    BY <1>1, <1>2, <1>3, <1>6, <1>9, <2>1, <2>2
<1>12. DevlogsInv'
  BY <1>1, <1>2, <1>4, <1>5, <1>10, <1>11, RowsGo
<1>13. ASSUME NEW s \in SessionRows PROVE KeepsEvidence(s)
  BY <1>2, <1>6, <1>8 DEF KeepsEvidence
<1>14. QED
  BY <1>12, <1>13

LEMMA DeleteProjectKeeps ==
    ASSUME DevlogsInv, NEW p \in DevlogProjects, DeleteProject(p)
    PROVE  DevlogsInv' /\ \A s \in SessionRows : KeepsEvidence(s)
<1>1. /\ p \in projectRows /\ projectRows' = projectRows \ {p} /\ UNCHANGED job
      /\ devlogs' = [d \in DevlogIds |->
            IF d \in DevlogRows /\ devlogs[d].project = p
            THEN [devlogs[d] EXCEPT !.project = None] ELSE devlogs[d]]
      /\ lookoutSessions' = [s \in SessionIds |->
            IF s \in SessionRows /\ lookoutSessions[s].project = p THEN Deleted ELSE lookoutSessions[s]]
  BY DEF DeleteProject
<1>2. ASSUME NEW d \in DevlogRows
      PROVE  /\ devlogs'[d] \in Devlog /\ devlogs'[d].hours = devlogs[d].hours
             /\ devlogs'[d].approved = devlogs[d].approved
             /\ devlogs[d].project # p => devlogs'[d].project = devlogs[d].project
  <2> DEFINE entity == devlogs[d]
  <2>1. entity \in Devlog
    BY RowsAre DEF DevlogsInv
  <2>2. devlogs'[d] = IF entity.project = p THEN [entity EXCEPT !.project = None] ELSE entity
    BY <1>1 DEF DevlogRows
  <2> HIDE DEF entity
  <2>3. /\ devlogs'[d] \in Devlog /\ devlogs'[d].hours = entity.hours
        /\ devlogs'[d].approved = entity.approved
        /\ entity.project # p => devlogs'[d].project = entity.project
    BY <2>1, <2>2 DEF Devlog
  <2>4. QED
    BY <2>3 DEF entity
<1>3. \A d \in DevlogIds \ DevlogRows : devlogs'[d] = devlogs[d]
  BY <1>1
<1>4. DevlogRows' = DevlogRows /\ DevlogRows \subseteq DevlogIds
  <2>1. \A d \in DevlogRows : devlogs'[d] \notin {Unborn, Deleted}
    BY <1>2, DevlogsAssumption
  <2>2. QED
    BY <1>3, <2>1 DEF DevlogRows
<1>5. DevlogsStay
  <2>1. \A d \in DevlogIds : devlogs[d] # Unborn => devlogs'[d] # Unborn
    BY <1>3, <1>4 DEF DevlogRows
  <2>2. QED
    BY <1>1, <1>2, <1>4, <2>1 DEF DevlogsStay
<1>6. /\ projectRows' \subseteq DevlogProjects
      /\ devlogs' \in [DevlogIds -> Devlog \cup {Unborn, Deleted}]
      /\ \A d \in DevlogRows' : devlogs'[d].approved = (devlogs'[d].hours # None)
  <2>1. \A d \in DevlogIds : devlogs'[d] \in Devlog \cup {Unborn, Deleted}
    BY <1>2, <1>3 DEF DevlogRows
  <2>2. devlogs' = [d \in DevlogIds |-> devlogs'[d]]
    BY <1>1
  <2>3. devlogs' \in [DevlogIds -> Devlog \cup {Unborn, Deleted}]
    BY <2>1, <2>2
  <2>4. QED
    BY <1>1, <1>2, <1>4, <2>3 DEF DevlogsInv, DevlogsTypeOK
<1>7. \A s \in SessionIds : \/ lookoutSessions'[s] = Deleted /\ s \in SessionRows /\ lookoutSessions[s].project = p
                            \/ /\ lookoutSessions'[s] = lookoutSessions[s]
                               /\ ~(s \in SessionRows /\ lookoutSessions[s].project = p)
  BY <1>1
<1>8. /\ \A s \in SessionRows' : /\ s \in SessionRows /\ lookoutSessions'[s] = lookoutSessions[s]
                                 /\ lookoutSessions[s].project # p
      /\ lookoutSessions' \in [SessionIds -> Session \cup {Unborn, Deleted}]
  BY <1>1, <1>7 DEF DevlogsInv, DevlogsTypeOK, SessionRows
<1>9. ASSUME NEW s \in SessionRows'
      PROVE  /\ s \in SessionRows /\ lookoutSessions'[s].project = lookoutSessions[s].project
             /\ lookoutSessions'[s].devlog \in {lookoutSessions[s].devlog, None}
             /\ lookoutSessions'[s].project \in projectRows'
             /\ lookoutSessions'[s].devlog # None =>
                    /\ lookoutSessions'[s].devlog \in DevlogRows'
                    /\ devlogs'[lookoutSessions'[s].devlog].project = lookoutSessions'[s].project
  <2>1. /\ lookoutSessions[s].project \in projectRows \ {p}
        /\ lookoutSessions[s].devlog # None =>
              /\ lookoutSessions[s].devlog \in DevlogRows
              /\ devlogs[lookoutSessions[s].devlog].project = lookoutSessions[s].project
    BY <1>8 DEF DevlogsInv, EvidenceBelongs
  <2>2. QED
    BY <1>1, <1>2, <1>4, <1>8, <2>1
<1>10. DevlogsInv'
  BY <1>1, <1>5, <1>6, <1>8, <1>9, RowsGo
<1>11. ASSUME NEW s \in SessionRows PROVE KeepsEvidence(s)
  <2>1. \/ lookoutSessions[s].project \notin projectRows'
        \/ lookoutSessions'[s] = lookoutSessions[s] /\ lookoutSessions[s] \notin {Unborn, Deleted}
    BY <1>1, <1>7 DEF SessionRows
  <2>2. QED
    BY <2>1 DEF KeepsEvidence
<1>12. QED
  BY <1>10, <1>11

LEMMA ReviewDevlogKeeps ==
    ASSUME DevlogsInv, NEW d \in DevlogIds, NEW approved \in BOOLEAN, NEW h \in ApprovedHours \cup {0},
           ReviewDevlog(d, approved, h)
    PROVE  DevlogsInv' /\ \A s \in SessionRows : KeepsEvidence(s)
<1> DEFINE entity == devlogs[d]
           given == IF approved THEN h ELSE None
<1>1. d \in DevlogRows /\ UNCHANGED <<projectRows, lookoutSessions, job>>
      /\ devlogs' = [devlogs EXCEPT ![d] = [entity EXCEPT !.approved = approved, !.hours = given]]
  BY DEF ReviewDevlog
<1>2. entity \in Devlog
  BY <1>1, RowsAre DEF DevlogsInv
<1>3. given \in ApprovedHours \cup {0, None} /\ (given # None <=> approved)
  BY DevlogsAssumption
<1>4. devlogs'[d] = [entity EXCEPT !.approved = approved, !.hours = given]
      /\ \A e \in DevlogIds \ {d} : devlogs'[e] = devlogs[e]
  BY <1>1 DEF DevlogsInv, DevlogsTypeOK
<1> HIDE DEF given, entity
<1>5. devlogs'[d] \in Devlog /\ devlogs'[d].project = entity.project
      /\ devlogs'[d].approved = approved /\ devlogs'[d].hours = given
  BY <1>2, <1>3, <1>4 DEF Devlog
<1>6. devlogs' \in [DevlogIds -> Devlog \cup {Unborn, Deleted}]
  BY <1>1, <1>4, <1>5 DEF DevlogsInv, DevlogsTypeOK
<1>7. DevlogRows' = DevlogRows /\ DevlogRows \subseteq DevlogIds
  BY <1>1, <1>4, <1>5, DevlogsAssumption DEF DevlogRows
<1>8. \A e \in DevlogRows : devlogs'[e].project = devlogs[e].project
  BY <1>4, <1>5, <1>7 DEF entity
<1>9. DevlogsStay
  BY <1>1, <1>4, <1>5, <1>7, <1>8, DevlogsAssumption DEF DevlogsStay
<1>10. \A e \in DevlogRows' : devlogs'[e].approved = (devlogs'[e].hours # None)
  <2>1. devlogs'[d].approved = (devlogs'[d].hours # None)
    BY <1>3, <1>5
  <2>2. QED
    BY <1>4, <1>7, <2>1 DEF DevlogsInv, DevlogsTypeOK
<1>11. SessionRows' = SessionRows
  BY <1>1 DEF SessionRows
<1>12. projectRows' \subseteq DevlogProjects
       /\ lookoutSessions' \in [SessionIds -> Session \cup {Unborn, Deleted}]
  BY <1>1 DEF DevlogsInv, DevlogsTypeOK
<1>13. \A s \in SessionRows' :
              /\ s \in SessionRows /\ lookoutSessions'[s].project = lookoutSessions[s].project
              /\ lookoutSessions'[s].devlog \in {lookoutSessions[s].devlog, None}
              /\ lookoutSessions'[s].project \in projectRows'
              /\ lookoutSessions'[s].devlog # None =>
                    /\ lookoutSessions'[s].devlog \in DevlogRows'
                    /\ devlogs'[lookoutSessions'[s].devlog].project = lookoutSessions'[s].project
  BY <1>1, <1>7, <1>8, <1>11 DEF DevlogsInv, EvidenceBelongs
<1>14. DevlogsInv'
  BY <1>1, <1>6, <1>9, <1>10, <1>12, <1>13, RowsGo
<1>15. \A s \in SessionRows : KeepsEvidence(s)
  BY <1>1 DEF KeepsEvidence, SessionRows
<1>16. QED
  BY <1>14, <1>15

LEMMA DevlogsCrashKeeps ==
    ASSUME DevlogsInv, DevlogsCrash
    PROVE  DevlogsInv' /\ \A s \in SessionRows : KeepsEvidence(s)
<1>1. job' = [r \in Requests |-> NoJob] /\ UNCHANGED <<projectRows, devlogs, lookoutSessions>>
  BY DEF DevlogsCrash
<1>2. job' \in [Requests -> Job] /\ \A r \in Requests : SoundJob(job'[r], MadeFor')
  BY <1>1, IdleJob
<1>3. DevlogsTypeOK'
  BY <1>1, <1>2 DEF DevlogsInv, DevlogsTypeOK, DevlogRows, Job
<1>4. EvidenceBelongs'
  BY <1>1 DEF DevlogsInv, EvidenceBelongs, SessionRows, DevlogRows
<1>5. \A s \in SessionRows : KeepsEvidence(s)
  BY <1>1 DEF KeepsEvidence, SessionRows
<1>6. QED
  BY <1>2, <1>3, <1>4, <1>5 DEF DevlogsInv

LEMMA DevlogsStep ==
    ASSUME DevlogsInv, [DevlogsNext]_devlogVars
    PROVE  DevlogsInv' /\ \A s \in SessionRows : KeepsEvidence(s)
<1>1. CASE DevlogsNext
  <2>1. ASSUME NEW r \in Requests, Proceed(r)
        PROVE  DevlogsInv' /\ \A s \in SessionRows : KeepsEvidence(s)
    BY <2>1, RequestAsks, SaveDevlogKeeps, ReadFreeSessionKeeps, AttachKeeps, SaveLookoutKeeps,
       ReadForMirrorKeeps, MirroredKeeps DEF Proceed
  <2>2. ASSUME NEW r \in Requests,
               \/ \E p \in DevlogProjects : (\E s \in SessionIds \cup {None} : CreateDevlog(r, p, s)) \/ OpenSession(r, p)
               \/ \E s \in SessionIds : Export(r, s)
        PROVE  DevlogsInv' /\ \A s \in SessionRows : KeepsEvidence(s)
    BY <2>2, RequestAsks
  <2>3. QED
    BY <1>1, <2>1, <2>2, AgeKeeps, PruneKeeps, DeleteOwnKeeps, ReviewDevlogKeeps, DeleteProjectKeeps,
       DevlogsCrashKeeps DEF DevlogsNext
<1>2. CASE UNCHANGED devlogVars
  <2>1. UNCHANGED <<projectRows, devlogs, lookoutSessions, job>>
    BY <1>2 DEF devlogVars
  <2>2. DevlogsInv'
    BY <2>1 DEF DevlogsInv, DevlogsTypeOK, EvidenceBelongs, SessionRows, DevlogRows, MadeFor
  <2>3. \A s \in SessionRows : KeepsEvidence(s)
    BY <2>1 DEF KeepsEvidence, SessionRows
  <2>4. QED
    BY <2>2, <2>3
<1>3. QED
  BY <1>1, <1>2

LEMMA DevlogsInvInit == DevlogsInit => DevlogsInv
<1> SUFFICES ASSUME DevlogsInit PROVE DevlogsInv
  OBVIOUS
<1>1. DevlogRows = {} /\ SessionRows = {}
  BY DEF DevlogsInit, DevlogRows, SessionRows
<1>2. DevlogsTypeOK
  BY <1>1, IdleJob DEF DevlogsInit, DevlogsTypeOK, Job
<1>3. EvidenceBelongs
  BY <1>1 DEF EvidenceBelongs
<1>4. \A r \in Requests : SoundJob(job[r], MadeFor)
  BY IdleJob DEF DevlogsInit
<1>5. QED
  BY <1>2, <1>3, <1>4 DEF DevlogsInv

(* Whatever requests save over each other, no row says of a devlog's        *)
(* project what was never true of it.                                       *)
THEOREM DevlogsInvariant == DevlogsSpec => []DevlogsInv
<1>1. DevlogsInv /\ [DevlogsNext]_devlogVars => DevlogsInv'
  BY DevlogsStep
<1>2. QED
  BY <1>1, DevlogsInvInit, PTL DEF DevlogsSpec

(* Rows of devlogs, of sessions, and requests are of their types.           *)
THEOREM DevlogsTypeCorrect == DevlogsSpec => []DevlogsTypeOK
<1>1. DevlogsInv => DevlogsTypeOK
  BY DEF DevlogsInv
<1>2. QED
  BY <1>1, DevlogsInvariant, PTL

(* A timelapse is attached to one devlog of the project it was recorded on, *)
(* and stays there until it is deleted, or overwritten by a stale row.      *)
THEOREM EvidenceIsKept == DevlogsSpec => EvidenceStands
<1>1. DevlogsInv => EvidenceBelongs
  BY DEF DevlogsInv
<1>2. DevlogsInv /\ [DevlogsNext]_devlogVars => [\A s \in SessionRows : KeepsEvidence(s)]_devlogVars
  BY DevlogsStep
<1>3. QED
  BY <1>1, <1>2, DevlogsInvariant, PTL DEF DevlogsSpec, EvidenceStands, EvidenceKept

(***************************************************************************)
(* Certificates.  Who saves an order whole has read it; so whatever an     *)
(* order loses, it loses to a request that says so.                        *)
(***************************************************************************)

ErrandStages == {"idle", "prefer", "undo", "fields", "order", "sum", "find", "insert", "update"}
ErrandRow == [stage: ErrandStages,
              for: {"prefer", "fulfil", "sync", None},
              order: CertOrders \cup {None}, row: OrderRow \cup {None}, grant: BOOLEAN,
              award: SUBSET CertOrders, cert: Certificate \cup {None}, left: SUBSET CertOrders]

SoundErrand(e) ==
    /\ e \in ErrandRow
    /\ e.stage # "idle" => e.order \in CertOrders
    /\ e.stage \in {"prefer", "undo", "fields"} => e.row \in OrderRow
    /\ e.stage \in {"order", "sum"} /\ e.for = "prefer" => e.row \in OrderRow
    /\ e.stage = "prefer" => e.for = "prefer"
    /\ e.stage = "update" => e.cert \in Certificate

KeysHeld == \A c \in certificates : KeysAllow(c, certificates \ {c})

CertInv ==
    /\ orders \in [CertOrders -> OrderRow]
    /\ certificates \subseteq Certificate /\ KeysHeld
    /\ errand \in [Requests -> ErrandRow]
    /\ \A r \in Requests : SoundErrand(errand[r])

LEMMA IdleErrand == SoundErrand(NoErrand) /\ NoErrand.stage = "idle"
  BY DEF SoundErrand, ErrandRow, ErrandStages, NoErrand

LEMMA ErrandBegins ==
    ASSUME NEW o \in CertOrders
    PROVE  /\ SoundErrand(Generate(o, "fulfil"))
           /\ \A left \in SUBSET CertOrders : SoundErrand([Generate(o, "sync") EXCEPT !.left = left])
           /\ \A entity \in OrderRow :
                /\ SoundErrand([NoErrand EXCEPT !.stage = "prefer", !.for = "prefer", !.order = o, !.row = entity])
                /\ SoundErrand([NoErrand EXCEPT !.stage = "fields", !.order = o, !.row = entity])
<1>1. SoundErrand(Generate(o, "fulfil"))
  BY DEF SoundErrand, ErrandRow, ErrandStages, NoErrand, Generate
<1>2. ASSUME NEW left \in SUBSET CertOrders
      PROVE  SoundErrand([Generate(o, "sync") EXCEPT !.left = left])
  BY DEF SoundErrand, ErrandRow, ErrandStages, NoErrand, Generate
<1>3. ASSUME NEW entity \in OrderRow
      PROVE  /\ SoundErrand([NoErrand EXCEPT !.stage = "prefer", !.for = "prefer", !.order = o, !.row = entity])
             /\ SoundErrand([NoErrand EXCEPT !.stage = "fields", !.order = o, !.row = entity])
  BY DEF SoundErrand, ErrandRow, ErrandStages, NoErrand
<1>4. QED
  BY <1>1, <1>2, <1>3

(* One request moves.                                                       *)
ErrandGoes(r) == \E e : SoundErrand(e) /\ errand' = [errand EXCEPT ![r] = e]

LEMMA ErrandMoves ==
    ASSUME CertInv, NEW r \in Requests, ErrandGoes(r)
    PROVE  errand' \in [Requests -> ErrandRow] /\ \A t \in Requests : SoundErrand(errand'[t])
<1>1. PICK e : SoundErrand(e) /\ errand' = [errand EXCEPT ![r] = e]
  BY DEF ErrandGoes
<1>2. e \in ErrandRow
  BY <1>1 DEF SoundErrand
<1>3. errand' \in [Requests -> ErrandRow] /\ errand'[r] = e /\ \A t \in Requests \ {r} : errand'[t] = errand[t]
  BY <1>1, <1>2 DEF CertInv
<1>4. QED
  BY <1>1, <1>3 DEF CertInv

LEMMA IssuedMoves ==
    ASSUME CertInv, NEW r \in Requests, Issued(r)
    PROVE  ErrandGoes(r)
<1>1. CASE errand' = [errand EXCEPT ![r] = NoErrand]
  BY <1>1, IdleErrand DEF ErrandGoes
<1>2. ASSUME NEW o \in errand[r].left,
             errand' = [errand EXCEPT ![r] = [Generate(o, "sync") EXCEPT !.left = errand[r].left \ {o}]]
      PROVE  ErrandGoes(r)
  <2>1. errand[r].left \in SUBSET CertOrders
    BY DEF CertInv, SoundErrand, ErrandRow
  <2>2. SoundErrand([Generate(o, "sync") EXCEPT !.left = errand[r].left \ {o}])
    BY <2>1, ErrandBegins
  <2>3. QED
    BY <1>2, <2>2 DEF ErrandGoes
<1>3. QED
  BY <1>1, <1>2 DEF Issued, AfterSync, Turn

LEMMA NoCertificateMoves ==
    ASSUME CertInv, NEW r \in Requests, errand[r].stage \in {"order", "sum"}, NoCertificate(r)
    PROVE  ErrandGoes(r)
<1>1. CASE errand[r].for = "prefer"
  <2> DEFINE e == errand[r]
  <2>1. errand' = [errand EXCEPT ![r] = [e EXCEPT !.stage = "undo"]]
    BY <1>1 DEF NoCertificate
  <2>2. SoundErrand(e) /\ e.stage \in {"order", "sum"} /\ e.for = "prefer"
    BY <1>1 DEF CertInv
  <2> HIDE DEF e
  <2>3. SoundErrand([e EXCEPT !.stage = "undo"])
    BY <2>2 DEF SoundErrand, ErrandRow, ErrandStages
  <2>4. QED
    BY <2>1, <2>3 DEF ErrandGoes
<1>2. CASE errand[r].for # "prefer"
  BY <1>2, IssuedMoves DEF NoCertificate
<1>3. QED
  BY <1>1, <1>2

(* The indexes hold for certificates that hold them one by one.             *)
LEMMA KeysJoin ==
    ASSUME NEW S, \A c \in S : KeysAllow(c, S \ {c}), NEW T, T \subseteq S, NEW n, KeysAllow(n, T)
    PROVE  \A c \in T \cup {n} : KeysAllow(c, (T \cup {n}) \ {c})
<1>1. ASSUME NEW c \in T, NEW d \in T, d # c
      PROVE  d.order # c.order /\ (d.grant = c.grant => c.grant /\ Names(d.award) # Names(c.award))
  <2>1. KeysAllow(c, S \ {c}) /\ d \in S \ {c}
    BY <1>1
  <2>2. QED
    BY <2>1 DEF KeysAllow
<1>2. ASSUME NEW d \in T
      PROVE  /\ d.order # n.order /\ (d.grant = n.grant => n.grant /\ Names(d.award) # Names(n.award))
             /\ n.order # d.order /\ (n.grant = d.grant => d.grant /\ Names(n.award) # Names(d.award))
  <2>1. d.order # n.order /\ (d.grant = n.grant => n.grant /\ Names(d.award) # Names(n.award))
    BY DEF KeysAllow
  <2>2. ASSUME n.grant = d.grant PROVE d.grant /\ Names(n.award) # Names(d.award)
    BY <2>1, <2>2
  <2>3. QED
    BY <2>1, <2>2
<1>3. ASSUME NEW c \in T \cup {n}, NEW d \in (T \cup {n}) \ {c}
      PROVE  d.order # c.order /\ (d.grant = c.grant => c.grant /\ Names(d.award) # Names(c.award))
  <2>1. CASE c = n
    BY <1>2, <1>3, <2>1
  <2>2. CASE c # n /\ d = n
    <3>1. c \in T
      BY <2>2
    <3>2. n.order # c.order /\ (n.grant = c.grant => c.grant /\ Names(n.award) # Names(c.award))
      BY <1>2, <3>1
    <3>3. QED
      BY <2>2, <3>2
  <2>3. CASE c # n /\ d # n
    BY <1>1, <1>3, <2>3
  <2>4. QED
    BY <2>1, <2>2, <2>3
<1>4. QED
  BY <1>3 DEF KeysAllow

(* A request moves, and no row is written.                                  *)
LEMMA CertMoves ==
    ASSUME CertInv, NEW r \in Requests, ErrandGoes(r), UNCHANGED certificates,
           orders' \in [CertOrders -> OrderRow]
    PROVE  CertInv'
<1>1. errand' \in [Requests -> ErrandRow] /\ \A t \in Requests : SoundErrand(errand'[t])
  BY ErrandMoves
<1>2. QED
  BY <1>1 DEF CertInv, KeysHeld

LEMMA OrdersStay == UNCHANGED orders => \A o \in CertOrders : OrderKept(o)
  BY DEF OrderKept

(* An order saved whole is as it was, or as a request that says so read it. *)
LEMMA OrderSaved ==
    ASSUME CertInv, NEW r \in Requests, errand[r].stage \in {"prefer", "undo", "fields"}, NEW entity,
           orders' = [orders EXCEPT ![errand[r].order] = entity], entity = errand[r].row \/ errand[r].stage = "undo"
    PROVE  \A o \in CertOrders : OrderKept(o)
<1>1. errand[r].order \in CertOrders /\ errand[r].row \in OrderRow
  BY DEF CertInv, SoundErrand
<1>2. errand[r].row # None
  BY <1>1, CertificatesAssumption
<1>3. ASSUME NEW o \in CertOrders PROVE OrderKept(o)
  <2>1. CASE o # errand[r].order
    <3>1. orders'[o] = orders[o]
      BY <2>1 DEF CertInv
    <3>2. QED
      BY <3>1 DEF OrderKept
  <2>2. CASE o = errand[r].order
    <3>1. CASE errand[r].stage = "undo"
      BY <2>2, <3>1 DEF OrderKept
    <3>2. CASE errand[r].row # orders[o]
      BY <1>2, <2>2, <3>2 DEF OrderKept
    <3>3. CASE errand[r].stage # "undo" /\ errand[r].row = orders[o]
      <4>1. orders'[o] = orders[o]
        BY <2>2, <3>3 DEF CertInv
      <4>2. QED
        BY <4>1 DEF OrderKept
    <3>4. QED
      BY <3>1, <3>2, <3>3
  <2>3. QED
    BY <2>1, <2>2
<1>4. QED
  BY <1>3

LEMMA SavesOrderKeeps ==
    ASSUME CertInv, NEW r \in Requests, SavePreference(r) \/ UndoPreference(r) \/ SaveFields(r)
    PROVE  CertInv' /\ \A o \in CertOrders : OrderKept(o)
<1> DEFINE e == errand[r]
<1>1. SoundErrand(e)
  BY DEF CertInv
<1>2. CASE SavePreference(r)
  <2>1. /\ e.stage = "prefer" /\ orders' = [orders EXCEPT ![e.order] = e.row] /\ UNCHANGED certificates
        /\ \/ errand' = [errand EXCEPT ![r] = [e EXCEPT !.stage = "order"]]
           \/ errand' = [errand EXCEPT ![r] = NoErrand]
    BY <1>2 DEF SavePreference, Turn
  <2>2. \A o \in CertOrders : OrderKept(o)
    BY <2>1, OrderSaved
  <2> HIDE DEF e
  <2>3. e.order \in CertOrders /\ e.row \in OrderRow /\ SoundErrand([e EXCEPT !.stage = "order"])
    BY <1>1, <2>1 DEF SoundErrand, ErrandRow, ErrandStages
  <2>4. ErrandGoes(r)
    BY <2>1, <2>3, IdleErrand DEF ErrandGoes
  <2>5. orders' \in [CertOrders -> OrderRow]
    BY <2>1, <2>3 DEF CertInv
  <2>6. QED
    BY <2>1, <2>2, <2>4, <2>5, CertMoves
<1>3. CASE UndoPreference(r)
  <2> DEFINE back == [e.row EXCEPT !.wanted = None]
  <2>1. /\ e.stage = "undo" /\ orders' = [orders EXCEPT ![e.order] = back] /\ UNCHANGED certificates
        /\ errand' = [errand EXCEPT ![r] = NoErrand]
    BY <1>3 DEF UndoPreference, Turn
  <2>2. \A o \in CertOrders : OrderKept(o)
    BY <2>1, OrderSaved
  <2> HIDE DEF e
  <2>3. e.order \in CertOrders /\ e.row \in OrderRow
    BY <1>1, <2>1 DEF SoundErrand
  <2>4. back \in OrderRow
    BY <2>3 DEF OrderRow
  <2>5. ErrandGoes(r)
    BY <2>1, IdleErrand DEF ErrandGoes
  <2>6. orders' \in [CertOrders -> OrderRow]
    BY <2>1, <2>3, <2>4 DEF CertInv
  <2>7. QED
    BY <2>1, <2>2, <2>5, <2>6, CertMoves
<1>4. CASE SaveFields(r)
  <2>1. /\ e.stage = "fields" /\ orders' = [orders EXCEPT ![e.order] = e.row] /\ UNCHANGED certificates
        /\ errand' = [errand EXCEPT ![r] = NoErrand]
    BY <1>4 DEF SaveFields, Turn
  <2>2. \A o \in CertOrders : OrderKept(o)
    BY <2>1, OrderSaved
  <2> HIDE DEF e
  <2>3. e.order \in CertOrders /\ e.row \in OrderRow
    BY <1>1, <2>1 DEF SoundErrand
  <2>4. ErrandGoes(r)
    BY <2>1, IdleErrand DEF ErrandGoes
  <2>5. orders' \in [CertOrders -> OrderRow]
    BY <2>1, <2>3 DEF CertInv
  <2>6. QED
    BY <2>1, <2>2, <2>4, <2>5, CertMoves
<1>5. QED
  BY <1>2, <1>3, <1>4

(* One column of one order changes.                                         *)
LEMMA StatusOf ==
    ASSUME CertInv, NEW o \in CertOrders, NEW status \in {"pending", "fulfilled", "cancelled"},
           orders' = [orders EXCEPT ![o].status = status],
           orders[o].status # "pending" => status = "cancelled"
    PROVE  orders' \in [CertOrders -> OrderRow] /\ \A p \in CertOrders : OrderKept(p)
<1> DEFINE entity == orders[o]
<1>1. entity \in OrderRow /\ orders' = [orders EXCEPT ![o] = [entity EXCEPT !.status = status]]
  BY DEF CertInv
<1>2. entity.status # "pending" => status = "cancelled"
  OBVIOUS
<1> HIDE DEF entity
<1>3. /\ [entity EXCEPT !.status = status] \in OrderRow /\ [entity EXCEPT !.status = status].status = status
      /\ [entity EXCEPT !.status = status].granted = entity.granted
      /\ [entity EXCEPT !.status = status].wanted = entity.wanted
  BY <1>1 DEF OrderRow
<1>4. /\ orders' \in [CertOrders -> OrderRow] /\ orders'[o] = [entity EXCEPT !.status = status]
      /\ \A p \in CertOrders \ {o} : orders'[p] = orders[p]
  BY <1>1, <1>3 DEF CertInv
<1>5. orders'[o].status = status /\ orders'[o].granted = entity.granted /\ orders'[o].wanted = entity.wanted
  BY <1>3, <1>4
<1>6. QED
  BY <1>2, <1>4, <1>5 DEF OrderKept, entity

LEMMA StampOf ==
    ASSUME CertInv, NEW o \in CertOrders, orders' = [orders EXCEPT ![o].granted = TRUE]
    PROVE  orders' \in [CertOrders -> OrderRow] /\ \A p \in CertOrders : OrderKept(p)
<1> DEFINE entity == orders[o]
<1>1. entity \in OrderRow /\ orders' = [orders EXCEPT ![o] = [entity EXCEPT !.granted = TRUE]]
  BY DEF CertInv
<1> HIDE DEF entity
<1>2. /\ [entity EXCEPT !.granted = TRUE] \in OrderRow /\ [entity EXCEPT !.granted = TRUE].status = entity.status
      /\ [entity EXCEPT !.granted = TRUE].granted
      /\ [entity EXCEPT !.granted = TRUE].wanted = entity.wanted
  BY <1>1 DEF OrderRow
<1>3. /\ orders' \in [CertOrders -> OrderRow] /\ orders'[o] = [entity EXCEPT !.granted = TRUE]
      /\ \A p \in CertOrders \ {o} : orders'[p] = orders[p]
  BY <1>1, <1>2 DEF CertInv
<1>4. orders'[o].status = entity.status /\ orders'[o].granted /\ orders'[o].wanted = entity.wanted
  BY <1>2, <1>3
<1>5. QED
  BY <1>3, <1>4 DEF OrderKept, entity

LEMMA OrderActs ==
    ASSUME CertInv, NEW o \in CertOrders,
           \/ \E r \in StaffRequests : FulfillCertOrder(r, o)
           \/ RefundCertOrder(o)
           \/ StampOrder(o)
    PROVE  CertInv' /\ \A p \in CertOrders : OrderKept(p)
<1>1. CASE RefundCertOrder(o) \/ StampOrder(o)
  <2>1. UNCHANGED <<certificates, errand>>
    BY <1>1 DEF RefundCertOrder, StampOrder
  <2>2. orders' \in [CertOrders -> OrderRow] /\ \A p \in CertOrders : OrderKept(p)
    <3>1. CASE RefundCertOrder(o)
      BY <3>1, StatusOf DEF RefundCertOrder
    <3>2. CASE StampOrder(o)
      BY <3>2, StampOf DEF StampOrder
    <3>3. QED
      BY <1>1, <3>1, <3>2
  <2>3. CertInv'
    BY <2>1, <2>2 DEF CertInv, KeysHeld
  <2>4. QED
    BY <2>2, <2>3
<1>2. ASSUME NEW r \in StaffRequests, FulfillCertOrder(r, o)
      PROVE  CertInv' /\ \A p \in CertOrders : OrderKept(p)
  <2>1. /\ orders[o].status = "pending" /\ UNCHANGED certificates
        /\ orders' = [orders EXCEPT ![o].status = "fulfilled"]
        /\ errand' = [errand EXCEPT ![r] = Generate(o, "fulfil")] \/ errand' = errand
    BY <1>2 DEF FulfillCertOrder, Turn
  <2>2. orders' \in [CertOrders -> OrderRow] /\ \A p \in CertOrders : OrderKept(p)
    BY <2>1, StatusOf
  <2>3. r \in Requests
    BY CertificatesAssumption
  <2>4. CASE errand' = errand
    BY <2>1, <2>2, <2>4 DEF CertInv, KeysHeld
  <2>5. CASE errand' = [errand EXCEPT ![r] = Generate(o, "fulfil")]
    <3>1. ErrandGoes(r)
      BY <2>5, ErrandBegins DEF ErrandGoes
    <3>2. QED
      BY <2>1, <2>2, <2>3, <3>1, CertMoves
  <2>6. QED
    BY <2>1, <2>2, <2>4, <2>5
<1>3. QED
  BY <1>1, <1>2

(* A request reads, and writes nothing.                                     *)
LEMMA ReadsKeep ==
    ASSUME CertInv, NEW r \in Requests, ErrandGoes(r), UNCHANGED <<orders, certificates>>
    PROVE  CertInv' /\ \A o \in CertOrders : OrderKept(o)
<1>1. orders' \in [CertOrders -> OrderRow]
  BY DEF CertInv
<1>2. QED
  BY <1>1, CertMoves, OrdersStay

LEMMA RequestOpens ==
    ASSUME CertInv, NEW r, NEW o \in CertOrders,
           \/ r \in StaffRequests /\ EditFields(r, o)
           \/ r \in BuyerRequests /\ \E wanted \in BOOLEAN : Prefer(r, o, wanted)
           \/ r \in PageRequests /\ Sync(r)
    PROVE  CertInv' /\ \A p \in CertOrders : OrderKept(p)
<1>1. r \in Requests
  BY CertificatesAssumption
<1>2. orders[o] \in OrderRow
  BY DEF CertInv
<1>3. CASE EditFields(r, o)
  <2>1. UNCHANGED <<orders, certificates>>
        /\ errand' = [errand EXCEPT ![r] = [NoErrand EXCEPT !.stage = "fields", !.order = o, !.row = orders[o]]]
    BY <1>3 DEF EditFields, Turn
  <2>2. ErrandGoes(r)
    BY <1>2, <2>1, ErrandBegins DEF ErrandGoes
  <2>3. QED
    BY <1>1, <2>1, <2>2, ReadsKeep
<1>4. ASSUME NEW wanted \in BOOLEAN, Prefer(r, o, wanted)
      PROVE  CertInv' /\ \A p \in CertOrders : OrderKept(p)
  <2> DEFINE entity == [orders[o] EXCEPT !.wanted = wanted]
  <2>1. UNCHANGED <<orders, certificates>>
        /\ errand' = [errand EXCEPT ![r] =
              [NoErrand EXCEPT !.stage = "prefer", !.for = "prefer", !.order = o, !.row = entity]]
    BY <1>4 DEF Prefer, Turn
  <2>2. entity \in OrderRow
    BY <1>2 DEF OrderRow
  <2> HIDE DEF entity
  <2>3. ErrandGoes(r)
    BY <2>1, <2>2, ErrandBegins DEF ErrandGoes
  <2>4. QED
    BY <1>1, <2>1, <2>3, ReadsKeep
<1>5. CASE Sync(r)
  <2>1. PICK p \in CertOrders, left \in SUBSET CertOrders :
           UNCHANGED <<orders, certificates>>
           /\ errand' = [errand EXCEPT ![r] = [Generate(p, "sync") EXCEPT !.left = left]]
    <3> DEFINE wanted == {q \in CertOrders : orders[q].status = "fulfilled" /\ orders[q].wanted = TRUE}
    <3>1. PICK p \in wanted : errand' = [errand EXCEPT ![r] = [Generate(p, "sync") EXCEPT !.left = wanted \ {p}]]
      BY <1>5 DEF Sync, Turn
    <3>2. UNCHANGED <<orders, certificates>>
      BY <1>5 DEF Sync
    <3>3. p \in CertOrders /\ wanted \ {p} \in SUBSET CertOrders
      OBVIOUS
    <3>4. QED
      BY <3>1, <3>2, <3>3
  <2>2. ErrandGoes(r)
    BY <2>1, ErrandBegins DEF ErrandGoes
  <2>3. QED
    BY <1>1, <2>1, <2>2, ReadsKeep
<1>6. QED
  BY <1>3, <1>4, <1>5

LEMMA ReadOrderKeeps ==
    ASSUME CertInv, NEW r \in Requests, ReadOrder(r)
    PROVE  CertInv' /\ \A o \in CertOrders : OrderKept(o)
<1> DEFINE e == errand[r]
           grant == IsGrant(e.order)
<1>1. /\ e.stage = "order" /\ UNCHANGED <<orders, certificates>>
      /\ NoCertificate(r) \/ errand' = [errand EXCEPT ![r] = [e EXCEPT !.stage = "sum", !.grant = grant]]
  BY DEF ReadOrder
<1>2. SoundErrand(e)
  BY DEF CertInv
<1>3. grant \in BOOLEAN
  <2>1. e.order \in CertOrders
    BY <1>1, <1>2 DEF SoundErrand
  <2>2. orders[e.order].granted \in BOOLEAN
    BY <2>1 DEF CertInv, OrderRow
  <2>3. QED
    BY <2>2 DEF IsGrant
<1>4. NoCertificate(r) => ErrandGoes(r)
  BY <1>1, NoCertificateMoves
<1> HIDE DEF e, grant
<1>5. SoundErrand([e EXCEPT !.stage = "sum", !.grant = grant])
  BY <1>1, <1>2, <1>3 DEF SoundErrand, ErrandRow, ErrandStages
<1>6. ErrandGoes(r)
  BY <1>1, <1>4, <1>5 DEF ErrandGoes
<1>7. QED
  BY <1>1, <1>6, ReadsKeep

LEMMA AddUpKeeps ==
    ASSUME CertInv, NEW r \in Requests, AddUp(r)
    PROVE  CertInv' /\ \A o \in CertOrders : OrderKept(o)
<1> DEFINE e == errand[r]
           award == Fulfilled(e.grant)
<1>1. /\ e.stage = "sum" /\ UNCHANGED <<orders, certificates>>
      /\ NoCertificate(r)
           \/ errand' = [errand EXCEPT ![r] = [e EXCEPT !.stage = "find", !.award = award, !.row = None]]
  BY DEF AddUp
<1>2. SoundErrand(e) /\ award \subseteq CertOrders
  BY DEF CertInv, Fulfilled
<1>3. NoCertificate(r) => ErrandGoes(r)
  BY <1>1, NoCertificateMoves
<1> HIDE DEF e, award
<1>4. SoundErrand([e EXCEPT !.stage = "find", !.award = award, !.row = None])
  BY <1>1, <1>2 DEF SoundErrand, ErrandRow, ErrandStages
<1>5. ErrandGoes(r)
  BY <1>1, <1>3, <1>4 DEF ErrandGoes
<1>6. QED
  BY <1>1, <1>5, ReadsKeep

LEMMA FindCertificateKeeps ==
    ASSUME CertInv, NEW r \in Requests, FindCertificate(r)
    PROVE  CertInv' /\ \A o \in CertOrders : OrderKept(o)
<1> DEFINE e == errand[r]
<1>1. /\ e.stage = "find" /\ UNCHANGED <<orders, certificates>>
      /\ \/ errand' = [errand EXCEPT ![r] = [e EXCEPT !.stage = "insert"]]
         \/ Issued(r)
         \/ \E c \in certificates : errand' = [errand EXCEPT ![r] = [e EXCEPT !.stage = "update", !.cert = c]]
  BY DEF FindCertificate, OfClass
<1>2. SoundErrand(e) /\ certificates \subseteq Certificate
  BY DEF CertInv
<1>3. Issued(r) => ErrandGoes(r)
  BY IssuedMoves
<1> HIDE DEF e
<1>4. SoundErrand([e EXCEPT !.stage = "insert"])
  BY <1>1, <1>2 DEF SoundErrand, ErrandRow, ErrandStages
<1>5. ASSUME NEW c \in Certificate
      PROVE  SoundErrand([e EXCEPT !.stage = "update", !.cert = c])
  BY <1>1, <1>2 DEF SoundErrand, ErrandRow, ErrandStages
<1>6. ErrandGoes(r)
  BY <1>1, <1>2, <1>3, <1>4, <1>5 DEF ErrandGoes
<1>7. QED
  BY <1>1, <1>6, ReadsKeep

(* One certificate is put in the place of others, or of none.               *)
LEMMA CertWritten ==
    ASSUME CertInv, NEW r \in Requests, ErrandGoes(r), UNCHANGED orders,
           NEW T, T \subseteq certificates, NEW new \in Certificate, KeysAllow(new, T),
           certificates' = T \cup {new}
    PROVE  CertInv' /\ \A o \in CertOrders : OrderKept(o)
<1>1. \A c \in certificates : KeysAllow(c, certificates \ {c})
  BY DEF CertInv, KeysHeld
<1>2. PICK S : S = certificates
  OBVIOUS
<1>3. \A c \in T \cup {new} : KeysAllow(c, (T \cup {new}) \ {c})
  BY <1>1, <1>2, KeysJoin
<1>4. KeysHeld'
  <2>1. \A c \in certificates' : KeysAllow(c, certificates' \ {c})
    BY <1>3
  <2>2. QED
    BY <2>1 DEF KeysHeld
<1>5. errand' \in [Requests -> ErrandRow] /\ \A t \in Requests : SoundErrand(errand'[t])
  BY ErrandMoves
<1>6. CertInv'
  BY <1>4, <1>5 DEF CertInv
<1>7. QED
  BY <1>6, OrdersStay

LEMMA UpdateCertificateKeeps ==
    ASSUME CertInv, NEW r \in Requests, UpdateCertificate(r)
    PROVE  CertInv' /\ \A o \in CertOrders : OrderKept(o)
<1> DEFINE e == errand[r]
           old == {c \in certificates : c.order = e.cert.order}
           new == [e.cert EXCEPT !.award = e.award]
<1>1. /\ e.stage = "update" /\ UNCHANGED orders /\ Issued(r)
      /\ \/ KeysAllow(new, certificates \ old) /\ certificates' = (certificates \ old) \cup {new}
         \/ UNCHANGED certificates
  BY DEF UpdateCertificate, Throws
<1>2. SoundErrand(e) /\ ErrandGoes(r)
  BY <1>1, IssuedMoves DEF CertInv
<1>3. certificates \ old \subseteq certificates
  OBVIOUS
<1> HIDE DEF e
<1>4. new \in Certificate
  BY <1>1, <1>2 DEF SoundErrand, ErrandRow, Certificate
<1> HIDE DEF old, new
<1>5. CASE UNCHANGED certificates
  BY <1>1, <1>2, <1>5, ReadsKeep
<1>6. CASE KeysAllow(new, certificates \ old) /\ certificates' = (certificates \ old) \cup {new}
  <2>1. PICK T, n : T = certificates \ old /\ n = new
    OBVIOUS
  <2>2. QED
    BY <1>1, <1>2, <1>3, <1>4, <1>6, <2>1, CertWritten
<1>7. QED
  BY <1>1, <1>5, <1>6

LEMMA InsertCertificateKeeps ==
    ASSUME CertInv, NEW r \in Requests, InsertCertificate(r)
    PROVE  CertInv' /\ \A o \in CertOrders : OrderKept(o)
<1> DEFINE e == errand[r]
           filed(o) == [order |-> o, grant |-> e.grant, award |-> e.award]
<1>1. e.stage = "insert" /\ UNCHANGED orders
  BY DEF InsertCertificate
<1>2. PICK o \in (IF e.grant THEN {e.order} ELSE e.award) :
        \/ KeysAllow(filed(o), certificates) /\ certificates' = certificates \cup {filed(o)} /\ Issued(r)
        \/ Issued(r) /\ UNCHANGED certificates
  BY DEF InsertCertificate, Throws
<1>3. SoundErrand(e) /\ ErrandGoes(r)
  BY <1>2, IssuedMoves DEF CertInv
<1> HIDE DEF e
<1>4. e.order \in CertOrders /\ e.grant \in BOOLEAN /\ e.award \in SUBSET CertOrders
  BY <1>1, <1>3 DEF SoundErrand, ErrandRow
<1>5. o \in CertOrders
  BY <1>2, <1>4
<1>6. filed(o) \in Certificate
  BY <1>4, <1>5 DEF Certificate
<1> HIDE DEF filed
<1>7. CASE UNCHANGED certificates
  BY <1>1, <1>3, <1>7, ReadsKeep
<1>8. CASE KeysAllow(filed(o), certificates) /\ certificates' = certificates \cup {filed(o)}
  <2>1. PICK T, n : T = certificates /\ n = filed(o)
    OBVIOUS
  <2>2. QED
    BY <1>1, <1>3, <1>6, <1>8, <2>1, CertWritten
<1>9. QED
  BY <1>2, <1>7, <1>8

LEMMA CertificatesStep ==
    ASSUME CertInv, [CertificatesNext]_certVars
    PROVE  CertInv' /\ \A o \in CertOrders : OrderKept(o)
<1>1. CASE UNCHANGED certVars
  <2>1. UNCHANGED <<orders, certificates, errand>>
    BY <1>1 DEF certVars
  <2>2. CertInv'
    BY <2>1 DEF CertInv, KeysHeld
  <2>3. QED
    BY <2>1, <2>2, OrdersStay
<1>2. CASE CertificatesCrash
  <2>1. errand' = [r \in Requests |-> NoErrand] /\ UNCHANGED <<orders, certificates>>
    BY <1>2 DEF CertificatesCrash
  <2>2. errand' \in [Requests -> ErrandRow] /\ \A r \in Requests : SoundErrand(errand'[r])
    BY <2>1, IdleErrand DEF SoundErrand
  <2>3. CertInv'
    BY <2>1, <2>2 DEF CertInv, KeysHeld
  <2>4. QED
    BY <2>1, <2>3, OrdersStay
<1>3. ASSUME NEW r \in Requests, Errand(r)
      PROVE  CertInv' /\ \A o \in CertOrders : OrderKept(o)
  BY <1>3, SavesOrderKeeps, ReadOrderKeeps, AddUpKeeps, FindCertificateKeeps, UpdateCertificateKeeps,
     InsertCertificateKeeps DEF Errand
<1>4. ASSUME NEW o \in CertOrders,
             \/ \E r \in StaffRequests : FulfillCertOrder(r, o)
             \/ RefundCertOrder(o) \/ StampOrder(o)
      PROVE  CertInv' /\ \A p \in CertOrders : OrderKept(p)
  BY <1>4, OrderActs
<1>5. ASSUME NEW r, NEW o \in CertOrders,
             \/ r \in StaffRequests /\ EditFields(r, o)
             \/ r \in BuyerRequests /\ \E wanted \in BOOLEAN : Prefer(r, o, wanted)
      PROVE  CertInv' /\ \A p \in CertOrders : OrderKept(p)
  BY <1>5, RequestOpens
<1>6. ASSUME NEW r \in PageRequests, Sync(r)
      PROVE  CertInv' /\ \A p \in CertOrders : OrderKept(p)
  <2>1. PICK o \in CertOrders : TRUE
    BY <1>6 DEF Sync
  <2>2. QED
    BY <1>6, <2>1, RequestOpens
<1>7. QED
  BY <1>1, <1>2, <1>3, <1>4, <1>5, <1>6 DEF CertificatesNext

LEMMA CertInvInit == CertificatesInit => CertInv
<1> SUFFICES ASSUME CertificatesInit PROVE CertInv
  OBVIOUS
<1>1. orders \in [CertOrders -> OrderRow]
  BY DEF CertificatesInit, OrderRow
<1>2. errand \in [Requests -> ErrandRow] /\ \A r \in Requests : SoundErrand(errand[r])
  BY IdleErrand DEF CertificatesInit, SoundErrand
<1>3. QED
  BY <1>1, <1>2 DEF CertificatesInit, CertInv, KeysHeld

(* Whatever requests save over each other, each knows the order it asked    *)
(* for, and the indexes hold.                                               *)
THEOREM CertificatesInvariant == CertificatesSpec => []CertInv
<1>1. CertInv /\ [CertificatesNext]_certVars => CertInv'
  BY CertificatesStep
<1>2. QED
  BY <1>1, CertInvInit, PTL DEF CertificatesSpec

(* Orders, certificates and requests are of their types, and no two         *)
(* certificates share what the unique indexes keep apart.                   *)
THEOREM CertificatesTypeCorrect == CertificatesSpec => []CertificatesTypeOK
<1>1. CertInv => CertificatesTypeOK
  BY DEF CertInv, CertificatesTypeOK, KeysHeld, ErrandRow, ErrandStages
<1>2. QED
  BY <1>1, CertificatesInvariant, PTL

(* What was decided of an order stays decided, unless a request saves an    *)
(* order that changed after it was read, or takes its own choice back.      *)
THEOREM OrdersAreKept == CertificatesSpec => OrdersKept
<1>1. CertInv /\ [CertificatesNext]_certVars => [\A o \in CertOrders : OrderKept(o)]_certVars
  BY CertificatesStep
<1>2. QED
  BY <1>1, CertificatesInvariant, PTL DEF CertificatesSpec, OrdersKept

(* Every part of the services keeps to its type, whichever of them runs;    *)
(* none of them touches the others.                                         *)
THEOREM ServicesTypeCorrect == MCSpec => []ServicesTypeOK
<1> DEFINE AllInv == HcbInv /\ DevlogsInv /\ CertInv /\ Inv
<1>1. MCInit => AllInv
  BY HcbInvInit, DevlogsInvInit, CertInvInit, InitInv DEF MCInit
<1>2. ASSUME AllInv, [MCNext]_servicesAll
      PROVE  AllInv'
  <2>1. CASE UNCHANGED servicesAll
    <3>1. UNCHANGED hcbVars /\ UNCHANGED devlogVars /\ UNCHANGED certVars /\ UNCHANGED vars
      BY <2>1 DEF servicesAll
    <3>2. QED
      BY <1>2, <3>1, HcbInvStep, DevlogsStep, CertificatesStep, StepOK
  <2>2. CASE HcbNext /\ UNCHANGED <<devlogVars, certVars, vars>>
    BY <1>2, <2>2, HcbInvStep, DevlogsStep, CertificatesStep, StepOK
  <2>3. CASE DevlogsNext /\ UNCHANGED <<hcbVars, certVars, vars>>
    BY <1>2, <2>3, HcbInvStep, DevlogsStep, CertificatesStep, StepOK
  <2>4. CASE CertificatesNext /\ UNCHANGED <<hcbVars, devlogVars, vars>>
    BY <1>2, <2>4, HcbInvStep, DevlogsStep, CertificatesStep, StepOK
  <2>5. CASE SessionsNext /\ UNCHANGED <<hcbVars, devlogVars, certVars>>
    BY <1>2, <2>5, HcbInvStep, DevlogsStep, CertificatesStep, StepOK
  <2>6. QED
    BY <1>2, <2>1, <2>2, <2>3, <2>4, <2>5 DEF MCNext
<1>3. AllInv => ServicesTypeOK
  <2>1. CertInv => CertificatesTypeOK
    BY DEF CertInv, CertificatesTypeOK, KeysHeld, ErrandRow, ErrandStages
  <2>2. QED
    BY <2>1 DEF HcbInv, DevlogsInv, Inv, ServicesTypeOK
<1>4. QED
  BY <1>1, <1>2, <1>3, PTL DEF MCSpec
=============================================================================
