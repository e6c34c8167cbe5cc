-------------------------------- MODULE Stats --------------------------------
(* Numbers read from elsewhere: the statistics of the panel, from Airtable  *)
(* and Hackatime, the leaderboard, the calendar, and the Lapse account of a *)
(* builder.  Each is read piece by piece, over a cache that is fresh for a  *)
(* while; requests overlap, pieces change while others are read, and any    *)
(* call may fail.  The counts of the days that are over are kept for good,  *)
(* and only they share one backfill.                                        *)
EXTENDS Integers, FiniteSets

CONSTANTS
    Pieces,       \* users, rows, or pages that may hold something
    Callers,
    NoCaller,
    LastDay,      \* bound: days
    MaxChanges    \* bound: changes of what is read

ASSUME StatsAssumption ==
    /\ NoCaller \notin Callers /\ IsFiniteSet(Pieces)
    /\ LastDay \in Nat /\ MaxChanges \in Nat

VARIABLES
    world,        \* the pieces that count, of each kind
    cache,        \* what was read last, and whether its time is up
    reader,       \* requests at work, and their last answer
    today,
    beats,        \* who was active on each day
    memo,         \* dauHistoryCache: the counts of days that are over
    inflight,     \* dauHistoryInflight: who began the backfill
    backfill,     \* the backfill at work
    off,          \* history: days not counted in full, or changed since
    changes

worldVars == <<world, today, beats, changes>>
statsVars == <<worldVars, cache, reader, memo, inflight, backfill, off>>

Kinds == {"dau", "hours", "signups", "holders", "schedule", "lapse", "leaderboard"}
Days == 0 .. LastDay
Past == 0 .. today - 1
NotYet == -1                                      \* a day that is not in the map

(* What was read, whether all of it, and history: what counted all along,   *)
(* and what counted at some time, while it was.                             *)
Nothing == [got |-> {}, whole |-> TRUE, always |-> {}, ever |-> {}]
Void == [data |-> Nothing, stage |-> "none"]
Rest == [stage |-> "idle", kind |-> "none", todo |-> {}, data |-> Nothing,
         day |-> 0, missed |-> {}, counts |-> <<>>]
NoBackfill == [days |-> {}, todo |-> {}, active |-> <<>>]

StatsTypeOK ==
    /\ world \in [Kinds -> SUBSET Pieces] /\ beats \in [Days -> SUBSET Pieces]
    /\ \A k \in Kinds : cache[k].stage \in {"none", "fresh", "old"} /\ cache[k].data.got \subseteq Pieces
    /\ \A c \in Callers :
        /\ reader[c].stage \in {"idle", "reading", "waiting", "served", "counted", "refused"}
        /\ reader[c].kind \in Kinds \cup {"none", "history"} /\ reader[c].day \in Days
    /\ memo \in [Days -> NotYet .. Cardinality(Pieces)]
    /\ inflight \in Callers \cup {NoCaller} /\ today \in Days
    /\ backfill.days \subseteq Days /\ off \subseteq Days /\ changes \in 0 .. MaxChanges

StatsInit ==
    /\ world = [k \in Kinds |-> {}] /\ beats = [d \in Days |-> {}]
    /\ cache = [k \in Kinds |-> Void] /\ reader = [c \in Callers |-> Rest]
    /\ memo = [d \in Days |-> NotYet] /\ inflight = NoCaller /\ backfill = NoBackfill
    /\ today = 0 /\ off = {} /\ changes = 0

-----------------------------------------------------------------------------
(* A request for a number: out of the cache while that is fresh.  Two that  *)
(* find it old both read.                                                   *)

(* getPipesHolders keeps nothing, and findForProject only the account.      *)
Cached(k) == k # "holders"

(* findApprovedProjectsGroupedByUser: the leaderboard lists its builders    *)
(* first, and then reads the hours of those.                                *)
ToRead(k) == IF k = "leaderboard" THEN world[k] ELSE Pieces

Ask(c, k) ==
    /\ reader[c].stage \in {"idle", "served", "counted", "refused"}
    /\ reader' = [reader EXCEPT ![c] =
            IF cache[k].stage = "fresh"
            THEN [Rest EXCEPT !.stage = "served", !.kind = k, !.data = cache[k].data]
            ELSE [Rest EXCEPT !.stage = "reading", !.kind = k, !.todo = ToRead(k),
                              !.data = [Nothing EXCEPT !.always = world[k], !.ever = world[k]]]]
    /\ UNCHANGED <<worldVars, cache, memo, inflight, backfill, off>>

(* A request reads a piece, and loses what it could not read.               *)
At(c, kinds, e) == reader[c].stage = "reading" /\ reader[c].kind \in kinds /\ e \in reader[c].todo
Reads(c, e) ==
    reader' = [reader EXCEPT ![c].todo = @ \ {e}, ![c].data.got = @ \cup ({e} \cap world[reader[c].kind])]
Loses(c, S) == reader' = [reader EXCEPT ![c].todo = @ \ S, ![c].data.whole = FALSE]
TurnedAway(c) == reader' = [reader EXCEPT ![c] = [Rest EXCEPT !.stage = "refused"]]
CachesAlone == UNCHANGED <<worldVars, cache, memo, inflight, backfill, off>>

(* getDailyActiveUsers: a user whose projects cannot be read is not active. *)
CountUser(c, e) ==
    /\ At(c, {"dau"}, e) /\ CachesAlone
    /\ Reads(c, e) \/ Loses(c, {e})

(* getUnreviewedHours: hours that cannot be read are none.                  *)
SumHours(c, e) ==
    /\ At(c, {"hours"}, e) /\ CachesAlone
    /\ Reads(c, e) \/ Loses(c, {e})

(* getHoursForProjects of a listed builder; a call that fails is no hours,  *)
(* and a builder without hours is not on the leaderboard.                   *)
HoursOf(c, e) ==
    \/ reader' = [reader EXCEPT ![c].todo = @ \ {e}, ![c].data.got = @ \cup {e}]
    \/ Loses(c, {e})

RankBuilder(c, e) == At(c, {"leaderboard"}, e) /\ CachesAlone /\ HoursOf(c, e)

(* Airtable, page by page.  A refused page ends the list as if it were the  *)
(* last; a call that fails throws.                                          *)
ReadSignups(c, e) ==
    /\ At(c, {"signups"}, e) /\ CachesAlone
    /\ Reads(c, e) \/ Loses(c, Pieces) \/ TurnedAway(c)

ReadPerms(c, e) ==
    /\ At(c, {"holders"}, e) /\ CachesAlone
    /\ Reads(c, e) \/ Loses(c, Pieces) \/ TurnedAway(c)

(* The calendar, page by page; if one fails, what is left is the last fetch *)
(* that did not, however old, or nothing.                                   *)
ReadCalendar(c, e) ==
    /\ At(c, {"schedule"}, e) /\ CachesAlone
    /\ \/ Reads(c, e)
       \/ reader' = [reader EXCEPT ![c] = [Rest EXCEPT !.stage = "served", !.kind = "schedule",
                                                      !.data = cache["schedule"].data]]

(* The Lapse account: none is an answer that is kept, a failure is not.     *)
FindAccount(c, e) ==
    /\ At(c, {"lapse"}, e) /\ CachesAlone
    /\ Reads(c, e) \/ TurnedAway(c)

(* What was read is what is served, and kept: even if another request has   *)
(* read something later.                                                    *)
Finish(c) ==
    LET k == reader[c].kind IN
    /\ reader[c].stage = "reading" /\ reader[c].todo = {}
    /\ reader' = [reader EXCEPT ![c] = [Rest EXCEPT !.stage = "served", !.kind = k, !.data = reader[c].data]]
    /\ cache' = IF Cached(k) THEN [cache EXCEPT ![k] = [data |-> reader[c].data, stage |-> "fresh"]] ELSE cache
    /\ UNCHANGED <<worldVars, memo, inflight, backfill, off>>

Expire(k) ==
    /\ cache[k].stage = "fresh"
    /\ cache' = [cache EXCEPT ![k].stage = "old"]
    /\ UNCHANGED <<worldVars, reader, memo, inflight, backfill, off>>

-----------------------------------------------------------------------------
(* The days that are over.  Whoever misses one starts a backfill, or waits  *)
(* for the one that runs, which may be of an earlier day.                   *)

Missing(days) == {d \in days : memo[d] = NotYet}

Counts(day) == [d \in 0 .. day - 1 |-> IF memo[d] = NotYet THEN 0 ELSE memo[d]]

AskHistory(c) ==
    LET misses == Missing(Past) # {}
        starts == misses /\ inflight = NoCaller IN
    /\ reader[c].stage \in {"idle", "served", "counted", "refused"}
    /\ reader' = [reader EXCEPT ![c] = [Rest EXCEPT !.kind = "history", !.day = today,
            !.stage = IF misses THEN "waiting" ELSE "counted",
            !.missed = IF starts \/ ~misses THEN {} ELSE Missing(Past) \ backfill.days,
            !.counts = IF misses THEN <<>> ELSE Counts(today)]]
    /\ inflight' = IF starts THEN c ELSE inflight
    /\ backfill' = IF starts THEN [days |-> Missing(Past), todo |-> Pieces,
                                   active |-> [d \in Missing(Past) |-> {}]]
                   ELSE backfill
    /\ UNCHANGED <<worldVars, cache, memo, off>>

Unpadded(e) ==                            \* mutant: up to the beginning of the last day
    /\ inflight # NoCaller /\ e \in backfill.todo
    /\ \/ /\ backfill' = [backfill EXCEPT !.todo = @ \ {e}, !.active = [d \in backfill.days |->
                IF e \in beats[d] /\ \E later \in backfill.days : d < later THEN @[d] \cup {e} ELSE @[d]]]
          /\ UNCHANGED off
       \/ backfill' = [backfill EXCEPT !.todo = @ \ {e}] /\ off' = off \cup backfill.days
    /\ UNCHANGED <<worldVars, cache, reader, memo, inflight>>

(* All the spans of a user; one who cannot be read was active on no day.    *)
ReadSpans(e) ==
    /\ inflight # NoCaller /\ e \in backfill.todo
    /\ \/ /\ backfill' = [backfill EXCEPT !.todo = @ \ {e}, !.active = [d \in backfill.days |->
                IF e \in beats[d] THEN @[d] \cup {e} ELSE @[d]]]
          /\ UNCHANGED off
       \/ backfill' = [backfill EXCEPT !.todo = @ \ {e}] /\ off' = off \cup backfill.days
    /\ UNCHANGED <<worldVars, cache, reader, memo, inflight>>

(* The counts are kept, and all who wait are served, each for its own days. *)
KeepCounts ==
    /\ inflight # NoCaller /\ backfill.todo = {}
    /\ \E kept \in {[d \in Days |-> IF d \in backfill.days /\ d < today
                                    THEN Cardinality(backfill.active[d]) ELSE memo[d]]} :
        /\ memo' = kept
        /\ reader' = [c \in Callers |-> IF reader[c].stage # "waiting" THEN reader[c]
                ELSE [reader[c] EXCEPT !.stage = "counted", !.counts =
                        [d \in 0 .. reader[c].day - 1 |-> IF kept[d] = NotYet THEN 0 ELSE kept[d]]]]
    /\ inflight' = NoCaller /\ backfill' = NoBackfill
    /\ UNCHANGED <<worldVars, cache, off>>

(* The database fails it: whoever waits is refused, and the next may try.   *)
BackfillThrows ==
    /\ inflight # NoCaller /\ backfill.todo = Pieces
    /\ reader' = [c \in Callers |-> IF reader[c].stage = "waiting"
                                    THEN [Rest EXCEPT !.stage = "refused"] ELSE reader[c]]
    /\ inflight' = NoCaller /\ backfill' = NoBackfill
    /\ UNCHANGED <<worldVars, cache, memo, off>>

-----------------------------------------------------------------------------
(* The world.  A request sees a change before or after it reads the piece.  *)
Change(k, e) ==
    /\ changes < MaxChanges /\ changes' = changes + 1
    /\ k = "signups" => e \notin world[k]
    /\ world' = [world EXCEPT ![k] = IF e \in @ THEN @ \ {e} ELSE @ \cup {e}]
    /\ reader' = [c \in Callers |-> IF reader[c].stage = "reading" /\ reader[c].kind = k
            THEN [reader[c] EXCEPT !.data.always = @ \ {e}, !.data.ever = @ \cup {e}] ELSE reader[c]]
    /\ UNCHANGED <<today, beats, cache, memo, inflight, backfill, off>>

(* A heartbeat of today, or one that was sent late.                         *)
Beat(d, e) ==
    /\ changes < MaxChanges /\ changes' = changes + 1
    /\ d <= today /\ e \notin beats[d]
    /\ beats' = [beats EXCEPT ![d] = @ \cup {e}]
    /\ off' = IF d < today THEN off \cup {d} ELSE off
    /\ UNCHANGED <<today, world, cache, reader, memo, inflight, backfill>>

Midnight ==
    /\ today < LastDay /\ today' = today + 1
    /\ UNCHANGED <<world, beats, changes, cache, reader, memo, inflight, backfill, off>>

(* The process restarts: every cache is gone.                               *)
RestartStats ==
    /\ cache' = [k \in Kinds |-> Void] /\ memo' = [d \in Days |-> NotYet]
    /\ inflight' = NoCaller /\ backfill' = NoBackfill
    /\ reader' = [c \in Callers |-> Rest]
    /\ UNCHANGED <<worldVars, off>>

(* One kind of number: no two have anything in common.                      *)
NumberNext(k) ==
    \/ \E c \in Callers :
        \/ Ask(c, k) \/ Finish(c)
        \/ \E e \in Pieces : \/ CountUser(c, e) \/ SumHours(c, e) \/ ReadSignups(c, e)
                             \/ ReadPerms(c, e) \/ ReadCalendar(c, e) \/ FindAccount(c, e)
                             \/ RankBuilder(c, e)
    \/ \E e \in Pieces : Change(k, e)
    \/ Expire(k) \/ RestartStats

HistoryNext ==
    \/ \E c \in Callers : AskHistory(c)
    \/ \E e \in Pieces : ReadSpans(e) \/ (\E d \in Days : Beat(d, e))
    \/ KeepCounts \/ BackfillThrows \/ Midnight \/ RestartStats

StatsNext == HistoryNext \/ \E k \in Kinds : NumberNext(k)

StatsSpec == StatsInit /\ [][StatsNext]_statsVars

-----------------------------------------------------------------------------

(* A count of a day that is over is that day's, whoever asks: unless a span *)
(* could not be read or came late, or the caller waited for a backfill that *)
(* began on an earlier day, and is told 0 for a day that is not in it.  A   *)
(* number read in full is one that was true while it was read, and the      *)
(* calendar and the Lapse account are kept only if they were.               *)
NumbersTrue ==
    /\ \A c \in Callers : reader[c].stage = "counted" =>
        \A d \in DOMAIN reader[c].counts \ (off \cup reader[c].missed) :
            reader[c].counts[d] = Cardinality(beats[d])
    /\ \A c \in Callers : reader[c].stage = "served" =>
        /\ reader[c].data.got \subseteq reader[c].data.ever
        /\ reader[c].data.whole => reader[c].data.always \subseteq reader[c].data.got
    /\ cache["schedule"].data.whole /\ cache["lapse"].data.whole
    /\ (inflight # NoCaller) = (\E c \in Callers : reader[c].stage = "waiting")
=============================================================================
