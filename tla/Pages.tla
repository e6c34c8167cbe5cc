------------------------------- MODULE Pages -------------------------------
(* What a Svelte page does with its handlers.  A page holds variables: a    *)
(* flag that is up or down, or the thing (project, order, item, comment)    *)
(* that is open, picked or shown.  A handler runs alone from one await to   *)
(* the next; the answers come back in any order, may be refusals, and may   *)
(* be lost.  HomePage, AdminPage and SmallPages give the handlers and what  *)
(* the markup offers when; texts, form fields and layout are left out.      *)
EXTENDS Handlers

CONSTANTS Things,       \* two projects, two orders, ...: whatever the panel lists
          No, Up,       \* a variable that is down, or up without naming a thing
          PanelOf,      \* the panels: handlers, offers, first loads, what belongs to what
          MaxCalls      \* bound: a user clicks on while fewer are in flight; answers
                      \* start more while at most one more is

VARIABLES
    panel,      \* the panel the user works in
    page,       \* the variables that are up, and the thing each names
    calls,      \* requests and timers in flight, in the order they were sent
    dropped,    \* history: flags lowered by another handler than the one at work
    crossed     \* history: variables filled by an answer about another thing

pageVars == <<panel, page, calls, dropped, crossed>>

Up_(p, v) == v \in DOMAIN p
At(p, v) == IF Up_(p, v) THEN p[v] ELSE No

(* p with some variables down, some up, some naming x.                      *)
Assign(p, clears, sets, takes, x) ==
    [v \in (DOMAIN p \ clears) \cup sets \cup takes |->
        IF v \in takes THEN x ELSE IF v \in sets THEN Up ELSE p[v]]

(* What a handler works on.  Below, t is the table of the panel.            *)
About(p, row, x) == IF row.of = "it" THEN x ELSE IF row.of = "" THEN Up ELSE At(p, row.of)

AllowedAnyway(p, row, x) ==                         \* mutant: no look at the busy flags
    /\ \A v \in row.needs : Up_(p, v)
    /\ About(p, row, x) # No

Allowed(p, row, x) ==
    /\ \A v \in row.needs : Up_(p, v)
    /\ \A v \in row.bars : ~Up_(p, v)
    /\ About(p, row, x) # No

Without(cs, hs) == Sublist(cs, {i \in DOMAIN cs : cs[i].h \notin hs})

Fills(row) == UNION {row.after[o].takes : o \in DOMAIN row.after}

(* History: the same was asked about another thing since.                   *)
Outdated(t, cs, h, x) ==
    [i \in DOMAIN cs |->
        IF cs[i].it # x /\ Fills(t.rows[h]) \cap Fills(t.rows[cs[i].h]) # {}
        THEN [cs[i] EXCEPT !.late = TRUE] ELSE cs[i]]

Someone == CHOOSE t \in Things : TRUE

(* A handler from its call to its first await; frees: flags that the        *)
(* handler awaiting this one lowers when it goes on.                        *)
Begin(t, st, h, x, frees) ==
    LET row == t.rows[h]
        it  == About(st.page, row, x) IN
    IF ~Allowed(st.page, row, x)
    THEN [page |-> Assign(st.page, frees, {}, {}, No), calls |-> st.calls]
    ELSE [page  |-> Assign(st.page, row.clears, row.sets, row.takes, it),
          calls |-> IF row.kind = "local" THEN st.calls
                    ELSE Append(Outdated(t, Without(st.calls, row.cancels), h, it),
                                [h |-> h, it |-> it, frees |-> frees, late |-> FALSE])]

BeginAll(t, st, hs, x) ==
    LET begun[n \in 0 .. Len(hs)] ==
            IF n = 0 THEN st ELSE Begin(t, begun[n - 1], hs[n], x, {})
    IN  begun[Len(hs)]

PagesInit ==
    /\ panel \in DOMAIN PanelOf
    /\ \E t \in {PanelOf[panel]} :
          LET st == BeginAll(t, [page |-> <<>>, calls |-> <<>>], t.mount, Someone) IN
          page = st.page /\ calls = st.calls
    /\ dropped = {} /\ crossed = {}

(* The flags that the handlers in cs will lower.                            *)
Held(t, cs) == UNION {t.rows[cs[i].h].ends \cup cs[i].frees : i \in DOMAIN cs}

(* The handlers in cs were relying on what is lowered here.                 *)
Drop(t, clears, cs) ==
    dropped' = IF calls' = <<>> THEN {}
               ELSE dropped \cup (clears \cap Held(t, cs) \cap DOMAIN page)

Click(t, h, x) ==
    LET row == t.rows[h]
        it  == About(page, row, x)
        st0 == [page |-> page, calls |-> calls]
        st  == IF row.kind = "local"
               THEN BeginAll(t, [page |-> Assign(page, row.clears, row.sets, row.takes, it),
                              calls |-> Without(calls, row.cancels)], row.starts, it)
               ELSE Begin(t, st0, h, x, {})
    IN  /\ Len(calls) < MaxCalls
        /\ row.of # "it" => x = Someone
        /\ \E offer \in t.offers[h] :
              /\ \A v \in offer.on : Up_(page, v)
              /\ \A v \in offer.off : ~Up_(page, v)
              /\ \A v \in offer.other : At(page, v) # x
        /\ Allowed(page, row, x)
        /\ page' = st.page /\ calls' = st.calls
        /\ Drop(t, row.clears, calls)
        /\ crossed' = DOMAIN page' \cap
               (IF row.of \in crossed THEN crossed \cup row.takes ELSE crossed \ row.takes)
        /\ UNCHANGED panel

(* An answer, a refusal, a loss or a timer, of any call in flight.          *)
Outcome(t, i, o, x) ==
    LET c   == calls[i]
        row == t.rows[c.h]
        thrown == o \notin {"refused", "lost"} /\ \E v \in row.derefs : ~Up_(page, v)
        eff == row.after[IF thrown THEN "lost" ELSE o]
        p0  == IF o \in {"refused", "lost"} THEN page ELSE Assign(page, row.early, {}, {}, No)
        p1  == Assign(Assign(p0, eff.clears, eff.sets, eff.takes, c.it), {}, {}, eff.gives, x)
        all == row.ends \cup c.frees
        rest == Sublist(calls, {j \in DOMAIN calls : j # i /\ calls[j].h \notin eff.cancels})
        late == c.late \/ \E s \in t.shows : At(page, s[2]) \notin {No, c.it}
        st1 == IF eff.then = ""
               THEN [page |-> Assign(p1, all, {}, {}, No), calls |-> rest]
               ELSE Begin(t, [page |-> p1, calls |-> rest], eff.then, c.it, all)
        st  == BeginAll(t, st1, eff.also, c.it)
    IN  /\ eff.gives = {} => x = Someone
        /\ Len(st.calls) <= Len(calls) \/ Len(st.calls) <= MaxCalls + 1
        /\ page' = st.page /\ calls' = st.calls
        /\ Drop(t, eff.clears \cup (IF eff.then = "" THEN all ELSE {}), rest)
        /\ crossed' = DOMAIN page' \cap
               ((crossed \ eff.takes) \cup
                   (IF late THEN {s[1] : s \in {r \in t.shows :
                                                    eff.takes \cap {r[1], r[2]} # {}}}
                    ELSE {}))
        /\ UNCHANGED panel

PagesNext == \E t \in {PanelOf[panel]} :
    \/ \E h \in DOMAIN t.offers, x \in Things : Click(t, h, x)
    \/ \E i \in DOMAIN calls : \E o \in DOMAIN t.rows[calls[i].h].after, x \in Things :
           Outcome(t, i, o, x)

-----------------------------------------------------------------------------
(* The rules that the handlers of every panel keep: what the theorems about *)
(* the pages rest on, and what TLC looks up in the tables before it runs.   *)

Effects(row) == {row.after[o] : o \in DOMAIN row.after}
Raised(row) == row.sets \cup row.takes
Lowered(row) == row.clears \ Raised(row)
Listed(s) == {s[i] : i \in DOMAIN s}
BusyFlags(t) == UNION {t.rows[h].ends : h \in DOMAIN t.rows}

(* Who awaits h; whether another handler starts h without waiting; whether  *)
(* h is started at all but as the first when the page loads; whether it may *)
(* run on a page that is there.                                             *)
Awaiting(t, h) == {k \in DOMAIN t.rows : \E e \in Effects(t.rows[k]) : e.then = h}
Launched(t, h) == \E k \in DOMAIN t.rows :
    h \in Listed(t.rows[k].starts) \/ \E e \in Effects(t.rows[k]) : h \in Listed(e.also)
Started(t, h) ==
    \/ Awaiting(t, h) # {} \/ Launched(t, h)
    \/ \E i \in DOMAIN t.mount : i # 1 /\ t.mount[i] = h
OnlyAwaited(t, h) == h \notin DOMAIN t.offers \cup Listed(t.mount) /\ ~Launched(t, h)
Live(t, h) == Started(t, h) \/ h \in DOMAIN t.offers

(* The handlers that rows, markup and page name exist.                      *)
Linked(t) ==
    /\ DOMAIN t.offers \subseteq DOMAIN t.rows
    /\ t.mount \in Seq(DOMAIN t.rows)
    /\ \A h \in DOMAIN t.rows :
          /\ t.rows[h].starts \in Seq(DOMAIN t.rows)
          /\ t.rows[h].derefs # {} => "lost" \in DOMAIN t.rows[h].after
          /\ \A e \in Effects(t.rows[h]) :
                e.then \in DOMAIN t.rows \cup {""} /\ e.also \in Seq(DOMAIN t.rows)

(* A busy flag is raised only by a handler that lowers it when it ends, and *)
(* has a request in flight until then, as has every handler that is awaited.*)
FlagsReturn(t) == \A h \in DOMAIN t.rows :
    LET row == t.rows[h] IN
    /\ Raised(row) \cap BusyFlags(t) \subseteq (IF row.kind = "local" THEN {} ELSE row.ends)
    /\ \A e \in Effects(row) : (e.sets \cup e.takes \cup e.gives) \cap BusyFlags(t) = {}
    /\ Awaiting(t, h) # {} => row.kind # "local"

(* Whoever cancels a handler lowers the flags it would have lowered; none   *)
(* is cancelled that another handler awaits with a flag of its own up.      *)
Alone(t, h) == \A k \in Awaiting(t, h) : t.rows[k].ends = {} /\ Awaiting(t, k) = {}
CancelsLower(t) == \A h \in DOMAIN t.rows :
    LET row == t.rows[h] IN
    /\ \A k \in row.cancels \cap DOMAIN t.rows :
          /\ Alone(t, k)
          /\ t.rows[k].ends \subseteq (IF row.kind = "local" THEN Lowered(row) ELSE {})
    /\ \A e \in Effects(row) : \A k \in e.cancels \cap DOMAIN t.rows :
          Alone(t, k) /\ t.rows[k].ends = {}

(* h does not run while g is up.                                            *)
Barred(t, h, g) ==
    \/ g \in t.rows[h].bars
    \/ ~Started(t, h) /\ (h \in DOMAIN t.offers => \A offer \in t.offers[h] : g \in offer.off)

(* A request that must not be sent twice is guarded: by a busy flag that    *)
(* bars every handler that raises it, its own or that of whoever awaits it; *)
(* by a flag that stays up until its own answer; or it cancels the last.    *)
IsLock(t, g) == \A h \in DOMAIN t.rows :
    LET row == t.rows[h] IN
    /\ g \in row.ends => g \in Raised(row) /\ Barred(t, h, g)
    /\ g \notin row.early
    /\ Started(t, h) => g \notin Lowered(row)
    /\ \A e \in Effects(row) : e.then # "" => g \notin e.clears
Locked(t, h) == \E g \in BusyFlags(t) :
    /\ IsLock(t, g)
    /\ \/ g \in t.rows[h].ends
       \/ OnlyAwaited(t, h) /\ \A k \in Awaiting(t, h) : g \in t.rows[k].ends
Latch(t, h, g) ==
    /\ g \in t.rows[h].sets \ BusyFlags(t) /\ Barred(t, h, g)
    /\ \A k \in DOMAIN t.rows :
          /\ g \notin t.rows[k].clears \cup t.rows[k].early
          /\ k # h => \A e \in Effects(t.rows[k]) : g \notin e.clears
OnceIsGuarded(t) == \A h \in DOMAIN t.rows :
    t.rows[h].kind = "once" =>
        \/ Locked(t, h) \/ h \in t.rows[h].cancels
        \/ \E g \in t.rows[h].sets : Latch(t, h, g)

(* What is shown of the thing that k names is taken down by every handler   *)
(* that picks another; or else (Loosely) hidden, until it is replaced.      *)
Loosely(t, k) == \E s \in t.shows, h \in DOMAIN t.rows :
    s[2] = k /\ Live(t, h) /\ k \in Raised(t.rows[h]) /\ s[1] \notin Lowered(t.rows[h])
Hides(t, h, l) ==                       \* by what it starts at once
    /\ ~Started(t, h) /\ t.rows[h].kind = "local" /\ t.rows[h].starts # <<>>
    /\ LET first == t.rows[t.rows[h].starts[1]] IN
       first.needs = {} /\ first.bars = {} /\ first.of = "it" /\ l \in Raised(first)
ShownIsReplaced(t, d, k, l) == \A h \in DOMAIN t.rows :
    LET row == t.rows[h] IN
    /\ d \notin row.sets
    /\ d \in row.takes /\ ~Live(t, h) => k \notin row.sets
    /\ d \in row.takes /\ Live(t, h) =>      \* a copy of what is shown elsewhere
          /\ row.kind = "local" /\ ~Started(t, h) /\ k \notin Raised(row)
          /\ row.of \notin {"it", ""}
          /\ \E s \in t.shows : s[1] = row.of /\ s[2] = k /\ s[3] = l
    /\ \A e \in Effects(row) : k \notin e.sets /\ d \notin e.sets \cup e.gives
TakenDown(t, d, k) == \A h \in DOMAIN t.rows :
    LET row == t.rows[h] IN
    /\ k \in Fills(row) => d \in Fills(row) /\ d \in Lowered(row)
    /\ \A e \in Effects(row) : k \in e.gives => d \in e.clears \ e.takes
Hidden(t, d, k, l) == \A h \in DOMAIN t.rows :
    LET row == t.rows[h] IN
    /\ Live(t, h) /\ k \in Raised(row) => d \in Lowered(row) \/ Hides(t, h, l)
    /\ l \in Lowered(row) => {d, k} \cap Lowered(row) # {}
    /\ l \notin row.early /\ k \notin Fills(row)
    /\ \A e \in Effects(row) :
          /\ k \notin e.gives
          /\ l \in e.clears => {d, k} \cap (e.clears \ e.takes) # {}
          /\ l \in row.ends => e.then = "" /\ d \in e.takes \cup e.clears
ShowsFollow(t) == \A s \in t.shows :
    /\ ShownIsReplaced(t, s[1], s[2], s[3])
    /\ IF Loosely(t, s[2]) THEN Hidden(t, s[1], s[2], s[3]) ELSE TakenDown(t, s[1], s[2])

ASSUME ThingsAssumption == Things # {} /\ No \notin Things /\ Up # No

ASSUME PanelsAssumption == \A p \in DOMAIN PanelOf :
    LET t == PanelOf[p] IN
    Linked(t) /\ FlagsReturn(t) /\ CancelsLower(t) /\ OnceIsGuarded(t) /\ ShowsFollow(t)

-----------------------------------------------------------------------------

(* Busy flags do what they are for.  A request that must not be sent twice  *)
(* is in flight once per thing, unless another handler lowered a flag that  *)
(* guards it; and no flag stays up when everything was answered, whichever  *)
(* way.                                                                     *)
BusyFlagsHold == \A t \in {PanelOf[panel]} :
    /\ \A i, j \in DOMAIN calls :
          /\ i # j /\ calls[i].h = calls[j].h /\ calls[i].it = calls[j].it
          /\ t.rows[calls[i].h].kind = "once"
          => Held(t, <<calls[i], calls[j]>>) \cap dropped # {}
    /\ calls = <<>> => \A h \in DOMAIN t.rows : t.rows[h].ends \cap DOMAIN page = {}

(* What a panel shows of the thing that is open or picked was asked for     *)
(* that thing: handlers that pick another one take down what they showed of *)
(* the last, or hide it while they load.  The exception is an answer that   *)
(* came after the next pick.                                                *)
ShownBelongs == \A t \in {PanelOf[panel]} :
    \A s \in t.shows :
        /\ Up_(page, s[1]) /\ Up_(page, s[2]) /\ ~Up_(page, s[3])
        /\ s[1] \notin crossed
        => page[s[1]] = page[s[2]]
=============================================================================
