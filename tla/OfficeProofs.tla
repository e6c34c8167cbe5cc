----------------------------- MODULE OfficeProofs -----------------------------
(* Theorems of the parts that stand beside the review desk, for any number  *)
(* of requests, users, projects and days: how long the program is open      *)
(* (Window), the messages to many (Notices), the numbers read from          *)
(* elsewhere (Stats), and who is next in the queue (Queue).                 *)
EXTENDS MCOffice, FiniteSetTheorems, WellFoundedInduction, TLAPS

(***************************************************************************)
(* Window.  Whatever a request has passed was true at some time since it   *)
(* began, and it remembers that: what opens the program is remembered as   *)
(* soon as it is true, and of the identity service's answers, read one     *)
(* after the other, as many as did not change.                             *)
(***************************************************************************)
TabStages == {"idle", "gate", "pause", "override", "slack", "email", "save"}
TabRequest == [stage: TabStages, kind: {"create", "edit", "ship", "resubmit"},
               status: ProjectStatuses, asked: {NotSet} \cup 0 .. MaxNow,
               open: BOOLEAN, eligible: BOOLEAN, moves: 0 .. 2]
BuilderRow == [until: {NotSet} \cup 0 .. MaxNow + Extension, free: BOOLEAN,
               override: {"none", "ineligible", "eligible"}, slack: Answers, email: Answers]

WindowTyped ==
    /\ WindowTypeOK
    /\ builder \in BuilderRow /\ tab \in [Tabs -> TabRequest]
    /\ asked \in [at: {NotSet} \cup 0 .. MaxNow, stale: BOOLEAN]

(* What a request has seen to be true, the requests remember.               *)
Watched(r) ==
    /\ IF r.kind = "create" THEN builder.free => r.open ELSE Opens(r, builder) => r.open
    /\ Eligible(builder) \/ r.kind = "create" => r.eligible

Vouched(r) == r.eligible \/ r.moves = 2

OnItsWay(r) ==
    /\ r.kind = "edit" => r.stage = "save"
    /\ r.kind = "create" => r.stage \in {"gate", "save"}
    /\ r.kind # "edit" => Watched(r)
    /\ r.kind # "edit" /\ r.stage # "gate" => r.open
    /\ r.stage = "slack" => \/ Vouched(r)
                            \/ builder.override = "none"
                            \/ r.moves = 1 /\ Answer(builder) # "eligible"
    /\ r.stage = "email" => \/ Vouched(r)
                            \/ builder.override = "none" /\ builder.slack = "none"
                            \/ r.moves = 1 /\ builder.email # "eligible"
    /\ r.kind # "edit" /\ r.stage = "save" => Vouched(r)

TabsOnTheirWay == \A t \in Tabs : tab[t].stage # "idle" => OnItsWay(tab[t])

EntryAllowed == entry.open /\ entry.eligible

SentBackHasDate == project.status = "changes_needed" => project.asked = asked.at \/ asked.stale

(* What the page was told is what it would be told now, but for the clock.  *)
PageTrue == page.same =>
    /\ page.status = project.status /\ page.until = builder.until
    /\ page.deadline = changesNeededDeadline(project.status, project.asked)
    /\ Freely(builder) => page.freely
    /\ page.freely => Freely(builder) \/ (builder.until # NotSet /\ builder.until <= now)

WindowInv == WindowTyped /\ TabsOnTheirWay /\ EntryAllowed /\ SentBackHasDate /\ PageTrue

-----------------------------------------------------------------------------
(* The request in one tab moves, and nothing else does.                     *)
LEMMA GoesEffect ==
    ASSUME WindowTyped, NEW t \in Tabs, NEW stage \in TabStages, Goes(t, stage)
    PROVE  /\ tab' \in [Tabs -> TabRequest] /\ tab'[t].stage = stage
           /\ \A q \in Tabs \ {t} : tab'[q] = tab[q]
           /\ stage # "idle" =>
                /\ tab'[t].kind = tab[t].kind /\ tab'[t].status = tab[t].status
                /\ tab'[t].asked = tab[t].asked /\ tab'[t].open = tab[t].open
                /\ tab'[t].eligible = tab[t].eligible /\ tab'[t].moves = tab[t].moves
<1>1. tab \in [Tabs -> TabRequest] /\ tab[t] \in TabRequest
  BY DEF WindowTyped
<1>2. CASE stage = "idle"
  <2>1. Closed \in TabRequest /\ Closed.stage = "idle"
    BY DEF Closed, TabRequest, TabStages, ProjectStatuses
  <2>2. QED
    BY <1>1, <1>2, <2>1 DEF Goes
<1>3. CASE stage # "idle"
  <2> DEFINE next == [tab[t] EXCEPT !.stage = stage]
  <2>1. tab' = [tab EXCEPT ![t] = next]
    BY <1>3 DEF Goes
  <2>2. /\ next \in TabRequest /\ next.stage = stage
        /\ next.kind = tab[t].kind /\ next.status = tab[t].status
        /\ next.asked = tab[t].asked /\ next.open = tab[t].open
        /\ next.eligible = tab[t].eligible /\ next.moves = tab[t].moves
    BY <1>1 DEF TabRequest
  <2> HIDE DEF next
  <2>3. QED
    BY <1>1, <2>1, <2>2
<1>4. QED
  BY <1>2, <1>3

LEMMA TabMoves ==
    ASSUME WindowInv, NEW t \in Tabs, tab' \in [Tabs -> TabRequest],
           \A q \in Tabs \ {t} : tab'[q] = tab[q],
           UNCHANGED <<now, project, builder, paused, page, entry, asked, staff>>,
           tab'[t].stage # "idle" => OnItsWay(tab'[t])
    PROVE  WindowInv'
<1>1. WindowTyped'
  BY DEF WindowInv, WindowTyped, WindowTypeOK, TabRequest, TabStages
<1>2. TabsOnTheirWay'
  BY DEF WindowInv, TabsOnTheirWay, OnItsWay, Watched, Vouched, Opens, Freely,
         hasActiveSubmissionExtension, Eligible, Answer
<1>3. EntryAllowed' /\ SentBackHasDate'
  BY DEF WindowInv, EntryAllowed, SentBackHasDate
<1>4. PageTrue'
  BY DEF WindowInv, PageTrue, Freely, hasActiveSubmissionExtension, changesNeededDeadline
<1>5. QED
  BY <1>1, <1>2, <1>3, <1>4 DEF WindowInv

(* Watch adds to what a request remembers, and counts.                      *)
LEMMA WatchIs ==
    ASSUME NEW r \in TabRequest, r.stage # "idle", NEW user \in BuilderRow, WindowTyped
    PROVE  /\ Watch(r, user) \in TabRequest
           /\ Watch(r, user).stage = r.stage /\ Watch(r, user).kind = r.kind
           /\ Watch(r, user).status = r.status /\ Watch(r, user).asked = r.asked
           /\ r.open => Watch(r, user).open
           /\ r.kind = "create" /\ user.free => Watch(r, user).open
           /\ r.kind # "create" /\ Opens(r, user) => Watch(r, user).open
           /\ r.eligible \/ Eligible(user) \/ r.kind = "create" => Watch(r, user).eligible
           /\ Identity(user) = Identity(builder) => Watch(r, user).moves = r.moves
           /\ r.moves = 2 => Watch(r, user).moves = 2
           /\ Identity(user) # Identity(builder) /\ r.moves # 2 => Watch(r, user).moves = r.moves + 1
<1> DEFINE open == r.open \/ IF r.kind = "create" THEN user.free ELSE Opens(r, user)
           eligible == r.eligible \/ Eligible(user) \/ r.kind = "create"
           moves == r.moves + (IF r.moves < 2 /\ Identity(user) # Identity(builder) THEN 1 ELSE 0)
<1>1. Watch(r, user) = [r EXCEPT !.open = open, !.eligible = eligible, !.moves = moves]
  BY DEF Watch
<1>2. open \in BOOLEAN /\ eligible \in BOOLEAN
  BY DEF TabRequest, BuilderRow, Opens, Freely, hasActiveSubmissionExtension, Eligible, Answer
<1>3. moves \in 0 .. 2
  BY DEF TabRequest
<1>4. /\ r.moves \in 0 .. 2
      /\ Identity(user) = Identity(builder) => moves = r.moves
      /\ r.moves = 2 => moves = 2
      /\ Identity(user) # Identity(builder) /\ r.moves # 2 => moves = r.moves + 1
  BY DEF TabRequest
<1>5. /\ r.open \/ (r.kind = "create" /\ user.free) \/ (r.kind # "create" /\ Opens(r, user)) => open
      /\ r.eligible \/ Eligible(user) \/ r.kind = "create" => eligible
  OBVIOUS
<1> HIDE DEF open, eligible, moves
<1>6. /\ Watch(r, user) \in TabRequest
      /\ Watch(r, user).stage = r.stage /\ Watch(r, user).kind = r.kind
      /\ Watch(r, user).status = r.status /\ Watch(r, user).asked = r.asked
      /\ Watch(r, user).open = open /\ Watch(r, user).eligible = eligible
      /\ Watch(r, user).moves = moves
  BY <1>1, <1>2, <1>3 DEF TabRequest
<1>7. QED
  BY <1>4, <1>5, <1>6

LEMMA BeginKeeps ==
    ASSUME WindowInv, NEW t \in Tabs, NEW kind \in {"create", "edit", "ship", "resubmit"},
           BeginRequest(t, kind)
    PROVE  WindowInv'
<1> DEFINE first == [Closed EXCEPT
                !.stage = IF kind = "edit" THEN "save" ELSE "gate",
                !.kind = kind, !.status = project.status, !.asked = project.asked]
<1>1. /\ tab \in [Tabs -> TabRequest] /\ builder \in BuilderRow /\ WindowTyped
      /\ project.status \in ProjectStatuses /\ project.asked \in {NotSet} \cup 0 .. MaxNow
      /\ UNCHANGED <<now, project, builder, paused, page, entry, asked, staff>>
      /\ tab' = [tab EXCEPT ![t] = Watch(first, builder)]
  BY DEF WindowInv, WindowTyped, WindowTypeOK, BeginRequest, Read
<1>2. /\ first \in TabRequest /\ first.stage = (IF kind = "edit" THEN "save" ELSE "gate")
      /\ first.kind = kind
  <2>1. Closed \in TabRequest
    BY DEF Closed, TabRequest, TabStages, ProjectStatuses
  <2> DEFINE stage == IF kind = "edit" THEN "save" ELSE "gate"
  <2>2. stage \in TabStages
    BY DEF TabStages
  <2>3. first = [Closed EXCEPT !.stage = stage, !.kind = kind, !.status = project.status,
                               !.asked = project.asked]
    OBVIOUS
  <2> HIDE DEF stage, first
  <2>4. first \in TabRequest /\ first.stage = stage /\ first.kind = kind
    BY <1>1, <2>1, <2>2, <2>3 DEF TabRequest
  <2>5. QED
    BY <2>4 DEF stage
<1> HIDE DEF first
<1> DEFINE next == Watch(first, builder)
<1>3. /\ next \in TabRequest /\ next.stage = first.stage /\ next.kind = kind
      /\ next.status = first.status /\ next.asked = first.asked
      /\ kind = "create" /\ builder.free => next.open
      /\ kind # "create" /\ Opens(first, builder) => next.open
      /\ Eligible(builder) \/ kind = "create" => next.eligible
  BY <1>1, <1>2, WatchIs
<1> HIDE DEF next
<1>4. OnItsWay(next)
  BY <1>2, <1>3 DEF OnItsWay, Watched, Opens, Vouched
<1>5. /\ tab' \in [Tabs -> TabRequest] /\ tab'[t] = next
      /\ \A q \in Tabs \ {t} : tab'[q] = tab[q]
  BY <1>1, <1>3 DEF next
<1>6. QED
  BY <1>1, <1>4, <1>5, TabMoves

(* The gate lets through what is open now.                                  *)
LEMMA GateOpens ==
    ASSUME WindowTyped, NEW r \in TabRequest, requireSubmissionAllowed(r.status, r.asked)
    PROVE  Opens(r, builder)
<1>1. now \in Nat /\ Grace \in Nat /\ r.asked \in {NotSet} \cup 0 .. MaxNow /\ NotSet = -1
  BY WindowAssumption DEF WindowTyped, WindowTypeOK, TabRequest, NotSet
<1>2. QED
  BY <1>1 DEF requireSubmissionAllowed, Opens, isWithinChangesWindow, changesNeededDeadline

LEMMA GateKeeps ==
    ASSUME WindowInv, NEW t \in Tabs, Gate(t)
    PROVE  WindowInv'
<1> DEFINE r == tab[t]
           allowed == IF r.kind = "create" THEN builder.free ELSE requireSubmissionAllowed(r.status, r.asked)
           stage == IF ~allowed THEN "idle" ELSE IF r.kind = "create" THEN "save"
                    ELSE IF r.status = "changes_needed" THEN "pause" ELSE "override"
<1>1. /\ WindowTyped /\ r \in TabRequest /\ r.stage = "gate" /\ OnItsWay(r) /\ Goes(t, stage)
      /\ UNCHANGED <<now, project, builder, paused, page, entry, asked, staff>>
  BY DEF WindowInv, WindowTyped, TabsOnTheirWay, Gate
<1>2. /\ stage \in {"save", "idle", "pause", "override"}
      /\ stage = "save" => r.kind = "create" /\ builder.free
      /\ stage \in {"pause", "override"} => r.kind # "create" /\ Opens(r, builder)
  <2>1. requireSubmissionAllowed(r.status, r.asked) => Opens(r, builder)
    BY <1>1, GateOpens
  <2>2. CASE ~allowed
    BY <2>2
  <2>3. CASE allowed
    BY <2>1, <2>3
  <2>4. QED
    BY <2>2, <2>3
<1> HIDE DEF stage
<1>3. /\ tab' \in [Tabs -> TabRequest] /\ tab'[t].stage = stage
      /\ \A q \in Tabs \ {t} : tab'[q] = tab[q]
      /\ stage # "idle" =>
            /\ tab'[t].kind = r.kind /\ tab'[t].status = r.status
            /\ tab'[t].asked = r.asked /\ tab'[t].open = r.open
            /\ tab'[t].eligible = r.eligible /\ tab'[t].moves = r.moves
  BY <1>1, <1>2, GoesEffect DEF TabStages
<1>4. r.kind # "edit" /\ (stage # "idle" => r.open)
  BY <1>1, <1>2 DEF OnItsWay, Watched
<1>5. ASSUME stage # "idle" PROVE OnItsWay(tab'[t])
  BY <1>1, <1>2, <1>3, <1>4, <1>5 DEF OnItsWay, Watched, Opens, Vouched
<1>6. QED
  BY <1>1, <1>3, <1>5, TabMoves

(* Past the gate a request needs only what the next stage asks of it.       *)
LEMMA GoesOn ==
    ASSUME WindowInv, NEW t \in Tabs, tab[t].stage \in {"pause", "override", "slack", "email"},
           NEW stage \in {"idle", "override", "slack", "email", "save"}, Goes(t, stage),
           UNCHANGED <<now, project, builder, paused, page, entry, asked, staff>>,
           stage = "slack" => Vouched(tab[t]) \/ builder.override = "none",
           stage = "email" => \/ Vouched(tab[t])
                              \/ builder.override = "none" /\ builder.slack = "none"
                              \/ tab[t].moves = 1 /\ builder.email # "eligible",
           stage = "save" => Vouched(tab[t])
    PROVE  WindowInv'
<1> DEFINE r == tab[t]
<1>1. WindowTyped /\ r \in TabRequest /\ OnItsWay(r)
  BY DEF WindowInv, WindowTyped, TabsOnTheirWay
<1>2. /\ tab' \in [Tabs -> TabRequest] /\ tab'[t].stage = stage
      /\ \A q \in Tabs \ {t} : tab'[q] = tab[q]
      /\ stage # "idle" =>
            /\ tab'[t].kind = r.kind /\ tab'[t].status = r.status
            /\ tab'[t].asked = r.asked /\ tab'[t].open = r.open
            /\ tab'[t].eligible = r.eligible /\ tab'[t].moves = r.moves
  BY <1>1, GoesEffect DEF TabStages
<1>3. r.kind \notin {"create", "edit"} /\ r.open /\ Watched(r)
  BY <1>1 DEF OnItsWay
<1>4. ASSUME stage # "idle" PROVE OnItsWay(tab'[t])
  <2>1. Watched(tab'[t]) /\ (Vouched(r) => Vouched(tab'[t]))
    BY <1>2, <1>3, <1>4 DEF Watched, Opens, Vouched
  <2>2. QED
    BY <1>2, <1>3, <1>4, <2>1 DEF OnItsWay
<1>5. QED
  BY <1>2, <1>4, TabMoves

LEMMA PauseKeeps ==
    ASSUME WindowInv, NEW t \in Tabs, Pause(t)
    PROVE  WindowInv'
  BY GoesOn DEF Pause

LEMMA FailsKeeps ==
    ASSUME WindowInv, NEW t \in Tabs, Fails(t)
    PROVE  WindowInv'
<1>1. /\ tab' \in [Tabs -> TabRequest] /\ tab'[t].stage = "idle"
      /\ \A q \in Tabs \ {t} : tab'[q] = tab[q]
  BY GoesEffect DEF Fails, WindowInv, TabStages
<1>2. QED
  BY <1>1, TabMoves DEF Fails

(* Three reads of the builder's identity.                                   *)
LEMMA OverrideKeeps ==
    ASSUME WindowInv, NEW t \in Tabs, Override(t)
    PROVE  WindowInv'
<1>1. tab[t] \in TabRequest /\ tab[t].stage = "override" /\ OnItsWay(tab[t]) /\ builder \in BuilderRow
  BY DEF WindowInv, WindowTyped, TabsOnTheirWay, Override
<1>2. builder.override = "eligible" => Vouched(tab[t])
  BY <1>1 DEF OnItsWay, Watched, Vouched, Eligible
<1>3. CASE builder.override = "eligible"
  BY <1>1, <1>2, <1>3, GoesOn DEF Override
<1>4. CASE builder.override = "ineligible"
  BY <1>1, <1>4, GoesOn DEF Override
<1>5. CASE builder.override = "none"
  BY <1>1, <1>5, GoesOn DEF Override
<1>6. QED
  BY <1>1, <1>3, <1>4, <1>5 DEF BuilderRow

LEMMA SlackKeeps ==
    ASSUME WindowInv, NEW t \in Tabs, AskSlack(t)
    PROVE  WindowInv'
<1>1. tab[t] \in TabRequest /\ tab[t].stage = "slack" /\ OnItsWay(tab[t]) /\ builder \in BuilderRow
  BY DEF WindowInv, WindowTyped, TabsOnTheirWay, AskSlack
<1>2. \/ Vouched(tab[t])
      \/ builder.override = "none"
      \/ tab[t].moves = 1 /\ Answer(builder) # "eligible"
  BY <1>1 DEF OnItsWay
<1>3. CASE builder.slack = "none"
  BY <1>1, <1>2, <1>3, GoesOn DEF AskSlack, Answer
<1>4. CASE builder.slack = "eligible"
  <2>1. Vouched(tab[t])
    BY <1>1, <1>2, <1>4 DEF OnItsWay, Watched, Vouched, Eligible, Answer
  <2>2. QED
    BY <1>1, <1>4, <2>1, GoesOn DEF AskSlack
<1>5. CASE builder.slack \notin {"none", "eligible"}
  BY <1>1, <1>5, GoesOn DEF AskSlack
<1>6. QED
  BY <1>3, <1>4, <1>5

LEMMA EmailKeeps ==
    ASSUME WindowInv, NEW t \in Tabs, AskEmail(t)
    PROVE  WindowInv'
<1>1. tab[t] \in TabRequest /\ tab[t].stage = "email" /\ OnItsWay(tab[t]) /\ builder \in BuilderRow
  BY DEF WindowInv, WindowTyped, TabsOnTheirWay, AskEmail
<1>2. builder.email = "eligible" => Vouched(tab[t])
  BY <1>1 DEF OnItsWay, Watched, Vouched, Eligible, Answer
<1>3. CASE builder.email = "eligible"
  BY <1>1, <1>2, <1>3, GoesOn DEF AskEmail
<1>4. CASE builder.email # "eligible"
  BY <1>1, <1>4, GoesOn DEF AskEmail
<1>5. QED
  BY <1>3, <1>4

-----------------------------------------------------------------------------
(* The tabs keep their way while nothing they look at changes.              *)
LEMMA TabsKeep ==
    ASSUME WindowInv, UNCHANGED <<builder, now>>,
           \A q \in Tabs : tab'[q] = tab[q] \/ tab'[q].stage = "idle"
    PROVE  TabsOnTheirWay'
  BY DEF WindowInv, TabsOnTheirWay, OnItsWay, Watched, Vouched, Opens, Freely,
         hasActiveSubmissionExtension, Eligible, Answer

LEMMA NoPageIs == NoPage.status \in ProjectStatuses /\ NoPage.freely \in BOOLEAN /\ ~NoPage.same
  BY DEF NoPage, ProjectStatuses

LEMMA SaveKeeps ==
    ASSUME WindowInv, NEW t \in Tabs, Save(t)
    PROVE  WindowInv'
<1> DEFINE r == tab[t]
           queued == r.kind \in {"ship", "resubmit"}
           status == CASE queued -> "unreviewed" [] r.kind = "create" -> "unshipped" [] OTHER -> r.status
<1>1. /\ WindowTyped /\ r \in TabRequest /\ r.stage = "save" /\ OnItsWay(r) /\ Goes(t, "idle")
      /\ project' = [status |-> status, asked |-> r.asked]
      /\ entry' = IF r.kind = "edit" THEN entry
                  ELSE [open |-> r.open, eligible |-> r.eligible \/ r.moves = 2]
      /\ asked' = [asked EXCEPT !.stale = @ \/ r.asked # asked.at]
      /\ page' = NoPage /\ UNCHANGED <<now, builder, paused, staff>>
  BY DEF WindowInv, WindowTyped, TabsOnTheirWay, Save
<1>2. /\ tab' \in [Tabs -> TabRequest] /\ tab'[t].stage = "idle"
      /\ \A q \in Tabs \ {t} : tab'[q] = tab[q]
  BY <1>1, GoesEffect DEF TabStages
<1>3. status \in ProjectStatuses /\ (status = "changes_needed" => r.kind = "edit")
  BY <1>1 DEF TabRequest, ProjectStatuses
<1> HIDE DEF status
<1>4. /\ asked' \in [at: {NotSet} \cup 0 .. MaxNow, stale: BOOLEAN]
      /\ asked'.at = asked.at /\ (r.asked # asked.at => asked'.stale)
  BY <1>1 DEF WindowTyped
<1>5. /\ project' \in [status : ProjectStatuses, asked : {NotSet} \cup 0 .. MaxNow]
      /\ project'.asked = r.asked
  BY <1>1, <1>3 DEF TabRequest
<1>6. WindowTyped'
  <2>1. page'.status \in ProjectStatuses /\ page'.freely \in BOOLEAN
    BY <1>1, NoPageIs
  <2>2. WindowTypeOK'
    BY <1>1, <1>2, <1>5, <2>1 DEF WindowTyped, WindowTypeOK, TabRequest, TabStages
  <2>3. QED
    BY <1>1, <1>2, <1>4, <2>2 DEF WindowTyped
<1>7. TabsOnTheirWay'
  BY <1>1, <1>2, TabsKeep
<1>8. EntryAllowed'
  BY <1>1 DEF WindowInv, EntryAllowed, OnItsWay, Vouched
<1>9. SentBackHasDate'
  BY <1>4, <1>5 DEF SentBackHasDate
<1>10. PageTrue'
  BY <1>1, NoPageIs DEF PageTrue
<1>11. QED
  BY <1>6, <1>7, <1>8, <1>9, <1>10 DEF WindowInv

LEMMA DraftKeeps ==
    ASSUME WindowInv, Draft
    PROVE  WindowInv'
<1>1. /\ WindowTyped /\ project' = [project EXCEPT !.status = "unshipped"] /\ page' = NoPage
      /\ UNCHANGED <<now, builder, paused, tab, entry, asked, staff>>
  BY DEF WindowInv, Draft
<1>2. /\ project' \in [status : ProjectStatuses, asked : {NotSet} \cup 0 .. MaxNow]
      /\ project'.status = "unshipped"
  BY <1>1 DEF WindowTyped, WindowTypeOK, ProjectStatuses
<1>3. page'.status \in ProjectStatuses /\ page'.freely \in BOOLEAN /\ ~page'.same
  BY <1>1, NoPageIs
<1>4. WindowTyped'
  BY <1>1, <1>2, <1>3 DEF WindowTyped, WindowTypeOK
<1>5. TabsOnTheirWay'
  BY <1>1, TabsKeep
<1>6. QED
  BY <1>1, <1>2, <1>3, <1>4, <1>5 DEF WindowInv, EntryAllowed, SentBackHasDate, PageTrue

LEMMA DecideKeeps ==
    ASSUME WindowInv, NEW status \in {"changes_needed", "approved", "rejected"}, Decide(status)
    PROVE  WindowInv'
<1> DEFINE at == IF status = "changes_needed" THEN now ELSE project.asked
<1>1. /\ WindowTyped /\ project' = [status |-> status, asked |-> at] /\ page' = NoPage
      /\ asked' = IF status = "changes_needed" THEN [at |-> now, stale |-> FALSE] ELSE asked
      /\ staff < MaxStaff /\ staff' = staff + 1
      /\ UNCHANGED <<now, builder, paused, tab, entry>>
  BY DEF WindowInv, Decide
<1>2. at \in {NotSet} \cup 0 .. MaxNow /\ status \in ProjectStatuses
  BY <1>1 DEF WindowTyped, WindowTypeOK, ProjectStatuses
<1> HIDE DEF at
<1>3. /\ project' \in [status : ProjectStatuses, asked : {NotSet} \cup 0 .. MaxNow]
      /\ project'.status = status /\ project'.asked = at
  BY <1>1, <1>2
<1>4. page'.status \in ProjectStatuses /\ page'.freely \in BOOLEAN /\ ~page'.same
  BY <1>1, NoPageIs
<1>5. asked' \in [at: {NotSet} \cup 0 .. MaxNow, stale: BOOLEAN]
  <2>1. now \in {NotSet} \cup 0 .. MaxNow /\ FALSE \in BOOLEAN
    BY <1>1 DEF WindowTyped, WindowTypeOK
  <2>2. [at |-> now, stale |-> FALSE] \in [at: {NotSet} \cup 0 .. MaxNow, stale: BOOLEAN]
    BY <2>1, Zenon
  <2>3. QED
    BY <1>1, <2>2 DEF WindowTyped
<1>6. staff' \in 0 .. MaxStaff
  BY <1>1, WindowAssumption DEF WindowTyped, WindowTypeOK
<1>7. WindowTyped'
  BY <1>1, <1>3, <1>4, <1>5, <1>6 DEF WindowTyped, WindowTypeOK
<1>8. TabsOnTheirWay'
  BY <1>1, TabsKeep
<1>9. SentBackHasDate'
  BY <1>1, <1>3 DEF SentBackHasDate, at
<1>10. QED
  BY <1>1, <1>4, <1>7, <1>8, <1>9 DEF WindowInv, EntryAllowed, PageTrue

-----------------------------------------------------------------------------
(* The staff, or the identity service, change one thing about the builder.  *)
OneThing(user) ==
    \/ user.slack = builder.slack /\ user.email = builder.email
    \/ user.override = builder.override /\ user.email = builder.email
    \/ user.override = builder.override /\ user.slack = builder.slack

(* A request that sees the change stays on its way.                         *)
LEMMA WatchKeeps ==
    ASSUME WindowInv, NEW t \in Tabs, tab[t].stage # "idle", NEW user \in BuilderRow, OneThing(user),
           builder' = user, now' = now, tab'[t] = Watch(tab[t], user)
    PROVE  OnItsWay(tab[t])'
<1> DEFINE r == tab[t]
           next == Watch(r, user)
<1>1. r \in TabRequest /\ WindowTyped /\ OnItsWay(r) /\ builder \in BuilderRow
  BY DEF WindowInv, WindowTyped, TabsOnTheirWay
<1>2. /\ next \in TabRequest /\ next.stage = r.stage /\ next.kind = r.kind
      /\ next.status = r.status /\ next.asked = r.asked
      /\ r.open => next.open
      /\ r.kind = "create" /\ user.free => next.open
      /\ r.kind # "create" /\ Opens(r, user) => next.open
      /\ r.eligible \/ Eligible(user) \/ r.kind = "create" => next.eligible
      /\ Identity(user) = Identity(builder) => next.moves = r.moves
      /\ r.moves = 2 => next.moves = 2
      /\ Identity(user) # Identity(builder) /\ r.moves # 2 => next.moves = r.moves + 1
  BY <1>1, WatchIs
<1> HIDE DEF next
<1>3. tab'[t] = next
  BY DEF next
<1>4. Watched(tab[t])'
  <2>1. Eligible(builder)' = Eligible(user)
    BY DEF Eligible, Answer
  <2>2. Opens(tab[t], builder)' = Opens(r, user) /\ builder'.free = user.free
    BY <1>2, <1>3 DEF Opens, Freely, hasActiveSubmissionExtension
  <2>3. QED
    BY <1>2, <1>3, <2>1, <2>2 DEF Watched
<1>5. Vouched(r) => Vouched(next)
  BY <1>2 DEF Vouched
<1>6. CASE Identity(user) = Identity(builder)
  <2>1. /\ user.override = builder.override /\ user.slack = builder.slack
        /\ user.email = builder.email /\ next.moves = r.moves
    BY <1>2, <1>6 DEF Identity
  <2>2. QED
    BY <1>1, <1>2, <1>3, <1>4, <1>5, <2>1 DEF OnItsWay, Answer, Vouched
<1>7. CASE Identity(user) # Identity(builder) /\ r.moves # 0
  <2>1. Vouched(next)
    BY <1>1, <1>2, <1>7 DEF TabRequest, Vouched
  <2>2. QED
    BY <1>1, <1>2, <1>3, <1>4, <2>1 DEF OnItsWay, Vouched
<1>8. CASE Identity(user) # Identity(builder) /\ r.moves = 0
  <2>1. next.moves = 1 /\ (Vouched(r) => r.eligible)
    BY <1>2, <1>8 DEF Vouched
  <2>2. CASE r.eligible
    BY <1>1, <1>2, <1>3, <1>4, <2>2 DEF OnItsWay, Vouched
  <2>3. CASE ~r.eligible
    <3>1. r.kind # "edit" => ~Eligible(builder)
      BY <1>1, <2>3 DEF OnItsWay, Watched
    <3>2. r.stage = "slack" => \/ user.override = "none"
                               \/ next.moves = 1 /\ Answer(user) # "eligible"
      BY <1>1, <1>8, <2>1, <2>3, <3>1 DEF OnItsWay, OneThing, Eligible, Answer
    <3>3. r.stage = "email" => \/ user.override = "none" /\ user.slack = "none"
                               \/ next.moves = 1 /\ user.email # "eligible"
      BY <1>1, <1>8, <2>1, <2>3, <3>1 DEF OnItsWay, OneThing, Eligible, Answer
    <3>4. ~(r.kind # "edit" /\ r.stage = "save")
      BY <1>1, <2>1, <2>3 DEF OnItsWay
    <3>5. QED
      BY <1>1, <1>2, <1>3, <1>4, <3>2, <3>3, <3>4 DEF OnItsWay, Answer
  <2>4. QED
    BY <2>2, <2>3
<1>9. QED
  BY <1>6, <1>7, <1>8

LEMMA GrantsKeeps ==
    ASSUME WindowInv, NEW user \in BuilderRow, OneThing(user),
           user.until \in {NotSet} \cup 0 .. now + Extension, Grants(user)
    PROVE  WindowInv'
<1>1. /\ WindowTyped /\ staff < MaxStaff /\ staff' = staff + 1 /\ builder' = user
      /\ tab' = [t \in Tabs |-> Watch(tab[t], user)] /\ page' = NoPage
      /\ UNCHANGED <<now, project, paused, entry, asked>>
  BY DEF WindowInv, Grants
<1>2. ASSUME NEW t \in Tabs
      PROVE  /\ tab'[t] \in TabRequest
             /\ tab'[t].stage # "idle" => OnItsWay(tab[t])'
  <2>1. tab[t] \in TabRequest /\ tab'[t] = Watch(tab[t], user)
    BY <1>1 DEF WindowTyped
  <2>2. CASE tab[t].stage = "idle"
    BY <2>1, <2>2 DEF Watch
  <2>3. CASE tab[t].stage # "idle"
    BY <1>1, <2>1, <2>3, WatchIs, WatchKeeps
  <2>4. QED
    BY <2>2, <2>3
<1>3. tab' \in [Tabs -> TabRequest]
  BY <1>1, <1>2
<1>4. page'.status \in ProjectStatuses /\ page'.freely \in BOOLEAN /\ ~page'.same
  BY <1>1, NoPageIs
<1>5. staff' \in 0 .. MaxStaff
  BY <1>1, WindowAssumption DEF WindowTyped, WindowTypeOK
<1>6. WindowTypeOK'
  BY <1>1, <1>3, <1>4, <1>5 DEF WindowTyped, WindowTypeOK, BuilderRow, TabRequest, TabStages
<1>7. WindowTyped'
  BY <1>1, <1>3, <1>6 DEF WindowTyped
<1>8. TabsOnTheirWay'
  BY <1>2 DEF TabsOnTheirWay
<1>9. QED
  BY <1>1, <1>4, <1>7, <1>8 DEF WindowInv, EntryAllowed, SentBackHasDate, PageTrue

LEMMA StaffKeeps ==
    ASSUME WindowInv,
           \/ setSubmissionExtension \/ setUnrestrictedAccess \/ setIdentityOverride \/ identityChanges
    PROVE  WindowInv'
<1>1. /\ builder \in BuilderRow /\ builder.until \in {NotSet} \cup 0 .. now + Extension
      /\ now \in 0 .. MaxNow /\ MaxNow \in Nat /\ Extension \in Nat
  BY WindowAssumption DEF WindowInv, WindowTyped, WindowTypeOK
<1>2. CASE setSubmissionExtension
  <2>1. PICK until \in {NotSet, now + Extension} : Grants([builder EXCEPT !.until = until])
    BY <1>2 DEF setSubmissionExtension
  <2>2. until \in {NotSet} \cup 0 .. now + Extension /\ until \in {NotSet} \cup 0 .. MaxNow + Extension
    BY <1>1
  <2> DEFINE user == [builder EXCEPT !.until = until]
  <2>3. user \in BuilderRow /\ OneThing(user) /\ user.until = until
    BY <1>1, <2>2 DEF BuilderRow, OneThing
  <2> HIDE DEF user
  <2>4. QED
    BY <2>1, <2>2, <2>3, GrantsKeeps DEF user
<1>3. CASE setUnrestrictedAccess
  <2> DEFINE user == [builder EXCEPT !.free = ~@]
  <2>1. user \in BuilderRow /\ OneThing(user) /\ user.until = builder.until
    BY <1>1 DEF BuilderRow, OneThing
  <2>2. Grants(user)
    BY <1>3 DEF setUnrestrictedAccess
  <2> HIDE DEF user
  <2>3. QED
    BY <1>1, <2>1, <2>2, GrantsKeeps
<1>4. CASE setIdentityOverride
  <2>1. PICK o \in {"none", "ineligible", "eligible"} : Grants([builder EXCEPT !.override = o])
    BY <1>4 DEF setIdentityOverride
  <2> DEFINE user == [builder EXCEPT !.override = o]
  <2>2. user \in BuilderRow /\ OneThing(user) /\ user.until = builder.until
    BY <1>1 DEF BuilderRow, OneThing
  <2>3. Grants(user)
    BY <2>1
  <2> HIDE DEF user
  <2>4. QED
    BY <1>1, <2>2, <2>3, GrantsKeeps
<1>5. CASE \E a \in {"none", "eligible"} \ {builder.slack} : Grants([builder EXCEPT !.slack = a])
  <2>1. PICK a \in Answers : Grants([builder EXCEPT !.slack = a])
    BY <1>5 DEF Answers
  <2> DEFINE user == [builder EXCEPT !.slack = a]
  <2>2. user \in BuilderRow /\ OneThing(user) /\ user.until = builder.until
    BY <1>1 DEF BuilderRow, OneThing
  <2>3. Grants(user)
    BY <2>1
  <2> HIDE DEF user
  <2>4. QED
    BY <1>1, <2>2, <2>3, GrantsKeeps
<1>6. CASE \E a \in {"none", "ineligible"} \ {builder.email} : Grants([builder EXCEPT !.email = a])
  <2>1. PICK a \in Answers : Grants([builder EXCEPT !.email = a])
    BY <1>6 DEF Answers
  <2> DEFINE user == [builder EXCEPT !.email = a]
  <2>2. user \in BuilderRow /\ OneThing(user) /\ user.until = builder.until
    BY <1>1 DEF BuilderRow, OneThing
  <2>3. Grants(user)
    BY <2>1
  <2> HIDE DEF user
  <2>4. QED
    BY <1>1, <2>2, <2>3, GrantsKeeps
<1>7. QED
  BY <1>2, <1>3, <1>4, <1>5, <1>6 DEF identityChanges

-----------------------------------------------------------------------------
(* As the clock moves on, what is open only closes.                         *)
LEMMA TickKeeps ==
    ASSUME WindowInv, Tick
    PROVE  WindowInv'
<1>1. /\ WindowTyped /\ now \in Nat /\ now < MaxNow /\ now' = now + 1
      /\ MaxNow \in Nat /\ Extension \in Nat /\ Grace \in Nat
      /\ UNCHANGED <<project, builder, paused, tab, page, entry, asked, staff>>
  BY WindowAssumption DEF WindowInv, WindowTyped, WindowTypeOK, Tick
<1>2. builder.until \in Int /\ NotSet = -1
  BY <1>1 DEF WindowTyped, BuilderRow, NotSet
<1>3. WindowTyped'
  BY <1>1 DEF WindowTyped, WindowTypeOK
<1>4. hasActiveSubmissionExtension(builder)' => hasActiveSubmissionExtension(builder)
  BY <1>1, <1>2 DEF hasActiveSubmissionExtension
<1>5. Freely(builder)' => Freely(builder)
  BY <1>1, <1>4 DEF Freely
<1>6. ASSUME NEW t \in Tabs
      PROVE  Opens(tab[t], builder)' => Opens(tab[t], builder)
  <2>1. tab[t].asked \in Int
    BY <1>1, <1>2 DEF WindowTyped, TabRequest
  <2>2. QED
    BY <1>1, <1>5, <2>1 DEF Opens
<1>7. TabsOnTheirWay'
  <2>1. ASSUME NEW t \in Tabs, tab[t].stage # "idle"
        PROVE  OnItsWay(tab[t])'
    <3>1. OnItsWay(tab[t])
      BY <2>1 DEF WindowInv, TabsOnTheirWay
    <3>2. Eligible(builder)' = Eligible(builder) /\ builder'.free = builder.free /\ tab'[t] = tab[t]
      BY <1>1 DEF Eligible, Answer
    <3>3. Watched(tab[t]) => Watched(tab[t])'
      BY <1>6, <3>2 DEF Watched
    <3>4. QED
      BY <1>1, <3>1, <3>3 DEF OnItsWay, Vouched, Answer
  <2>2. QED
    BY <1>1, <2>1 DEF TabsOnTheirWay
<1>8. PageTrue'
  <2>1. Freely(builder) => Freely(builder)' \/ (builder.until # NotSet /\ builder.until <= now')
    BY <1>1, <1>2 DEF Freely, hasActiveSubmissionExtension
  <2>2. builder.until # NotSet /\ builder.until <= now => builder.until <= now'
    BY <1>1, <1>2
  <2>3. QED
    BY <1>1, <1>5, <2>1, <2>2 DEF WindowInv, PageTrue, changesNeededDeadline
<1>9. QED
  BY <1>1, <1>3, <1>7, <1>8 DEF WindowInv, EntryAllowed, SentBackHasDate

LEMMA RestKeeps ==
    ASSUME WindowInv, setPaused \/ LoadPage \/ UNCHANGED windowVars
    PROVE  WindowInv'
<1>1. /\ WindowTyped /\ UNCHANGED <<now, project, builder, tab, entry, asked>>
      /\ paused' \in BOOLEAN /\ staff' \in 0 .. MaxStaff
  <2>1. /\ WindowTyped /\ paused \in BOOLEAN /\ staff \in 0 .. MaxStaff /\ MaxStaff \in Nat
        /\ UNCHANGED <<now, project, builder, tab, entry, asked>>
    BY WindowAssumption DEF WindowInv, WindowTyped, WindowTypeOK, setPaused, LoadPage, windowVars
  <2>2. CASE setPaused
    <3>1. paused' = ~paused /\ staff < MaxStaff /\ staff' = staff + 1
      BY <2>2 DEF setPaused
    <3>2. paused' \in BOOLEAN
      BY <3>1
    <3>3. staff' \in 0 .. MaxStaff
      BY <2>1, <3>1
    <3>4. QED
      BY <2>1, <3>2, <3>3
  <2>3. QED
    BY <2>1, <2>2 DEF LoadPage, windowVars
<1>2. /\ page'.status \in ProjectStatuses /\ page'.freely \in BOOLEAN /\ PageTrue'
  <2>1. CASE UNCHANGED page
    BY <1>1, <2>1 DEF WindowInv, WindowTyped, WindowTypeOK, PageTrue, Freely,
       hasActiveSubmissionExtension, changesNeededDeadline
  <2>2. CASE LoadPage
    <3> DEFINE deadline == changesNeededDeadline(project.status, project.asked)
               freely == Freely(builder)
    <3>1. /\ page' = [status |-> project.status, freely |-> freely, until |-> builder.until,
                      deadline |-> deadline, same |-> TRUE]
          /\ freely \in BOOLEAN /\ project.status \in ProjectStatuses
      BY <1>1, <2>2 DEF LoadPage, WindowTyped, WindowTypeOK, Freely, hasActiveSubmissionExtension
    <3>2. Freely(builder)' = freely /\ changesNeededDeadline(project.status, project.asked)' = deadline
      BY <1>1 DEF Freely, hasActiveSubmissionExtension, changesNeededDeadline
    <3> HIDE DEF deadline, freely
    <3>3. /\ page'.status = project.status /\ page'.freely = freely
          /\ page'.until = builder.until /\ page'.deadline = deadline
      BY <3>1
    <3>4. QED
      BY <1>1, <3>1, <3>2, <3>3 DEF PageTrue
  <2>3. QED
    BY <2>1, <2>2 DEF setPaused, windowVars
<1>3. WindowTyped'
  BY <1>1, <1>2 DEF WindowTyped, WindowTypeOK
<1>4. TabsOnTheirWay'
  BY <1>1 DEF WindowInv, TabsOnTheirWay, OnItsWay, Watched, Vouched, Opens, Freely,
     hasActiveSubmissionExtension, Eligible, Answer
<1>5. QED
  BY <1>1, <1>2, <1>3, <1>4 DEF WindowInv, EntryAllowed, SentBackHasDate

LEMMA WindowInvInit == WindowInit => WindowInv
<1> SUFFICES ASSUME WindowInit PROVE WindowInv
  OBVIOUS
<1>1. /\ now = 0 /\ paused = FALSE /\ staff = 0 /\ tab = [t \in Tabs |-> Closed] /\ page = NoPage
      /\ asked = [at |-> NotSet, stale |-> FALSE]
      /\ MaxNow \in Nat /\ MaxStaff \in Nat /\ Extension \in Nat
  BY WindowAssumption DEF WindowInit
<1>2. /\ project \in [status : ProjectStatuses, asked : {NotSet} \cup 0 .. MaxNow]
      /\ project.status # "changes_needed"
  BY DEF WindowInit, ProjectStatuses
<1>3. builder \in BuilderRow /\ builder.until \in {NotSet} \cup 0 .. now + Extension
  <2>1. PICK answer \in {"unverified", "eligible"}, until \in {NotSet, Extension} :
          builder = [until |-> until, free |-> FALSE, override |-> "none",
                     slack |-> "none", email |-> answer]
    BY DEF WindowInit
  <2>2. /\ until \in {NotSet} \cup 0 .. MaxNow + Extension /\ until \in {NotSet} \cup 0 .. now + Extension
        /\ answer \in Answers /\ "none" \in Answers /\ "none" \in {"none", "ineligible", "eligible"}
    BY <1>1 DEF Answers
  <2>3. builder \in BuilderRow
    BY <2>1, <2>2, Zenon DEF BuilderRow
  <2>4. QED
    BY <2>1, <2>2, <2>3
<1>4. Closed \in TabRequest /\ Closed.stage = "idle"
  BY DEF Closed, TabRequest, TabStages, ProjectStatuses
<1>5. tab \in [Tabs -> TabRequest] /\ \A t \in Tabs : tab[t].stage = "idle"
  BY <1>1, <1>4
<1>6. asked \in [at: {NotSet} \cup 0 .. MaxNow, stale: BOOLEAN]
  BY <1>1, Zenon
<1>7. page.status \in ProjectStatuses /\ page.freely \in BOOLEAN /\ ~page.same
  BY <1>1, NoPageIs
<1>8. WindowTyped
  <2>0. paused \in BOOLEAN
    BY <1>1, Zenon
  <2>1. /\ now \in 0 .. MaxNow /\ staff \in 0 .. MaxStaff
        /\ \A t \in Tabs : tab[t].stage \in TabStages
    BY <1>1, <1>5 DEF TabStages
  <2>2. /\ builder.free \in BOOLEAN /\ builder.override \in {"none", "ineligible", "eligible"}
        /\ builder.slack \in Answers /\ builder.email \in Answers
    BY <1>3 DEF BuilderRow
  <2>3. WindowTypeOK
    BY <1>2, <1>3, <1>7, <2>0, <2>1, <2>2 DEF WindowTypeOK, TabStages
  <2>4. QED
    BY <1>3, <1>5, <1>6, <2>3 DEF WindowTyped
<1>9. entry.open /\ entry.eligible
  BY DEF WindowInit
<1>10. QED
  BY <1>2, <1>5, <1>7, <1>8, <1>9 DEF WindowInv, TabsOnTheirWay, EntryAllowed, SentBackHasDate, PageTrue

LEMMA WindowInvStep == WindowInv /\ [WindowNext]_windowVars => WindowInv'
<1> SUFFICES ASSUME WindowInv, [WindowNext]_windowVars PROVE WindowInv'
  OBVIOUS
<1>1. ASSUME NEW t \in Tabs, NEW kind \in {"create", "edit", "ship", "resubmit"}, BeginRequest(t, kind)
      PROVE  WindowInv'
  BY <1>1, BeginKeeps
<1>2. ASSUME NEW t \in Tabs,
             Gate(t) \/ Pause(t) \/ Override(t) \/ AskSlack(t) \/ AskEmail(t) \/ Fails(t) \/ Save(t)
      PROVE  WindowInv'
  BY <1>2, GateKeeps, PauseKeeps, OverrideKeeps, SlackKeeps, EmailKeeps, FailsKeeps, SaveKeeps
<1>3. ASSUME NEW status \in {"changes_needed", "approved", "rejected"}, Decide(status)
      PROVE  WindowInv'
  BY <1>3, DecideKeeps
<1>4. CASE Draft \/ Tick
  BY <1>4, DraftKeeps, TickKeeps
<1>5. CASE setSubmissionExtension \/ setUnrestrictedAccess \/ setIdentityOverride \/ identityChanges
  BY <1>5, StaffKeeps
<1>6. CASE setPaused \/ LoadPage \/ UNCHANGED windowVars
  BY <1>6, RestKeeps
<1>7. QED
  BY <1>1, <1>2, <1>3, <1>4, <1>5, <1>6 DEF WindowNext

(* What the inductive invariant says of the page is what its builder sees:  *)
(* the page offers what the gate lets through.                              *)
LEMMA WindowInvHolds == WindowInv => WindowHolds
<1> SUFFICES ASSUME WindowInv PROVE WindowHolds
  OBVIOUS
<1>1. /\ now \in Nat /\ NotSet = -1 /\ Grace \in Nat /\ project.asked \in {NotSet} \cup Nat
      /\ builder.until \in Int
  BY WindowAssumption DEF WindowInv, WindowTyped, WindowTypeOK, BuilderRow, NotSet
<1>2. ASSUME page.same
      PROVE  /\ requireSubmissionAllowed(project.status, project.asked) => canShipProject
             /\ canShipProject => \/ requireSubmissionAllowed(project.status, project.asked)
                                  \/ page.until # NotSet /\ page.until <= now
  <2>1. /\ page.status = project.status /\ page.until = builder.until
        /\ page.deadline = changesNeededDeadline(project.status, project.asked)
        /\ Freely(builder) => page.freely
        /\ page.freely => Freely(builder) \/ (builder.until # NotSet /\ builder.until <= now)
    BY <1>2 DEF WindowInv, PageTrue
  <2>2. page.deadline > now => page.status = "changes_needed"
    BY <1>1, <2>1 DEF changesNeededDeadline
  <2>3. QED
    BY <1>1, <2>1, <2>2 DEF requireSubmissionAllowed, canShipProject, isWithinChangesWindow
<1>3. QED
  BY <1>2 DEF WindowInv, EntryAllowed, SentBackHasDate, WindowHolds

(* The inductive invariant, for any number of requests at once and any      *)
(* clock.                                                                   *)
THEOREM WindowInvariant == WindowSpec => []WindowInv
  BY WindowInvInit, WindowInvStep, PTL DEF WindowSpec

(* The gate, the page and every request keep their types.                   *)
THEOREM WindowTypeCorrect == WindowSpec => []WindowTypeOK
<1>1. WindowInv => WindowTypeOK
  BY DEF WindowInv, WindowTyped
<1>2. QED
  BY <1>1, WindowInvariant, PTL

(* What comes into the queue was allowed, and its builder eligible, at some *)
(* time since the request began; a project sent back has its two days; and  *)
(* the page offers what the gate lets through (requireSubmissionAllowed,    *)
(* getStatus, getSubmissionWindow, canShipProject).                         *)
THEOREM WindowIsKept == WindowSpec => []WindowHolds
  BY WindowInvariant, WindowInvHolds, PTL

-----------------------------------------------------------------------------
(* Notices.  Whoever has not been excused is on the list of one request at  *)
(* most that tells of the closing, and off every list once they were marked *)
(* or told; is told of golden projects by the one request whose UPDATE      *)
(* found plain ones; and has markers that a save compared with the row as   *)
(* it still is.                                                             *)
Doing(kind) ==
    CASE kind = "closing" -> {"next", "send", "stamp"} [] kind = "email" -> {"next", "look", "patch"}
      [] kind = "golden" -> {"next", "mark", "tell"} [] OTHER -> {"next"}

ListJob == [kind : Channels \cup {"none"}, todo : SUBSET Recipients, at : Recipients \cup {Nobody},
            stage : {"next", "send", "stamp", "look", "patch", "mark", "tell"}]

SoundJob(q) ==
    /\ q \in ListJob /\ q.stage \in Doing(q.kind)
    /\ q.stage = "next" <=> q.at = Nobody
    /\ q.at \notin q.todo

SavedRow == [of : Recipients, row : [Columns -> BOOLEAN], changes : SUBSET Columns, stage : {"found", "compared"}]

UserRow == [pipes : BOOLEAN, row : [Columns -> BOOLEAN], plain : Nat, golden : Nat]

NoticesTyped ==
    /\ told \in [Channels -> [Recipients -> Nat]]
    /\ excused \in [Channels \cup {"marker"} -> SUBSET Recipients]
    /\ person \in [Recipients -> UserRow]
    /\ \A u \in Recipients : person[u].plain + person[u].golden <= 1 + budget.events
    /\ airtable \in [banned : SUBSET Recipients, dated : SUBSET Recipients]
    /\ job \in [Jobs -> ListJob] /\ \A j \in Jobs : SoundJob(job[j])
    /\ saver \in [Savers -> SavedRow \cup {NoSave}]
    /\ budget \in [jobs : 0 .. MaxJobs, events : 0 .. MaxEvents]

Has(j, u) == job[j].kind = "closing" /\ (u \in job[j].todo \/ job[j].at = u)
With(j, u, stage) == job[j].at = u /\ job[j].stage = stage

ClosingOnce(u) == u \notin excused["closing"] =>
    /\ \A i, j \in Jobs : Has(i, u) /\ Has(j, u) => i = j
    /\ \A j \in Jobs : Has(j, u) => ~person[u].row.notified
    /\ told["closing"][u] > 0 => person[u].row.notified \/ \E j \in Jobs : With(j, u, "stamp")
    /\ told["closing"][u] <= 1
    /\ \A s \in Savers : saver[s].of = u /\ saver[s].row.notified => person[u].row.notified

EmailOnce(u) == told["email"][u] <= 1 /\ (told["email"][u] = 1 => u \in airtable.dated)

GoldenOnce(u) == u \notin excused["golden"] =>
    /\ person[u].golden > 0 /\ (\E j \in Jobs : With(j, u, "mark")) => person[u].plain = 0
    /\ told["golden"][u] > 0 => person[u].golden > 0
    /\ \A j \in Jobs : With(j, u, "tell") => person[u].golden > 0 /\ told["golden"][u] = 0
    /\ \A i, j \in Jobs : With(i, u, "tell") /\ With(j, u, "tell") => i = j
    /\ told["golden"][u] <= 1

Both(row) == row.watchlisted /\ row.coolBuilder

OneMarker(u) == u \notin excused["marker"] =>
    /\ ~Both(person[u].row)
    /\ \A s \in Savers : saver[s].of = u =>
        /\ ~Both(saver[s].row)
        /\ saver[s].stage = "compared" =>
            \A c \in Markers : c \in saver[s].changes <=> saver[s].row[c] # person[u].row[c]

SparedTrue ==
    /\ spared \in [Jobs -> SUBSET Recipients]
    /\ \A j \in Jobs :
        /\ spared[j] \subseteq airtable.banned
        /\ job[j].stage \in {"send", "look", "patch"} => job[j].at \notin spared[j]

Each(u) == ClosingOnce(u) /\ EmailOnce(u) /\ GoldenOnce(u) /\ OneMarker(u)

NoticesInv == NoticesTyped /\ SparedTrue /\ \A u \in Recipients : Each(u)

-----------------------------------------------------------------------------
(* What a step leaves of each promise that it does not touch.               *)
LEMMA ClosingStays ==
    ASSUME NEW u \in Recipients, ClosingOnce(u), excused["closing"] \subseteq excused'["closing"],
           told'["closing"][u] = told["closing"][u],
           person'[u].row.notified = person[u].row.notified,
           \A j \in Jobs : Has(j, u)' => Has(j, u),
           \A j \in Jobs : With(j, u, "stamp") => With(j, u, "stamp")' \/ u \in excused'["closing"],
           \A s \in Savers : saver'[s].of = u /\ saver'[s].row.notified =>
                (saver[s].of = u /\ saver[s].row.notified) \/ person[u].row.notified
    PROVE  ClosingOnce(u)'
<1> SUFFICES ASSUME u \notin excused'["closing"] PROVE ClosingOnce(u)'
  BY DEF ClosingOnce
<1>1. u \notin excused["closing"]
  OBVIOUS
<1>2. told'["closing"][u] > 0 => person'[u].row.notified \/ \E j \in Jobs : With(j, u, "stamp")'
  BY <1>1 DEF ClosingOnce
<1>3. QED
  BY <1>1, <1>2 DEF ClosingOnce

LEMMA GoldenStays ==
    ASSUME NEW u \in Recipients, GoldenOnce(u), excused["golden"] \subseteq excused'["golden"],
           told'["golden"][u] = told["golden"][u],
           person'[u].plain = person[u].plain, person'[u].golden = person[u].golden,
           \A j \in Jobs : With(j, u, "mark")' => With(j, u, "mark"),
           \A j \in Jobs : With(j, u, "tell")' => With(j, u, "tell")
    PROVE  GoldenOnce(u)'
  BY DEF GoldenOnce

LEMMA MarkerStays ==
    ASSUME NEW u \in Recipients, OneMarker(u), excused["marker"] \subseteq excused'["marker"],
           \A c \in Markers : person'[u].row[c] = person[u].row[c], saver' = saver
    PROVE  OneMarker(u)'
  BY DEF OneMarker, Both, Markers

LEMMA TypedTypes == NoticesTyped => NoticesTypeOK
<1> SUFFICES ASSUME NoticesTyped PROVE NoticesTypeOK
  OBVIOUS
<1>1. ASSUME NEW u \in Recipients
      PROVE  /\ person[u].pipes \in BOOLEAN
             /\ \A c \in Columns : person[u].row[c] \in BOOLEAN
             /\ person[u].plain \in 0 .. 1 + MaxEvents /\ person[u].golden \in 0 .. 1 + MaxEvents
  <2>1. person[u] \in UserRow
    BY DEF NoticesTyped
  <2>2. /\ person[u].pipes \in BOOLEAN /\ person[u].row \in [Columns -> BOOLEAN]
        /\ person[u].plain \in Nat /\ person[u].golden \in Nat
    BY <2>1 DEF UserRow
  <2>3. person[u].plain + person[u].golden <= 1 + budget.events /\ budget.events \in 0 .. MaxEvents
    BY DEF NoticesTyped
  <2>4. QED
    BY <2>2, <2>3, NoticesAssumption
<1>2. \A j \in Jobs : job[j] \in ListJob
  BY DEF NoticesTyped
<1>3. QED
  BY <1>1, <1>2 DEF NoticesTyped, NoticesTypeOK, ListJob

(* A request goes on down its own list: nobody comes to be on a list.       *)
GoesDown(j, q) ==
    /\ SoundJob(q) /\ job' = [job EXCEPT ![j] = q]
    /\ q.todo \subseteq job[j].todo /\ q.at \in job[j].todo \cup {job[j].at, Nobody}
    /\ q.kind = job[j].kind \/ (q.kind = "none" /\ q.todo = {})

LEMMA JobMoves ==
    ASSUME NoticesInv, NEW j \in Jobs, NEW q, GoesDown(j, q)
    PROVE  /\ job' \in [Jobs -> ListJob] /\ \A i \in Jobs : SoundJob(job'[i])
           /\ job'[j] = q /\ \A i \in Jobs \ {j} : job'[i] = job[i]
           /\ \A i \in Jobs, u \in Recipients : Has(i, u)' => Has(i, u)
           /\ \A i \in Jobs \ {j}, u \in Recipients : \A stage : With(i, u, stage)' = With(i, u, stage)
<1>1. job \in [Jobs -> ListJob] /\ \A i \in Jobs : SoundJob(job[i])
  BY DEF NoticesInv, NoticesTyped
<1>2. job'[j] = q /\ \A i \in Jobs \ {j} : job'[i] = job[i]
  BY <1>1 DEF GoesDown
<1>3. job' \in [Jobs -> ListJob] /\ \A i \in Jobs : SoundJob(job'[i])
  BY <1>1, <1>2 DEF GoesDown, SoundJob
<1>4. ASSUME NEW i \in Jobs, NEW u \in Recipients, Has(i, u)' PROVE Has(i, u)
  <2>1. CASE i = j
    <3>1. q.kind = "closing" /\ (u \in q.todo \/ q.at = u) /\ u # Nobody
      BY <1>2, <1>4, <2>1, NoticesAssumption DEF Has
    <3>2. job[j].kind = "closing" /\ (u \in job[j].todo \/ job[j].at = u)
      BY <3>1 DEF GoesDown
    <3>3. QED
      BY <2>1, <3>2 DEF Has
  <2>2. CASE i # j
    BY <1>2, <1>4, <2>2 DEF Has
  <2>3. QED
    BY <2>1, <2>2
<1>5. \A i \in Jobs \ {j}, u \in Recipients : \A stage : With(i, u, stage)' = With(i, u, stage)
  BY <1>2 DEF With
<1>6. QED
  BY <1>2, <1>3, <1>4, <1>5

(* The steps of a request, as records.                                      *)
LEMMA TurnIs ==
    ASSUME NoticesInv, NEW j \in Jobs, NEW u \in job[j].todo, NEW stage \in Doing(job[j].kind),
           job[j].stage = "next", Turn(j, u, stage)
    PROVE  \E q : /\ GoesDown(j, q) /\ q.kind = job[j].kind /\ q.stage = stage
                  /\ q.at = IF stage = "next" THEN Nobody ELSE u
<1> DEFINE q == [job[j] EXCEPT !.todo = @ \ {u}, !.stage = stage, !.at = IF stage = "next" THEN Nobody ELSE u]
<1>1. job[j] \in ListJob /\ SoundJob(job[j]) /\ job \in [Jobs -> ListJob] /\ u \in Recipients
  BY DEF NoticesInv, NoticesTyped, ListJob
<1>2. /\ q \in ListJob /\ q.kind = job[j].kind /\ q.todo = job[j].todo \ {u} /\ q.stage = stage
      /\ q.at = IF stage = "next" THEN Nobody ELSE u
  BY <1>1 DEF ListJob, Doing
<1>3. job' = [job EXCEPT ![j] = q]
  BY <1>1 DEF Turn
<1> HIDE DEF q
<1>4. GoesDown(j, q)
  BY <1>1, <1>2, <1>3, NoticesAssumption DEF GoesDown, SoundJob
<1>5. QED
  BY <1>2, <1>4

LEMMA ToIs ==
    ASSUME NoticesInv, NEW j \in Jobs, NEW stage \in Doing(job[j].kind), job[j].stage # "next",
           stage # "next", To(j, stage)
    PROVE  \E q : GoesDown(j, q) /\ q.kind = job[j].kind /\ q.stage = stage /\ q.at = job[j].at
<1> DEFINE q == [job[j] EXCEPT !.stage = stage]
<1>1. job[j] \in ListJob /\ SoundJob(job[j]) /\ job \in [Jobs -> ListJob]
  BY DEF NoticesInv, NoticesTyped
<1>2. /\ q \in ListJob /\ q.kind = job[j].kind /\ q.todo = job[j].todo /\ q.stage = stage
      /\ q.at = job[j].at
  BY <1>1 DEF ListJob, Doing
<1>3. job' = [job EXCEPT ![j] = q]
  BY <1>1 DEF To
<1> HIDE DEF q
<1>4. GoesDown(j, q)
  BY <1>1, <1>2, <1>3 DEF GoesDown, SoundJob
<1>5. QED
  BY <1>2, <1>4

LEMMA NextUserIs ==
    ASSUME NoticesInv, NEW j \in Jobs, NextUser(j)
    PROVE  \E q : GoesDown(j, q) /\ q.kind = job[j].kind /\ q.stage = "next" /\ q.at = Nobody
<1> DEFINE q == [job[j] EXCEPT !.stage = "next", !.at = Nobody]
<1>1. job[j] \in ListJob /\ SoundJob(job[j]) /\ job \in [Jobs -> ListJob]
  BY DEF NoticesInv, NoticesTyped
<1>2. /\ q \in ListJob /\ q.kind = job[j].kind /\ q.todo = job[j].todo /\ q.stage = "next"
      /\ q.at = Nobody
  BY <1>1 DEF ListJob
<1>3. job' = [job EXCEPT ![j] = q]
  BY <1>1 DEF NextUser
<1> HIDE DEF q
<1>4. "next" \in Doing(job[j].kind)
  BY DEF Doing
<1>5. Nobody \notin job[j].todo
  BY <1>1, NoticesAssumption DEF ListJob
<1>6. GoesDown(j, q)
  BY <1>1, <1>2, <1>3, <1>4, <1>5 DEF GoesDown, SoundJob
<1>7. QED
  BY <1>2, <1>6

LEMMA DropsIs ==
    ASSUME NoticesInv, NEW j \in Jobs, job' = [job EXCEPT ![j] = NoJob]
    PROVE  GoesDown(j, NoJob)
  BY DEF GoesDown, SoundJob, NoJob, ListJob, Doing, Channels

(* Who a request is with is a user, and on no list of its own any more.     *)
LEMMA WithSomebody ==
    ASSUME NoticesInv, NEW j \in Jobs, job[j].stage # "next"
    PROVE  /\ job[j].at \in Recipients /\ With(j, job[j].at, job[j].stage)
           /\ job[j].stage \in {"send", "stamp"} => job[j].kind = "closing" /\ Has(j, job[j].at)
           /\ job[j].stage \in {"look", "patch"} => job[j].kind = "email"
           /\ job[j].stage \in {"mark", "tell"} => job[j].kind = "golden"
<1>1. SoundJob(job[j]) /\ job[j] \in ListJob
  BY DEF NoticesInv, NoticesTyped
<1>2. job[j].at \in Recipients
  BY <1>1 DEF SoundJob, ListJob
<1>3. /\ job[j].stage \in {"send", "stamp"} => job[j].kind = "closing"
      /\ job[j].stage \in {"look", "patch"} => job[j].kind = "email"
      /\ job[j].stage \in {"mark", "tell"} => job[j].kind = "golden"
  BY <1>1 DEF SoundJob, Doing, ListJob, Channels
<1>4. QED
  BY <1>2, <1>3 DEF With, Has

-----------------------------------------------------------------------------
(* A request takes a step that nobody is told or marked by.                 *)
LEMMA QuietJob ==
    ASSUME NoticesInv, NEW j \in Jobs, NEW q, GoesDown(j, q),
           UNCHANGED <<person, airtable, saver, told, budget>>,
           spared' \in [Jobs -> SUBSET Recipients], \A i \in Jobs : spared'[i] \subseteq spared[i],
           excused' \in [Channels \cup {"marker"} -> SUBSET Recipients],
           \A c \in Channels \cup {"marker"} : excused[c] \subseteq excused'[c],
           job[j].stage = "stamp" => job[j].at \in excused'["closing"],
           q.stage # "tell", q.stage = "mark" => person[q.at].golden = 0,
           q.stage \in {"send", "look", "patch"} => q.at \notin spared'[j]
    PROVE  NoticesInv'
<1>1. /\ job' \in [Jobs -> ListJob] /\ \A i \in Jobs : SoundJob(job'[i])
      /\ job'[j] = q /\ \A i \in Jobs \ {j} : job'[i] = job[i]
      /\ \A i \in Jobs, u \in Recipients : Has(i, u)' => Has(i, u)
      /\ \A i \in Jobs \ {j}, u \in Recipients : \A stage : With(i, u, stage)' = With(i, u, stage)
  BY JobMoves
<1>2. NoticesTyped'
  <2>1. NoticesTyped
    BY DEF NoticesInv
  <2>2. /\ told' = told /\ person' = person /\ airtable' = airtable
        /\ saver' = saver /\ budget' = budget
    OBVIOUS
  <2>3. /\ job' \in [Jobs -> ListJob] /\ \A i \in Jobs : SoundJob(job'[i])
        /\ excused' \in [Channels \cup {"marker"} -> SUBSET Recipients]
    BY <1>1
  <2>4. QED
    BY <2>1, <2>2, <2>3 DEF NoticesTyped
<1>3. SparedTrue'
  BY <1>1 DEF NoticesInv, SparedTrue
<1>4. ASSUME NEW u \in Recipients PROVE Each(u)'
  <2>1. Each(u)
    BY DEF NoticesInv
  <2>2. ClosingOnce(u)'
    <3>1. \A i \in Jobs : With(i, u, "stamp") => With(i, u, "stamp")' \/ u \in excused'["closing"]
      BY <1>1 DEF With
    <3>2. QED
      BY <1>1, <2>1, <3>1, ClosingStays DEF Each, Channels
  <2>3. GoldenOnce(u)'
    <3>1. CASE q.stage = "mark" /\ q.at = u
      <4>1. person[u].golden = 0
        BY <3>1
      <4>2. \A i \in Jobs : With(i, u, "tell")' => With(i, u, "tell")
        BY <1>1, <3>1 DEF With
      <4>3. excused["golden"] \subseteq excused'["golden"]
        BY DEF Channels
      <4>4. QED
        BY <2>1, <4>1, <4>2, <4>3 DEF Each, GoldenOnce
    <3>2. CASE ~(q.stage = "mark" /\ q.at = u)
      <4>1. \A i \in Jobs : With(i, u, "mark")' => With(i, u, "mark")
        BY <1>1, <3>2 DEF With
      <4>2. \A i \in Jobs : With(i, u, "tell")' => With(i, u, "tell")
        BY <1>1 DEF With
      <4>3. QED
        BY <2>1, <4>1, <4>2, GoldenStays DEF Each, Channels
    <3>3. QED
      BY <3>1, <3>2
  <2>4. OneMarker(u)' /\ EmailOnce(u)'
    BY <2>1, MarkerStays DEF Each, EmailOnce
  <2>5. QED
    BY <2>2, <2>3, <2>4 DEF Each
<1>5. QED
  BY <1>2, <1>3, <1>4 DEF NoticesInv

LEMMA EndsKeeps ==
    ASSUME NoticesInv, NEW j \in Jobs, Ends(j) \/ Dies(j)
    PROVE  NoticesInv'
<1>1. /\ GoesDown(j, NoJob) /\ NoJob.stage = "next"
      /\ UNCHANGED <<person, airtable, saver, told, budget>> /\ spared' = [spared EXCEPT ![j] = {}]
  BY DropsIs DEF Ends, Dies, NoJob
<1>2. spared' \in [Jobs -> SUBSET Recipients] /\ \A i \in Jobs : spared'[i] \subseteq spared[i]
  BY <1>1 DEF NoticesInv, SparedTrue
<1>3. excused \in [Channels \cup {"marker"} -> SUBSET Recipients]
  BY DEF NoticesInv, NoticesTyped
<1>4. CASE UNCHANGED excused /\ job[j].stage # "stamp"
  BY <1>1, <1>2, <1>3, <1>4, QuietJob
<1>5. CASE Excuse("closing", {job[j].at}) /\ job[j].stage = "stamp"
  <2>1. job[j].at \in Recipients
    BY <1>5, WithSomebody
  <2>2. excused' = [excused EXCEPT !["closing"] = @ \cup {job[j].at}]
    BY <1>5 DEF Excuse
  <2>3. /\ excused' \in [Channels \cup {"marker"} -> SUBSET Recipients]
        /\ \A c \in Channels \cup {"marker"} : excused[c] \subseteq excused'[c]
        /\ job[j].at \in excused'["closing"]
    BY <1>3, <2>1, <2>2 DEF Channels
  <2>4. QED
    BY <1>1, <1>2, <2>3, QuietJob
<1>6. QED
  BY <1>4, <1>5 DEF Ends, Dies

LEMMA LooksUpKeeps ==
    ASSUME NoticesInv, NEW j \in Jobs, NEW u \in Recipients, LooksUp(j, u)
    PROVE  NoticesInv'
<1> DEFINE on == IF job[j].kind = "closing" THEN "send" ELSE "look"
<1>1. /\ u \in job[j].todo /\ job[j].stage = "next" /\ on \in Doing(job[j].kind)
      /\ "next" \in Doing(job[j].kind)
      /\ UNCHANGED <<person, airtable, saver, told, excused, spared, budget>>
      /\ Turn(j, u, "next") \/ (u \notin airtable.banned /\ Turn(j, u, on))
  BY DEF LooksUp, Doing
<1>2. PICK q : GoesDown(j, q) /\ (q.stage = "next" \/ (q.stage = on /\ q.at = u /\ u \notin airtable.banned))
  <2>1. CASE Turn(j, u, "next")
    <3>1. \E q : GoesDown(j, q) /\ q.kind = job[j].kind /\ q.stage = "next"
      BY <1>1, <2>1, TurnIs
    <3>2. QED
      BY <3>1
  <2>2. CASE u \notin airtable.banned /\ Turn(j, u, on)
    <3>1. on # "next"
      OBVIOUS
    <3> HIDE DEF on
    <3>2. \E q : GoesDown(j, q) /\ q.stage = on /\ q.at = u
      BY <1>1, <2>2, <3>1, TurnIs
    <3>3. QED
      BY <2>2, <3>2
  <2>3. QED
    BY <1>1, <2>1, <2>2
<1>3. u \notin airtable.banned => u \notin spared[j]
  BY DEF NoticesInv, SparedTrue
<1>4. QED
  BY <1>1, <1>2, <1>3, QuietJob DEF NoticesInv, NoticesTyped, SparedTrue

LEMMA LooksAtDateKeeps ==
    ASSUME NoticesInv, NEW j \in Jobs, LooksAtDate(j)
    PROVE  NoticesInv'
<1>1. /\ job[j].stage = "look" /\ job[j].kind = "email" /\ "patch" \in Doing(job[j].kind)
      /\ UNCHANGED <<person, airtable, saver, told, excused, spared, budget>>
      /\ NextUser(j) \/ To(j, "patch")
  BY WithSomebody DEF LooksAtDate, Doing
<1>2. PICK q : GoesDown(j, q) /\ (q.stage = "next" \/ (q.stage = "patch" /\ q.at = job[j].at))
  <2>1. CASE NextUser(j)
    <3>1. \E q : GoesDown(j, q) /\ q.kind = job[j].kind /\ q.stage = "next" /\ q.at = Nobody
      BY <2>1, NextUserIs
    <3>2. QED
      BY <3>1
  <2>2. CASE To(j, "patch")
    <3>1. \E q : GoesDown(j, q) /\ q.kind = job[j].kind /\ q.stage = "patch" /\ q.at = job[j].at
      BY <1>1, <2>2, ToIs
    <3>2. QED
      BY <3>1
  <2>3. QED
    BY <1>1, <2>1, <2>2
<1>3. job[j].at \notin spared[j]
  BY <1>1 DEF NoticesInv, SparedTrue
<1>4. QED
  BY <1>1, <1>2, <1>3, QuietJob DEF NoticesInv, NoticesTyped, SparedTrue

LEMMA CountsGoldenKeeps ==
    ASSUME NoticesInv, NEW j \in Jobs, NEW u \in Recipients, CountsGolden(j, u)
    PROVE  NoticesInv'
<1> DEFINE on == IF person[u].golden > 0 THEN "next" ELSE "mark"
<1>1. /\ u \in job[j].todo /\ job[j].stage = "next" /\ on \in Doing(job[j].kind)
      /\ UNCHANGED <<person, airtable, saver, told, excused, spared, budget>>
      /\ Turn(j, u, on)
  BY DEF CountsGolden, Doing
<1>2. PICK q : GoesDown(j, q) /\ q.stage = on /\ q.at = IF on = "next" THEN Nobody ELSE u
  <2> HIDE DEF on
  <2>1. \E q : /\ GoesDown(j, q) /\ q.kind = job[j].kind /\ q.stage = on
               /\ q.at = IF on = "next" THEN Nobody ELSE u
    BY <1>1, TurnIs
  <2>2. QED
    BY <2>1
<1>3. on = "mark" => person[u].golden = 0
  BY DEF NoticesInv, NoticesTyped, UserRow
<1>4. QED
  BY <1>1, <1>2, <1>3, QuietJob DEF NoticesInv, NoticesTyped, SparedTrue

(* A request begins: whoever is on two lists now has been excused.          *)
LEMMA StartKeeps ==
    ASSUME NoticesInv, NEW j \in Jobs, NEW kind \in Channels, Start(j, kind)
    PROVE  NoticesInv'
<1> DEFINE q == [NoJob EXCEPT !.kind = kind, !.todo = ListedFor(kind)]
<1> DEFINE others == {i \in Jobs : job[i].kind = kind}
<1> DEFINE shared == ListedFor(kind) \cap UNION {job[i].todo \cup ({job[i].at} \ {Nobody}) : i \in others}
<1>1. /\ job[j] = NoJob /\ job' = [job EXCEPT ![j] = q]
      /\ IF kind = "closing" THEN Excuse(kind, shared) ELSE UNCHANGED excused
      /\ spared' = [spared EXCEPT ![j] = airtable.banned]
      /\ budget.jobs < MaxJobs /\ Spend("jobs") /\ UNCHANGED <<person, airtable, saver, told>>
  BY DEF Start
<1>2. /\ q \in ListJob /\ q.kind = kind /\ q.todo = ListedFor(kind) /\ q.at = Nobody /\ q.stage = "next"
      /\ ListedFor(kind) \subseteq Recipients
  BY DEF NoJob, ListJob, ListedFor
<1> HIDE DEF q
<1>3. /\ NoticesTyped /\ job \in [Jobs -> ListJob] /\ \A i \in Jobs : SoundJob(job[i])
      /\ excused \in [Channels \cup {"marker"} -> SUBSET Recipients]
  BY DEF NoticesInv, NoticesTyped
<1>4. SoundJob(q)
  BY <1>2, NoticesAssumption DEF SoundJob, Doing, Channels
<1>5. job'[j] = q /\ (\A i \in Jobs \ {j} : job'[i] = job[i]) /\ job[j].stage = "next" /\ job[j].kind = "none"
  BY <1>1, <1>3 DEF NoJob
<1>6. /\ job' \in [Jobs -> ListJob] /\ \A i \in Jobs : SoundJob(job'[i])
  BY <1>1, <1>2, <1>3, <1>4, <1>5
<1>7. /\ excused' \in [Channels \cup {"marker"} -> SUBSET Recipients]
      /\ \A c \in Channels \cup {"marker"} : excused[c] \subseteq excused'[c]
      /\ kind = "closing" => shared \subseteq excused'["closing"]
  <2>1. CASE kind = "closing"
    <3>1. shared \subseteq Recipients
      BY <1>2
    <3> HIDE DEF shared
    <3>2. excused' = [excused EXCEPT ![kind] = @ \cup shared]
      BY <1>1, <2>1 DEF Excuse
    <3>3. QED
      BY <1>3, <2>1, <3>1, <3>2
  <2>2. CASE kind # "closing"
    BY <1>1, <1>3, <2>2
  <2>3. QED
    BY <2>1, <2>2
<1>8. budget' \in [jobs : 0 .. MaxJobs, events : 0 .. MaxEvents] /\ budget'.events = budget.events
  BY <1>1, <1>3, NoticesAssumption DEF NoticesTyped, Spend
<1>9. NoticesTyped'
  <2>1. \A u \in Recipients : person'[u].plain + person'[u].golden <= 1 + budget'.events
    BY <1>1, <1>3, <1>8 DEF NoticesTyped
  <2>2. told' = told /\ person' = person /\ airtable' = airtable /\ saver' = saver
    BY <1>1
  <2>3. QED
    BY <1>3, <1>6, <1>7, <1>8, <2>1, <2>2 DEF NoticesTyped
<1>10. SparedTrue'
  <2>1. SparedTrue /\ airtable.banned \subseteq Recipients
    BY <1>3 DEF NoticesInv, NoticesTyped
  <2>2. QED
    BY <1>1, <1>2, <1>5, <2>1 DEF SparedTrue
<1>11. \A i \in Jobs, u \in Recipients : \A stage : stage # "next" => With(i, u, stage)' = With(i, u, stage)
  BY <1>2, <1>5 DEF With
<1>12. ASSUME NEW u \in Recipients PROVE Each(u)'
  <2>1. Each(u)
    BY DEF NoticesInv
  <2>2. ClosingOnce(u)'
    <3>1. CASE kind = "closing" /\ u \in ListedFor(kind)
      <4>1. \A i \in Jobs \ {j} : Has(i, u)' => Has(i, u)
        BY <1>5 DEF Has
      <4>2. ~person[u].row.notified
        BY <3>1 DEF ListedFor
      <4>3. SUFFICES ASSUME u \notin excused'["closing"] PROVE ClosingOnce(u)'
        BY DEF ClosingOnce
      <4>4. u \notin excused["closing"] /\ u \notin shared
        BY <1>7, <3>1, <4>3
      <4>5. ASSUME NEW i \in Jobs, Has(i, u) PROVE FALSE
        <5>1. i \in others /\ u \in job[i].todo \cup ({job[i].at} \ {Nobody})
          BY <3>1, <4>5, NoticesAssumption DEF Has
        <5>2. QED
          BY <3>1, <4>4, <5>1
      <4>6. \A i \in Jobs : Has(i, u)' => i = j
        BY <4>1, <4>5
      <4>7. told'["closing"][u] > 0 => person'[u].row.notified \/ \E i \in Jobs : With(i, u, "stamp")'
        BY <1>1, <1>11, <2>1, <4>4 DEF Each, ClosingOnce
      <4>8. QED
        BY <1>1, <2>1, <4>2, <4>4, <4>6, <4>7 DEF Each, ClosingOnce
    <3>2. CASE ~(kind = "closing" /\ u \in ListedFor(kind))
      <4>1. \A i \in Jobs : Has(i, u)' => Has(i, u)
        <5>1. ~Has(j, u)'
          BY <1>2, <1>5, <3>2, NoticesAssumption DEF Has
        <5>2. \A i \in Jobs \ {j} : Has(i, u)' => Has(i, u)
          BY <1>5 DEF Has
        <5>3. QED
          BY <5>1, <5>2
      <4>2. QED
        BY <1>1, <1>7, <1>11, <2>1, <4>1, ClosingStays DEF Each, Channels
    <3>3. QED
      BY <3>1, <3>2
  <2>3. GoldenOnce(u)'
    BY <1>1, <1>7, <1>11, <2>1, GoldenStays DEF Each, Channels
  <2>4. OneMarker(u)' /\ EmailOnce(u)'
    BY <1>1, <1>7, <2>1, MarkerStays DEF Each, EmailOnce
  <2>5. QED
    BY <2>2, <2>3, <2>4 DEF Each
<1>13. QED
  BY <1>9, <1>10, <1>12 DEF NoticesInv

(* Somebody is told, or not heard to be.                                    *)
LEMMA TellIs ==
    ASSUME NoticesInv, NEW c \in Channels, NEW u \in Recipients, Tell(c, u)
    PROVE  /\ told' \in [Channels -> [Recipients -> Nat]] /\ told'[c][u] = told[c][u] + 1
           /\ \A d \in Channels, v \in Recipients : ~(d = c /\ v = u) => told'[d][v] = told[d][v]
<1>1. told \in [Channels -> [Recipients -> Nat]]
  BY DEF NoticesInv, NoticesTyped
<1> DEFINE f == [told[c] EXCEPT ![u] = @ + 1]
<1>2. f \in [Recipients -> Nat] /\ f[u] = told[c][u] + 1 /\ \A v \in Recipients \ {u} : f[v] = told[c][v]
  BY <1>1
<1>3. told' = [told EXCEPT ![c] = f]
  BY DEF Tell
<1> HIDE DEF f
<1>4. QED
  BY <1>1, <1>2, <1>3

LEMMA SendsKeeps ==
    ASSUME NoticesInv, NEW j \in Jobs, Sends(j)
    PROVE  NoticesInv'
<1>0. PICK u \in Recipients : u = job[j].at
  BY WithSomebody DEF Sends
<1>1. /\ job[j].stage = "send" /\ To(j, "stamp")
      /\ Tell("closing", u) \/ UNCHANGED told
      /\ UNCHANGED <<person, airtable, saver, excused, spared, budget>>
  BY <1>0 DEF Sends, Message
<1>2. job[j].kind = "closing" /\ Has(j, u) /\ "stamp" \in Doing(job[j].kind)
  BY <1>0, <1>1, WithSomebody DEF Doing
<1>3. PICK q : GoesDown(j, q) /\ q.stage = "stamp" /\ q.at = u
  <2>1. \E q : GoesDown(j, q) /\ q.kind = job[j].kind /\ q.stage = "stamp" /\ q.at = job[j].at
    BY <1>1, <1>2, ToIs
  <2>2. QED
    BY <1>0, <2>1
<1>4. /\ job' \in [Jobs -> ListJob] /\ \A i \in Jobs : SoundJob(job'[i])
      /\ job'[j] = q /\ \A i \in Jobs \ {j} : job'[i] = job[i]
      /\ \A i \in Jobs, v \in Recipients : Has(i, v)' => Has(i, v)
      /\ \A i \in Jobs \ {j}, v \in Recipients : \A stage : With(i, v, stage)' = With(i, v, stage)
  BY <1>3, JobMoves
<1>5. /\ told' \in [Channels -> [Recipients -> Nat]]
      /\ told'["closing"][u] \in {told["closing"][u], told["closing"][u] + 1}
      /\ \A c \in Channels, v \in Recipients : ~(c = "closing" /\ v = u) => told'[c][v] = told[c][v]
  <2>1. CASE Tell("closing", u)
    BY <1>2, <2>1, TellIs DEF Channels
  <2>2. CASE UNCHANGED told
    BY <1>2, <2>2 DEF NoticesInv, NoticesTyped
  <2>3. QED
    BY <1>1, <2>1, <2>2
<1>6. NoticesTyped'
  <2>1. NoticesTyped
    BY DEF NoticesInv
  <2>2. person' = person /\ airtable' = airtable /\ saver' = saver /\ excused' = excused /\ budget' = budget
    BY <1>1
  <2>3. QED
    BY <1>4, <1>5, <2>1, <2>2 DEF NoticesTyped
<1>7. SparedTrue'
  BY <1>1, <1>3, <1>4 DEF NoticesInv, SparedTrue
<1>8. ASSUME NEW v \in Recipients PROVE Each(v)'
  <2>1. Each(v)
    BY DEF NoticesInv
  <2>2. ClosingOnce(v)'
    <3>1. CASE v = u /\ u \notin excused["closing"]
      <4>1. ~person[u].row.notified /\ \A i \in Jobs : Has(i, u) => i = j
        BY <1>2, <2>1, <3>1 DEF Each, ClosingOnce
      <4>2. \A i \in Jobs : ~With(i, u, "stamp")
        <5>1. ASSUME NEW i \in Jobs, With(i, u, "stamp") PROVE FALSE
          <6>1. job[i].stage = "stamp" /\ job[i].at = u
            BY <5>1 DEF With
          <6>2. Has(i, u)
            BY <6>1, WithSomebody
          <6>3. QED
            BY <1>1, <4>1, <6>1, <6>2
        <5>2. QED
          BY <5>1
      <4>3. told["closing"][u] = 0
        <5>1. told["closing"][u] \in Nat
          BY <1>2 DEF NoticesInv, NoticesTyped, Channels
        <5>2. QED
          BY <2>1, <3>1, <4>1, <4>2, <5>1 DEF Each, ClosingOnce
      <4>4. With(j, u, "stamp")' /\ told'["closing"][u] <= 1
        BY <1>3, <1>4, <1>5, <4>3 DEF With
      <4>5. \A i \in Jobs : Has(i, u)' => i = j
        BY <1>2, <1>4, <4>1
      <4>6. QED
        BY <1>1, <1>2, <1>4, <2>1, <3>1, <4>1, <4>4, <4>5 DEF Each, ClosingOnce
    <3>2. CASE v # u
      <4>1. \A i \in Jobs : With(i, v, "stamp") => With(i, v, "stamp")'
        BY <1>1, <1>4 DEF With
      <4>2. told'["closing"][v] = told["closing"][v]
        BY <1>5, <3>2 DEF Channels
      <4>3. QED
        BY <1>1, <1>4, <2>1, <4>1, <4>2, ClosingStays DEF Each
    <3>3. CASE u \in excused["closing"] /\ v = u
      BY <1>1, <3>3 DEF ClosingOnce
    <3>4. QED
      BY <3>1, <3>2, <3>3
  <2>3. GoldenOnce(v)'
    <3>1. \A i \in Jobs : /\ With(i, v, "mark")' => With(i, v, "mark")
                          /\ With(i, v, "tell")' => With(i, v, "tell")
      BY <1>3, <1>4 DEF With
    <3>2. told'["golden"][v] = told["golden"][v]
      BY <1>5 DEF Channels
    <3>3. QED
      BY <1>1, <2>1, <3>1, <3>2, GoldenStays DEF Each
  <2>4. OneMarker(v)' /\ EmailOnce(v)'
    <3>1. told'["email"][v] = told["email"][v]
      BY <1>5 DEF Channels
    <3>2. QED
      BY <1>1, <2>1, <3>1, MarkerStays DEF Each, EmailOnce
  <2>5. QED
    BY <2>2, <2>3, <2>4 DEF Each
<1>9. QED
  BY <1>6, <1>7, <1>8 DEF NoticesInv

(* One user's row, or what their projects are, changes.                     *)
LEMMA PersonIs ==
    ASSUME NoticesInv, NEW u \in Recipients, NEW p \in UserRow, person' = [person EXCEPT ![u] = p]
    PROVE  /\ person' \in [Recipients -> UserRow] /\ person'[u] = p
           /\ \A v \in Recipients \ {u} : person'[v] = person[v]
  BY DEF NoticesInv, NoticesTyped

LEMMA StampsKeeps ==
    ASSUME NoticesInv, NEW j \in Jobs, Stamps(j)
    PROVE  NoticesInv'
<1>0. PICK u \in Recipients : u = job[j].at
  BY WithSomebody DEF Stamps
<1>1. /\ job[j].stage = "stamp" /\ NextUser(j)
      /\ person' = [person EXCEPT ![u].row.notified = TRUE]
      /\ UNCHANGED <<airtable, saver, told, excused, spared, budget>>
  BY <1>0 DEF Stamps
<1>2. Has(j, u)
  BY <1>0, <1>1, WithSomebody
<1>3. PICK q : GoesDown(j, q) /\ q.kind = job[j].kind /\ q.stage = "next" /\ q.at = Nobody
  <2>1. \E q : GoesDown(j, q) /\ q.kind = job[j].kind /\ q.stage = "next" /\ q.at = Nobody
    BY <1>1, NextUserIs
  <2>2. QED
    BY <2>1
<1>4. /\ job' \in [Jobs -> ListJob] /\ \A i \in Jobs : SoundJob(job'[i])
      /\ job'[j] = q /\ \A i \in Jobs \ {j} : job'[i] = job[i]
      /\ \A i \in Jobs, v \in Recipients : Has(i, v)' => Has(i, v)
      /\ \A i \in Jobs \ {j}, v \in Recipients : \A stage : With(i, v, stage)' = With(i, v, stage)
  BY <1>3, JobMoves
<1>5. /\ person' \in [Recipients -> UserRow] /\ person'[u].row.notified
      /\ person'[u].plain = person[u].plain /\ person'[u].golden = person[u].golden
      /\ \A c \in Markers : person'[u].row[c] = person[u].row[c]
      /\ \A v \in Recipients \ {u} : person'[v] = person[v]
  <2> DEFINE p == [person[u] EXCEPT !.row.notified = TRUE]
  <2>1. person \in [Recipients -> UserRow] /\ person[u] \in UserRow /\ person[u].row \in [Columns -> BOOLEAN]
    BY DEF NoticesInv, NoticesTyped, UserRow
  <2> DEFINE row == [person[u].row EXCEPT !.notified = TRUE]
  <2>2. TRUE \in BOOLEAN
    OBVIOUS
  <2>3. row \in [Columns -> BOOLEAN] /\ row.notified = TRUE /\ \A c \in Markers : row[c] = person[u].row[c]
    BY <2>1, <2>2 DEF Columns, Markers
  <2>4. p = [person[u] EXCEPT !.row = row]
    BY <2>1 DEF UserRow
  <2> HIDE DEF row
  <2>5. /\ p \in UserRow /\ p.row = row /\ p.plain = person[u].plain /\ p.golden = person[u].golden
    BY <2>1, <2>3, <2>4 DEF UserRow
  <2>6. person' = [person EXCEPT ![u] = p]
    BY <1>1, <2>1
  <2> HIDE DEF p
  <2>7. QED
    BY <2>3, <2>5, <2>6, PersonIs
<1>6. NoticesTyped'
  <2>1. NoticesTyped
    BY DEF NoticesInv
  <2>2. \A v \in Recipients : person'[v].plain + person'[v].golden <= 1 + budget'.events
    BY <1>1, <1>5, <2>1 DEF NoticesTyped
  <2>3. /\ told' = told /\ airtable' = airtable /\ saver' = saver /\ excused' = excused /\ budget' = budget
        /\ person' \in [Recipients -> UserRow]
    BY <1>1, <1>5
  <2>4. QED
    BY <1>4, <2>1, <2>2, <2>3 DEF NoticesTyped
<1>7. SparedTrue'
  BY <1>1, <1>3, <1>4 DEF NoticesInv, SparedTrue
<1>8. ~Has(j, u)'
  <2>1. SoundJob(job[j])
    BY DEF NoticesInv, NoticesTyped
  <2>2. u \notin q.todo /\ q.at # u
    BY <1>0, <1>3, <2>1, NoticesAssumption DEF GoesDown, SoundJob
  <2>3. QED
    BY <1>4, <2>2 DEF Has
<1>9. ASSUME NEW v \in Recipients PROVE Each(v)'
  <2>1. Each(v)
    BY DEF NoticesInv
  <2>2. ClosingOnce(v)'
    <3>1. CASE v = u /\ u \notin excused["closing"]
      <4>1. \A i \in Jobs : ~Has(i, u)'
        BY <1>2, <1>4, <1>8, <2>1, <3>1 DEF Each, ClosingOnce
      <4>2. QED
        BY <1>1, <1>5, <2>1, <3>1, <4>1 DEF Each, ClosingOnce
    <3>2. CASE v # u
      <4>1. \A i \in Jobs : With(i, v, "stamp") => With(i, v, "stamp")'
        <5>1. ~With(j, v, "stamp")
          BY <1>0, <3>2 DEF With
        <5>2. QED
          BY <1>4, <5>1
      <4>2. person'[v] = person[v]
        BY <1>5, <3>2
      <4>3. QED
        BY <1>1, <1>4, <2>1, <4>1, <4>2, ClosingStays DEF Each
    <3>3. CASE u \in excused["closing"] /\ v = u
      BY <1>1, <3>3 DEF ClosingOnce
    <3>4. QED
      BY <3>1, <3>2, <3>3
  <2>3. GoldenOnce(v)'
    <3>1. \A i \in Jobs : /\ With(i, v, "mark")' => With(i, v, "mark")
                          /\ With(i, v, "tell")' => With(i, v, "tell")
      BY <1>3, <1>4 DEF With
    <3>2. person'[v].plain = person[v].plain /\ person'[v].golden = person[v].golden
      BY <1>5
    <3>3. QED
      BY <1>1, <2>1, <3>1, <3>2, GoldenStays DEF Each
  <2>4. OneMarker(v)' /\ EmailOnce(v)'
    <3>1. \A c \in Markers : person'[v].row[c] = person[v].row[c]
      BY <1>5
    <3>2. QED
      BY <1>1, <2>1, <3>1, MarkerStays DEF Each, EmailOnce
  <2>5. QED
    BY <2>2, <2>3, <2>4 DEF Each
<1>10. QED
  BY <1>6, <1>7, <1>9 DEF NoticesInv

LEMMA WritesDateKeeps ==
    ASSUME NoticesInv, NEW j \in Jobs, WritesDate(j)
    PROVE  NoticesInv'
<1>0. PICK u \in Recipients : u = job[j].at
  BY WithSomebody DEF WritesDate
<1>1. /\ job[j].stage = "patch" /\ NextUser(j)
      /\ \/ /\ airtable' = [airtable EXCEPT !.dated = @ \cup {u}]
            /\ IF u \in airtable.dated THEN UNCHANGED told ELSE Tell("email", u)
         \/ UNCHANGED <<airtable, told>>
      /\ UNCHANGED <<person, saver, excused, spared, budget>>
  BY <1>0 DEF WritesDate
<1>2. told \in [Channels -> [Recipients -> Nat]] /\ airtable \in [banned : SUBSET Recipients, dated : SUBSET Recipients]
  BY DEF NoticesInv, NoticesTyped
<1>3. PICK q : GoesDown(j, q) /\ q.kind = job[j].kind /\ q.stage = "next" /\ q.at = Nobody
  <2>1. \E q : GoesDown(j, q) /\ q.kind = job[j].kind /\ q.stage = "next" /\ q.at = Nobody
    BY <1>1, NextUserIs
  <2>2. QED
    BY <2>1
<1>4. /\ job' \in [Jobs -> ListJob] /\ \A i \in Jobs : SoundJob(job'[i])
      /\ job'[j] = q /\ \A i \in Jobs \ {j} : job'[i] = job[i]
      /\ \A i \in Jobs, v \in Recipients : Has(i, v)' => Has(i, v)
      /\ \A i \in Jobs \ {j}, v \in Recipients : \A stage : With(i, v, stage)' = With(i, v, stage)
  BY <1>3, JobMoves
<1>5. /\ airtable' \in [banned : SUBSET Recipients, dated : SUBSET Recipients]
      /\ airtable'.banned = airtable.banned /\ airtable.dated \subseteq airtable'.dated
      /\ told' \in [Channels -> [Recipients -> Nat]]
      /\ \/ told' = told
         \/ /\ u \notin airtable.dated /\ u \in airtable'.dated
            /\ told'["email"][u] = told["email"][u] + 1
            /\ \A c \in Channels, v \in Recipients : ~(c = "email" /\ v = u) => told'[c][v] = told[c][v]
  <2>1. CASE UNCHANGED <<airtable, told>>
    BY <1>2, <2>1
  <2>2. CASE airtable' = [airtable EXCEPT !.dated = @ \cup {u}] /\ u \in airtable.dated /\ UNCHANGED told
    BY <1>2, <2>2
  <2>3. CASE airtable' = [airtable EXCEPT !.dated = @ \cup {u}] /\ u \notin airtable.dated /\ Tell("email", u)
    <3>1. /\ airtable' \in [banned : SUBSET Recipients, dated : SUBSET Recipients]
          /\ airtable'.banned = airtable.banned /\ airtable'.dated = airtable.dated \cup {u}
      BY <1>2, <2>3
    <3>2. "email" \in Channels
      BY DEF Channels
    <3>3. QED
      BY <2>3, <3>1, <3>2, TellIs
  <2>4. QED
    BY <1>1, <2>1, <2>2, <2>3
<1>6. NoticesTyped'
  <2>1. NoticesTyped
    BY DEF NoticesInv
  <2>2. person' = person /\ saver' = saver /\ excused' = excused /\ budget' = budget
    BY <1>1
  <2>3. QED
    BY <1>4, <1>5, <2>1, <2>2 DEF NoticesTyped
<1>7. SparedTrue'
  BY <1>1, <1>3, <1>4, <1>5 DEF NoticesInv, SparedTrue
<1>8. ASSUME NEW v \in Recipients PROVE Each(v)'
  <2>1. Each(v)
    BY DEF NoticesInv
  <2>2. told'["closing"][v] = told["closing"][v] /\ told'["golden"][v] = told["golden"][v]
    BY <1>5 DEF Channels
  <2>3. /\ \A i \in Jobs : With(i, v, "stamp") => With(i, v, "stamp")'
        /\ \A i \in Jobs : With(i, v, "mark")' => With(i, v, "mark")
        /\ \A i \in Jobs : With(i, v, "tell")' => With(i, v, "tell")
    BY <1>1, <1>3, <1>4 DEF With
  <2>4. ClosingOnce(v)'
    BY <1>1, <1>4, <2>1, <2>2, <2>3, ClosingStays DEF Each
  <2>5. GoldenOnce(v)'
    BY <1>1, <2>1, <2>2, <2>3, GoldenStays DEF Each
  <2>6. OneMarker(v)'
    BY <1>1, <2>1, MarkerStays DEF Each
  <2>7. EmailOnce(v)'
    <3>1. CASE told' = told
      BY <1>5, <2>1, <3>1 DEF Each, EmailOnce
    <3>2. CASE told' # told
      <4>1. CASE v = u
        <5>1. told["email"][u] \in Nat
          BY <1>2 DEF Channels
        <5>2. told["email"][u] = 0
          <6>1. u \notin airtable.dated
            BY <1>5, <3>2
          <6>2. told["email"][u] <= 1 /\ told["email"][u] # 1
            BY <2>1, <4>1, <6>1 DEF Each, EmailOnce
          <6>3. QED
            BY <5>1, <6>2
        <5>3. QED
          BY <1>5, <3>2, <4>1, <5>2 DEF EmailOnce
      <4>2. CASE v # u
        <5>1. told'["email"][v] = told["email"][v]
          BY <1>5, <4>2 DEF Channels
        <5>2. QED
          BY <1>5, <2>1, <5>1 DEF Each, EmailOnce
      <4>3. QED
        BY <4>1, <4>2
    <3>3. QED
      BY <3>1, <3>2
  <2>8. QED
    BY <2>4, <2>5, <2>6, <2>7 DEF Each
<1>9. QED
  BY <1>6, <1>7, <1>8 DEF NoticesInv

(* The one UPDATE that finds plain projects turns them all; a second one    *)
(* that comes after it finds none.                                          *)
LEMMA MarksGoldenKeeps ==
    ASSUME NoticesInv, NEW j \in Jobs, MarksGolden(j)
    PROVE  NoticesInv'
<1>0. PICK u \in Recipients : u = job[j].at
  BY WithSomebody DEF MarksGolden
<1>1. /\ job[j].stage = "mark"
      /\ IF person[u].plain = 0 THEN NextUser(j) ELSE To(j, "tell")
      /\ person' = [person EXCEPT ![u].plain = 0, ![u].golden = @ + person[u].plain]
      /\ UNCHANGED <<airtable, saver, told, excused, spared, budget>>
  BY <1>0 DEF MarksGolden
<1>2. With(j, u, "mark") /\ "tell" \in Doing(job[j].kind)
  BY <1>0, <1>1, WithSomebody DEF Doing
<1>3. PICK q : /\ GoesDown(j, q) /\ q.stage # "stamp" /\ q.stage # "mark"
               /\ q.stage \notin {"send", "look", "patch"}
               /\ q.stage = "tell" => q.at = u /\ person[u].plain # 0
  <2>1. CASE person[u].plain = 0
    <3>1. \E q : GoesDown(j, q) /\ q.kind = job[j].kind /\ q.stage = "next" /\ q.at = Nobody
      BY <1>1, <2>1, NextUserIs
    <3>2. QED
      BY <3>1
  <2>2. CASE person[u].plain # 0
    <3>1. \E q : GoesDown(j, q) /\ q.kind = job[j].kind /\ q.stage = "tell" /\ q.at = job[j].at
      BY <1>1, <1>2, <2>2, ToIs
    <3>2. QED
      BY <1>0, <2>2, <3>1
  <2>3. QED
    BY <2>1, <2>2
<1>4. /\ job' \in [Jobs -> ListJob] /\ \A i \in Jobs : SoundJob(job'[i])
      /\ job'[j] = q /\ \A i \in Jobs \ {j} : job'[i] = job[i]
      /\ \A i \in Jobs, v \in Recipients : Has(i, v)' => Has(i, v)
      /\ \A i \in Jobs \ {j}, v \in Recipients : \A stage : With(i, v, stage)' = With(i, v, stage)
  BY <1>3, JobMoves
<1>5. /\ person' \in [Recipients -> UserRow] /\ person'[u].row = person[u].row
      /\ person[u].plain \in Nat /\ person[u].golden \in Nat
      /\ person'[u].plain = 0 /\ person'[u].golden = person[u].golden + person[u].plain
      /\ \A v \in Recipients \ {u} : person'[v] = person[v]
  <2>1. person \in [Recipients -> UserRow] /\ person[u] \in UserRow
    BY DEF NoticesInv, NoticesTyped
  <2> DEFINE sum == person[u].golden + person[u].plain
  <2> DEFINE p == [person[u] EXCEPT !.plain = 0, !.golden = sum]
  <2>0. person[u].plain \in Nat /\ person[u].golden \in Nat
    BY <2>1 DEF UserRow
  <2>3. person' = [person EXCEPT ![u] = p]
    BY <1>1, <2>1
  <2>5. sum \in Nat
    BY <2>0
  <2> HIDE DEF sum
  <2>2. p \in UserRow /\ p.row = person[u].row /\ p.plain = 0 /\ p.golden = sum
    BY <2>1, <2>5 DEF UserRow
  <2> USE DEF sum
  <2> HIDE DEF p
  <2>4. QED
    BY <2>0, <2>2, <2>3, PersonIs
<1>6. NoticesTyped'
  <2>1. NoticesTyped
    BY DEF NoticesInv
  <2>2. \A v \in Recipients : person'[v].plain + person'[v].golden <= 1 + budget'.events
    <3>1. ASSUME NEW v \in Recipients PROVE person'[v].plain + person'[v].golden = person[v].plain + person[v].golden
      BY <1>5
    <3>2. budget' = budget
      BY <1>1
    <3>3. QED
      BY <2>1, <3>1, <3>2 DEF NoticesTyped
  <2>3. /\ told' = told /\ airtable' = airtable /\ saver' = saver /\ excused' = excused /\ budget' = budget
        /\ person' \in [Recipients -> UserRow]
    BY <1>1, <1>5
  <2>4. QED
    BY <1>4, <2>1, <2>2, <2>3 DEF NoticesTyped
<1>7. SparedTrue'
  BY <1>1, <1>3, <1>4 DEF NoticesInv, SparedTrue
<1>8. ASSUME NEW v \in Recipients PROVE Each(v)'
  <2>1. Each(v)
    BY DEF NoticesInv
  <2>2. person'[v].row = person[v].row
    BY <1>5
  <2>3. ClosingOnce(v)'
    <3>1. \A i \in Jobs : With(i, v, "stamp") => With(i, v, "stamp")'
      BY <1>1, <1>4 DEF With
    <3>2. QED
      BY <1>1, <1>4, <2>1, <2>2, <3>1, ClosingStays DEF Each
  <2>4. GoldenOnce(v)'
    <3>1. CASE v = u /\ u \notin excused["golden"]
      <4>1. GoldenOnce(u)
        BY <2>1, <3>1 DEF Each
      <4>2. told["golden"][u] \in Nat /\ told' = told /\ excused' = excused
        BY <1>1 DEF NoticesInv, NoticesTyped, Channels
      <4>3. CASE person[u].plain = 0
        <5>1. \A i \in Jobs : With(i, u, "tell")' => With(i, u, "tell")
          BY <1>3, <1>4, <4>3 DEF With
        <5>2. person'[u].golden = person[u].golden
          BY <1>5, <4>3
        <5>3. QED
          BY <1>5, <3>1, <4>1, <4>2, <5>1, <5>2 DEF GoldenOnce
      <4>4. CASE person[u].plain # 0
        <5>1. person[u].golden = 0
          BY <1>2, <1>5, <3>1, <4>1, <4>4 DEF GoldenOnce
        <5>2. told["golden"][u] = 0 /\ \A i \in Jobs : ~With(i, u, "tell")
          BY <3>1, <4>1, <4>2, <5>1 DEF GoldenOnce
        <5>3. person'[u].golden > 0
          BY <1>5, <4>4, <5>1
        <5>4. \A i \in Jobs : With(i, u, "tell")' => i = j
          BY <1>4, <5>2
        <5>5. QED
          BY <1>5, <3>1, <4>2, <5>2, <5>3, <5>4 DEF GoldenOnce
      <4>5. QED
        BY <4>3, <4>4
    <3>2. CASE v # u
      <4>1. \A i \in Jobs : /\ With(i, v, "mark")' => With(i, v, "mark")
                            /\ With(i, v, "tell")' => With(i, v, "tell")
        BY <1>3, <1>4, <3>2 DEF With
      <4>2. person'[v] = person[v]
        BY <1>5, <3>2
      <4>3. QED
        BY <1>1, <2>1, <4>1, <4>2, GoldenStays DEF Each
    <3>3. CASE u \in excused["golden"] /\ v = u
      BY <1>1, <3>3 DEF GoldenOnce
    <3>4. QED
      BY <3>1, <3>2, <3>3
  <2>5. OneMarker(v)' /\ EmailOnce(v)'
    BY <1>1, <2>1, <2>2, MarkerStays DEF Each, EmailOnce
  <2>6. QED
    BY <2>3, <2>4, <2>5 DEF Each
<1>9. QED
  BY <1>6, <1>7, <1>8 DEF NoticesInv

LEMMA TellsGoldenKeeps ==
    ASSUME NoticesInv, NEW j \in Jobs, TellsGolden(j)
    PROVE  NoticesInv'
<1>0. PICK u \in Recipients : u = job[j].at
  BY WithSomebody DEF TellsGolden
<1>1. /\ job[j].stage = "tell" /\ NextUser(j)
      /\ Tell("golden", u) \/ UNCHANGED told
      /\ UNCHANGED <<person, airtable, saver, excused, spared, budget>>
  BY <1>0 DEF TellsGolden, Message
<1>2. With(j, u, "tell")
  BY <1>0, <1>1 DEF With
<1>3. PICK q : GoesDown(j, q) /\ q.kind = job[j].kind /\ q.stage = "next" /\ q.at = Nobody
  <2>1. \E q : GoesDown(j, q) /\ q.kind = job[j].kind /\ q.stage = "next" /\ q.at = Nobody
    BY <1>1, NextUserIs
  <2>2. QED
    BY <2>1
<1>4. /\ job' \in [Jobs -> ListJob] /\ \A i \in Jobs : SoundJob(job'[i])
      /\ job'[j] = q /\ \A i \in Jobs \ {j} : job'[i] = job[i]
      /\ \A i \in Jobs, v \in Recipients : Has(i, v)' => Has(i, v)
      /\ \A i \in Jobs \ {j}, v \in Recipients : \A stage : With(i, v, stage)' = With(i, v, stage)
  BY <1>3, JobMoves
<1>5. /\ told' \in [Channels -> [Recipients -> Nat]] /\ told["golden"][u] \in Nat
      /\ told'["golden"][u] \in {told["golden"][u], told["golden"][u] + 1}
      /\ \A c \in Channels, v \in Recipients : ~(c = "golden" /\ v = u) => told'[c][v] = told[c][v]
  <2>1. told \in [Channels -> [Recipients -> Nat]] /\ "golden" \in Channels
    BY DEF NoticesInv, NoticesTyped, Channels
  <2>2. CASE Tell("golden", u)
    BY <2>1, <2>2, TellIs
  <2>3. CASE UNCHANGED told
    BY <2>1, <2>3
  <2>4. QED
    BY <1>1, <2>2, <2>3
<1>6. NoticesTyped'
  <2>1. NoticesTyped
    BY DEF NoticesInv
  <2>2. person' = person /\ airtable' = airtable /\ saver' = saver /\ excused' = excused /\ budget' = budget
    BY <1>1
  <2>3. QED
    BY <1>4, <1>5, <2>1, <2>2 DEF NoticesTyped
<1>7. SparedTrue'
  BY <1>1, <1>3, <1>4 DEF NoticesInv, SparedTrue
<1>8. ASSUME NEW v \in Recipients PROVE Each(v)'
  <2>1. Each(v)
    BY DEF NoticesInv
  <2>2. told'["closing"][v] = told["closing"][v] /\ told'["email"][v] = told["email"][v]
    BY <1>5 DEF Channels
  <2>3. /\ \A i \in Jobs : With(i, v, "stamp") => With(i, v, "stamp")'
        /\ \A i \in Jobs : With(i, v, "mark")' => With(i, v, "mark")
        /\ \A i \in Jobs : With(i, v, "tell")' => With(i, v, "tell")
        /\ ~With(j, v, "tell")'
    BY <1>1, <1>3, <1>4 DEF With
  <2>4. ClosingOnce(v)'
    BY <1>1, <1>4, <2>1, <2>2, <2>3, ClosingStays DEF Each
  <2>5. GoldenOnce(v)'
    <3>1. CASE v = u /\ u \notin excused["golden"]
      <4>1. GoldenOnce(u) /\ excused' = excused /\ person' = person
        BY <1>1, <2>1, <3>1 DEF Each
      <4>2. told["golden"][u] = 0 /\ person[u].golden > 0 /\ \A i \in Jobs : With(i, u, "tell") => i = j
        BY <1>2, <3>1, <4>1 DEF GoldenOnce
      <4>3. \A i \in Jobs : ~With(i, u, "tell")'
        BY <2>3, <3>1, <4>2
      <4>4. told'["golden"][u] <= 1
        BY <1>5, <4>2
      <4>5. QED
        BY <2>3, <3>1, <4>1, <4>2, <4>3, <4>4 DEF GoldenOnce
    <3>2. CASE v # u
      <4>1. told'["golden"][v] = told["golden"][v]
        BY <1>5, <3>2 DEF Channels
      <4>2. QED
        BY <1>1, <2>1, <2>3, <4>1, GoldenStays DEF Each
    <3>3. CASE u \in excused["golden"] /\ v = u
      BY <1>1, <3>3 DEF GoldenOnce
    <3>4. QED
      BY <3>1, <3>2, <3>3
  <2>6. OneMarker(v)' /\ EmailOnce(v)'
    BY <1>1, <2>1, <2>2, MarkerStays DEF Each, EmailOnce
  <2>7. QED
    BY <2>4, <2>5, <2>6 DEF Each
<1>9. QED
  BY <1>6, <1>7, <1>8 DEF NoticesInv

-----------------------------------------------------------------------------
(* A save of a user's row.                                                  *)
LEMMA SpendIs ==
    ASSUME NoticesInv, NEW what \in {"jobs", "events"},
           budget[what] < IF what = "jobs" THEN MaxJobs ELSE MaxEvents, Spend(what)
    PROVE  /\ budget' \in [jobs : 0 .. MaxJobs, events : 0 .. MaxEvents]
           /\ budget.events \in Nat
           /\ budget'.events = IF what = "events" THEN budget.events + 1 ELSE budget.events
<1>1. budget \in [jobs : 0 .. MaxJobs, events : 0 .. MaxEvents] /\ budget' = [budget EXCEPT ![what] = @ + 1]
  BY DEF NoticesInv, NoticesTyped, Spend
<1>2. budget.jobs \in Nat /\ budget.events \in Nat /\ budget.jobs <= MaxJobs /\ budget.events <= MaxEvents
  BY <1>1, NoticesAssumption
<1>3. CASE what = "jobs"
  BY <1>1, <1>2, <1>3, NoticesAssumption
<1>4. CASE what = "events"
  BY <1>1, <1>2, <1>4, NoticesAssumption
<1>5. QED
  BY <1>3, <1>4

LEMMA MarkedIs ==
    ASSUME NEW row \in [Columns -> BOOLEAN], NEW marker \in Markers, NEW value \in BOOLEAN, ~Both(row)
    PROVE  ~Both(Marked(row, marker, value))
<1> DEFINE m == Marked(row, marker, value)
<1>1. /\ m["watchlisted"] = IF "watchlisted" = marker THEN value ELSE IF value THEN FALSE ELSE row["watchlisted"]
      /\ m["coolBuilder"] = IF "coolBuilder" = marker THEN value ELSE IF value THEN FALSE ELSE row["coolBuilder"]
  BY DEF Marked, Columns, Markers
<1> SUFFICES ~Both(m)
  OBVIOUS
<1> HIDE DEF m
<1>2. CASE marker = "watchlisted" /\ value = TRUE
  BY <1>1, <1>2 DEF Both
<1>3. CASE marker = "coolBuilder" /\ value = TRUE
  BY <1>1, <1>3 DEF Both
<1>4. CASE marker = "watchlisted" /\ value = FALSE
  BY <1>1, <1>4 DEF Both
<1>5. CASE marker = "coolBuilder" /\ value = FALSE
  BY <1>1, <1>5 DEF Both
<1>6. QED
  BY <1>2, <1>3, <1>4, <1>5 DEF Markers

(* A save is begun or goes on; the row is as it was.                        *)
LEMMA QuietSave ==
    ASSUME NoticesInv, NEW s \in Savers, NEW r \in SavedRow, saver' = [saver EXCEPT ![s] = r],
           UNCHANGED <<person, airtable, job, told, excused, spared>>,
           budget' \in [jobs : 0 .. MaxJobs, events : 0 .. MaxEvents], budget'.events = budget.events,
           r.row.notified => person[r.of].row.notified \/ (saver[s].of = r.of /\ saver[s].row.notified),
           r.of \notin excused["marker"] => ~Both(r.row),
           r.stage = "compared" => \A c \in Markers : c \in r.changes <=> r.row[c] # person[r.of].row[c]
    PROVE  NoticesInv'
<1>1. saver \in [Savers -> SavedRow \cup {NoSave}]
  BY DEF NoticesInv, NoticesTyped
<1>2. saver'[s] = r /\ (\A t \in Savers \ {s} : saver'[t] = saver[t]) /\ saver' \in [Savers -> SavedRow \cup {NoSave}]
  BY <1>1
<1>3. NoticesTyped'
  <2>1. NoticesTyped
    BY DEF NoticesInv
  <2>2. /\ told' = told /\ airtable' = airtable /\ job' = job /\ excused' = excused /\ person' = person
    OBVIOUS
  <2>3. QED
    BY <1>2, <2>1, <2>2 DEF NoticesTyped
<1>4. SparedTrue'
  BY DEF NoticesInv, SparedTrue
<1>5. ASSUME NEW u \in Recipients PROVE Each(u)'
  <2>1. Each(u)
    BY DEF NoticesInv
  <2>2. ClosingOnce(u)'
    <3>1. \A i \in Jobs : (Has(i, u)' => Has(i, u)) /\ (With(i, u, "stamp") => With(i, u, "stamp")')
      BY DEF Has, With
    <3>2. ASSUME NEW t \in Savers, saver'[t].of = u, saver'[t].row.notified
          PROVE (saver[t].of = u /\ saver[t].row.notified) \/ person[u].row.notified
      BY <1>2, <3>2
    <3>3. QED
      BY <2>1, <3>1, <3>2, ClosingStays DEF Each
  <2>3. GoldenOnce(u)' /\ EmailOnce(u)'
    BY <2>1 DEF Each, GoldenOnce, EmailOnce, With
  <2>4. OneMarker(u)'
    <3>1. SUFFICES ASSUME u \notin excused["marker"] PROVE OneMarker(u)'
      BY DEF OneMarker
    <3>2. ASSUME NEW t \in Savers, saver'[t].of = u
          PROVE  /\ ~Both(saver'[t].row)
                 /\ saver'[t].stage = "compared" =>
                     \A c \in Markers : c \in saver'[t].changes <=> saver'[t].row[c] # person[u].row[c]
      <4>1. CASE t = s
        BY <1>2, <3>1, <3>2, <4>1
      <4>2. CASE t # s
        <5>1. saver'[t] = saver[t] /\ saver[t].of = u
          BY <1>2, <3>2, <4>2
        <5>2. QED
          BY <2>1, <3>1, <5>1 DEF Each, OneMarker
      <4>3. QED
        BY <4>1, <4>2
    <3>3. QED
      BY <2>1, <3>1, <3>2 DEF Each, OneMarker
  <2>5. QED
    BY <2>2, <2>3, <2>4 DEF Each
<1>6. QED
  BY <1>3, <1>4, <1>5 DEF NoticesInv

LEMMA FindsUserKeeps ==
    ASSUME NoticesInv, NEW s \in Savers, NEW u \in Recipients, NEW marker \in Markers,
           NEW value \in BOOLEAN, FindsUser(s, u, marker, value)
    PROVE  NoticesInv'
<1> DEFINE row == Marked(person[u].row, marker, value)
<1> DEFINE r == [of |-> u, row |-> row, changes |-> {}, stage |-> "found"]
<1>1. /\ budget.jobs < MaxJobs /\ Spend("jobs") /\ saver' = [saver EXCEPT ![s] = r]
      /\ UNCHANGED <<person, airtable, job, told, excused, spared>>
  BY DEF FindsUser
<1>2. person[u] \in UserRow /\ person[u].row \in [Columns -> BOOLEAN]
  BY DEF NoticesInv, NoticesTyped, UserRow
<1>3. row \in [Columns -> BOOLEAN] /\ row.notified = person[u].row.notified
  <2>1. FALSE \in BOOLEAN
    OBVIOUS
  <2>2. QED
    BY <1>2, <2>1 DEF Marked, Columns, Markers
<1>4. u \notin excused["marker"] => ~Both(row)
  <2>1. OneMarker(u)
    BY DEF NoticesInv, Each
  <2>2. QED
    BY <1>2, <2>1, MarkedIs DEF OneMarker
<1> HIDE DEF row
<1>5. r \in SavedRow /\ r.of = u /\ r.row = row /\ r.stage = "found"
  BY <1>3 DEF SavedRow
<1> HIDE DEF r
<1>6. /\ budget' \in [jobs : 0 .. MaxJobs, events : 0 .. MaxEvents] /\ budget'.events = budget.events
  BY <1>1, SpendIs
<1>7. QED
  BY <1>1, <1>3, <1>4, <1>5, <1>6, QuietSave

LEMMA ComparesRowKeeps ==
    ASSUME NoticesInv, NEW s \in Savers, ComparesRow(s)
    PROVE  NoticesInv'
<1>1. saver \in [Savers -> SavedRow \cup {NoSave}] /\ saver[s].stage = "found"
  BY DEF NoticesInv, NoticesTyped, ComparesRow
<1>2. saver[s] \in SavedRow /\ saver[s].of \in Recipients
  BY <1>1 DEF SavedRow, NoSave
<1> DEFINE differ == {c \in Columns : saver[s].row[c] # person[saver[s].of].row[c]}
<1> DEFINE r == [saver[s] EXCEPT !.stage = "compared", !.changes = differ]
<1>3. differ \subseteq Columns
  OBVIOUS
<1>4. \A c \in Markers : c \in differ <=> saver[s].row[c] # person[saver[s].of].row[c]
  BY DEF Columns
<1>5. saver' = [saver EXCEPT ![s] = r] /\ UNCHANGED <<person, airtable, job, told, excused, spared, budget>>
  BY <1>1 DEF ComparesRow
<1> HIDE DEF differ
<1>6. /\ r \in SavedRow /\ r.of = saver[s].of /\ r.row = saver[s].row
      /\ r.changes = differ /\ r.stage = "compared"
  BY <1>2, <1>3 DEF SavedRow
<1> HIDE DEF r
<1>7. r.of \notin excused["marker"] => ~Both(r.row)
  BY <1>2, <1>6 DEF NoticesInv, Each, OneMarker
<1>8. /\ budget' \in [jobs : 0 .. MaxJobs, events : 0 .. MaxEvents] /\ budget'.events = budget.events
  BY <1>5 DEF NoticesInv, NoticesTyped
<1>9. QED
  BY <1>4, <1>5, <1>6, <1>7, <1>8, QuietSave

LEMMA WritesRowKeeps ==
    ASSUME NoticesInv, NEW s \in Savers, WritesRow(s)
    PROVE  NoticesInv'
<1>1. saver \in [Savers -> SavedRow \cup {NoSave}] /\ saver[s].stage = "compared"
  BY DEF NoticesInv, NoticesTyped, WritesRow
<1>2. PICK u \in Recipients : u = saver[s].of
  BY <1>1 DEF SavedRow, NoSave
<1> DEFINE new == [c \in Columns |-> IF c \in saver[s].changes THEN saver[s].row[c] ELSE person[u].row[c]]
<1> DEFINE racing == \E t \in Savers \ {s} : saver[t].of = u /\ saver[t].stage = "compared"
<1>3. /\ person' = [person EXCEPT ![u].row = new] /\ saver' = [saver EXCEPT ![s] = NoSave]
      /\ excused' = [excused EXCEPT
            !["closing"] = IF person[u].row.notified /\ ~new.notified THEN @ \cup {u} ELSE @,
            !["marker"] = IF racing THEN @ \cup {u} ELSE @]
      /\ UNCHANGED <<airtable, job, told, spared, budget>>
  BY <1>2 DEF WritesRow
<1>4. /\ saver[s] \in SavedRow /\ saver[s].row \in [Columns -> BOOLEAN]
      /\ person \in [Recipients -> UserRow] /\ person[u] \in UserRow /\ person[u].row \in [Columns -> BOOLEAN]
  BY <1>1 DEF NoticesInv, NoticesTyped, UserRow, SavedRow, NoSave
<1>5. new \in [Columns -> BOOLEAN]
  BY <1>4
<1>6. \A c \in Columns : new[c] = IF c \in saver[s].changes THEN saver[s].row[c] ELSE person[u].row[c]
  OBVIOUS
<1>7. ASSUME NEW x \in BOOLEAN PROVE x = TRUE \/ x = FALSE
  BY <1>7
<1> DEFINE p == [person[u] EXCEPT !.row = new]
<1>8. person' = [person EXCEPT ![u] = p]
  BY <1>3, <1>4
<1> HIDE DEF new, racing
<1>9. p \in UserRow /\ p.row = new /\ p.plain = person[u].plain /\ p.golden = person[u].golden
  BY <1>4, <1>5 DEF UserRow
<1> HIDE DEF p
<1>10. /\ person' \in [Recipients -> UserRow] /\ person'[u] = p
       /\ \A v \in Recipients \ {u} : person'[v] = person[v]
  BY <1>8, <1>9, PersonIs
<1>11. saver'[s] = NoSave /\ (\A t \in Savers \ {s} : saver'[t] = saver[t]) /\ saver' \in [Savers -> SavedRow \cup {NoSave}]
  BY <1>1, <1>3
<1>12. /\ excused' \in [Channels \cup {"marker"} -> SUBSET Recipients]
       /\ \A c \in Channels \cup {"marker"} : excused[c] \subseteq excused'[c]
       /\ excused'["golden"] = excused["golden"]
       /\ u \notin excused'["closing"] => ~(person[u].row.notified /\ ~new.notified)
       /\ u \notin excused'["marker"] => ~racing
  <2>1. excused \in [Channels \cup {"marker"} -> SUBSET Recipients]
    BY DEF NoticesInv, NoticesTyped
  <2>2. /\ excused'["golden"] = excused["golden"] /\ excused'["email"] = excused["email"]
        /\ excused'["closing"] = IF person[u].row.notified /\ ~new.notified
                                 THEN excused["closing"] \cup {u} ELSE excused["closing"]
        /\ excused'["marker"] = IF racing THEN excused["marker"] \cup {u} ELSE excused["marker"]
    BY <1>3, <2>1 DEF Channels
  <2>3. excused' \in [Channels \cup {"marker"} -> SUBSET Recipients]
    BY <1>3, <2>1 DEF Channels
  <2>4. QED
    BY <2>1, <2>2, <2>3 DEF Channels
<1>13. NoticesTyped'
  <2>1. NoticesTyped
    BY DEF NoticesInv
  <2>2. \A v \in Recipients : person'[v].plain + person'[v].golden <= 1 + budget'.events
    BY <1>3, <1>9, <1>10, <2>1 DEF NoticesTyped
  <2>3. told' = told /\ airtable' = airtable /\ job' = job /\ budget' = budget
    BY <1>3
  <2>4. QED
    BY <1>10, <1>11, <1>12, <2>1, <2>2, <2>3 DEF NoticesTyped
<1>14. SparedTrue'
  BY <1>3 DEF NoticesInv, SparedTrue
<1>15. ASSUME NEW v \in Recipients PROVE Each(v)'
  <2>1. Each(v)
    BY DEF NoticesInv
  <2>2. /\ \A i \in Jobs : Has(i, v)' = Has(i, v)
        /\ \A i \in Jobs : \A stage : With(i, v, stage)' = With(i, v, stage)
    BY <1>3 DEF Has, With
  <2>3. \A t \in Savers : saver'[t].of = v => t # s
    BY <1>11, NoticesAssumption DEF NoSave
  <2>4. ClosingOnce(v)'
    <3>1. CASE v \in excused'["closing"]
      BY <3>1 DEF ClosingOnce
    <3>2. CASE v \notin excused'["closing"]
      <4>1. ClosingOnce(v) /\ v \notin excused["closing"]
        BY <1>12, <2>1, <3>2 DEF Each, Channels
      <4>2. person'[v].row.notified = person[v].row.notified
        <5>1. CASE v = u
          <6>1. saver[s].row.notified => person[u].row.notified
            BY <1>2, <4>1, <5>1 DEF ClosingOnce
          <6>2. ~(person[u].row.notified /\ ~new.notified)
            BY <1>12, <3>2, <5>1
          <6>3. new.notified \in {saver[s].row.notified, person[u].row.notified}
            BY <1>6 DEF Columns
          <6>4. new.notified \in BOOLEAN /\ person[u].row.notified \in BOOLEAN /\ saver[s].row.notified \in BOOLEAN
            BY <1>4, <1>5 DEF Columns
          <6>5. new.notified = person[u].row.notified
            BY <6>1, <6>2, <6>3, <6>4
          <6>6. QED
            BY <1>9, <1>10, <5>1, <6>5
        <5>2. CASE v # u
          BY <1>10, <5>2
        <5>3. QED
          BY <5>1, <5>2
      <4>3. \A t \in Savers : saver'[t].of = v /\ saver'[t].row.notified =>
                (saver[t].of = v /\ saver[t].row.notified) \/ person[v].row.notified
        BY <1>11, <2>3
      <4>4. excused["closing"] \subseteq excused'["closing"]
        BY <1>12 DEF Channels
      <4>5. told'["closing"][v] = told["closing"][v]
        BY <1>3
      <4>6. QED
        BY <2>2, <4>1, <4>2, <4>3, <4>4, <4>5, ClosingStays
    <3>3. QED
      BY <3>1, <3>2
  <2>5. GoldenOnce(v)'
    <3>1. person'[v].plain = person[v].plain /\ person'[v].golden = person[v].golden
      BY <1>9, <1>10
    <3>2. QED
      BY <1>3, <1>12, <2>1, <2>2, <3>1, GoldenStays DEF Each
  <2>6. EmailOnce(v)'
    BY <1>3, <2>1 DEF Each, EmailOnce
  <2>7. OneMarker(v)'
    <3>1. CASE v \in excused'["marker"]
      BY <3>1 DEF OneMarker
    <3>2. CASE v \notin excused'["marker"] /\ v # u
      <4>1. OneMarker(v) /\ v \notin excused["marker"] /\ person'[v] = person[v]
        BY <1>10, <1>12, <2>1, <3>2 DEF Each, Channels
      <4>2. \A t \in Savers : saver'[t].of = v => saver'[t] = saver[t]
        BY <1>11, <2>3
      <4>3. QED
        BY <4>1, <4>2 DEF OneMarker
    <3>3. CASE v \notin excused'["marker"] /\ v = u
      <4>1. OneMarker(u) /\ u \notin excused["marker"] /\ ~racing
        BY <1>12, <2>1, <3>3 DEF Each, Channels
      <4>2. /\ ~Both(saver[s].row)
            /\ \A c \in Markers : c \in saver[s].changes <=> saver[s].row[c] # person[u].row[c]
        BY <1>1, <1>2, <4>1 DEF OneMarker
      <4>3. \A c \in Markers : person'[u].row[c] = saver[s].row[c]
        BY <1>6, <1>9, <1>10, <4>2 DEF Columns
      <4>4. ~Both(person'[u].row)
        BY <4>2, <4>3 DEF Both, Markers
      <4>5. ASSUME NEW t \in Savers, saver'[t].of = u
            PROVE  ~Both(saver'[t].row) /\ saver'[t].stage # "compared"
        <5>1. t # s /\ saver'[t] = saver[t] /\ saver[t].of = u
          BY <1>11, <2>3, <3>3, <4>5
        <5>2. QED
          BY <4>1, <5>1 DEF OneMarker, racing
      <4>6. QED
        BY <3>3, <4>4, <4>5 DEF OneMarker
    <3>4. QED
      BY <3>1, <3>2, <3>3
  <2>8. QED
    BY <2>4, <2>5, <2>6, <2>7 DEF Each
<1>16. QED
  BY <1>13, <1>14, <1>15 DEF NoticesInv

-----------------------------------------------------------------------------
(* What happens in the world.                                               *)
LEMMA ExcuseIs ==
    ASSUME NoticesInv, NEW u \in Recipients, Excuse("golden", {u})
    PROVE  /\ excused' \in [Channels \cup {"marker"} -> SUBSET Recipients]
           /\ excused'["closing"] = excused["closing"] /\ excused'["marker"] = excused["marker"]
           /\ excused'["golden"] = excused["golden"] \cup {u}
<1>1. excused \in [Channels \cup {"marker"} -> SUBSET Recipients]
  BY DEF NoticesInv, NoticesTyped
<1>2. excused' = [excused EXCEPT !["golden"] = @ \cup {u}]
  BY DEF Excuse
<1>3. QED
  BY <1>1, <1>2 DEF Channels

(* One user's projects or pipes change; the markers and the mark do not.    *)
LEMMA QuietWorld ==
    ASSUME NoticesInv, NEW u \in Recipients, NEW p \in UserRow, person' = [person EXCEPT ![u] = p],
           p.row = person[u].row, UNCHANGED <<airtable, job, saver, told, spared>>,
           budget' \in [jobs : 0 .. MaxJobs, events : 0 .. MaxEvents], budget.events \in Nat,
           budget'.events = budget.events + 1,
           p.plain + p.golden <= person[u].plain + person[u].golden + 1,
           excused' \in [Channels \cup {"marker"} -> SUBSET Recipients],
           excused'["closing"] = excused["closing"], excused'["marker"] = excused["marker"],
           excused["golden"] \subseteq excused'["golden"],
           u \notin excused'["golden"] => p.golden = person[u].golden /\
                (p.plain = person[u].plain \/ \A j \in Jobs : ~With(j, u, "mark"))
    PROVE  NoticesInv'
<1>1. /\ person' \in [Recipients -> UserRow] /\ person'[u] = p
      /\ \A v \in Recipients \ {u} : person'[v] = person[v]
  BY PersonIs
<1>2. NoticesTyped'
  <2>1. NoticesTyped
    BY DEF NoticesInv
  <2>2. ASSUME NEW v \in Recipients PROVE person'[v].plain + person'[v].golden <= 1 + budget'.events
    <3>1. /\ person[v].plain + person[v].golden <= 1 + budget.events
          /\ person[v].plain \in Nat /\ person[v].golden \in Nat
      BY <2>1 DEF NoticesTyped, UserRow
    <3>2. CASE v = u
      <4>1. p.plain \in Nat /\ p.golden \in Nat
        BY DEF UserRow
      <4>2. QED
        BY <1>1, <3>1, <3>2, <4>1
    <3>3. CASE v # u
      BY <1>1, <3>1, <3>3
    <3>4. QED
      BY <3>2, <3>3
  <2>3. told' = told /\ airtable' = airtable /\ job' = job /\ saver' = saver
    OBVIOUS
  <2>4. QED
    BY <1>1, <2>1, <2>2, <2>3 DEF NoticesTyped
<1>3. SparedTrue'
  BY DEF NoticesInv, SparedTrue
<1>4. ASSUME NEW v \in Recipients PROVE Each(v)'
  <2>1. Each(v) /\ person'[v].row = person[v].row
    BY <1>1 DEF NoticesInv
  <2>2. /\ \A i \in Jobs : Has(i, v)' = Has(i, v)
        /\ \A i \in Jobs : \A stage : With(i, v, stage)' = With(i, v, stage)
    BY DEF Has, With
  <2>3. ClosingOnce(v)'
    BY <2>1, <2>2, ClosingStays DEF Each
  <2>4. OneMarker(v)' /\ EmailOnce(v)'
    BY <2>1, MarkerStays DEF Each, EmailOnce
  <2>5. GoldenOnce(v)'
    <3>1. CASE v # u
      <4>1. person'[v] = person[v]
        BY <1>1, <3>1
      <4>2. QED
        BY <2>1, <2>2, <4>1, GoldenStays DEF Each
    <3>2. CASE v = u /\ u \in excused'["golden"]
      BY <3>2 DEF GoldenOnce
    <3>3. CASE v = u /\ u \notin excused'["golden"]
      <4>1. GoldenOnce(u) /\ u \notin excused["golden"] /\ person'[u].golden = person[u].golden
        BY <1>1, <2>1, <3>3 DEF Each
      <4>2. person'[u].plain = person[u].plain \/ \A j \in Jobs : ~With(j, u, "mark")
        BY <1>1, <3>3
      <4>3. /\ \A i \in Jobs : With(i, u, "mark")' = With(i, u, "mark")
            /\ \A i \in Jobs : With(i, u, "tell")' = With(i, u, "tell")
        BY <2>2, <3>3
      <4>4. QED
        BY <3>3, <4>1, <4>2, <4>3 DEF GoldenOnce
    <3>4. QED
      BY <3>1, <3>2, <3>3
  <2>6. QED
    BY <2>3, <2>4, <2>5 DEF Each
<1>5. QED
  BY <1>2, <1>3, <1>4 DEF NoticesInv

LEMMA MovesPipesKeeps ==
    ASSUME NoticesInv, NEW u \in Recipients, MovesPipes(u)
    PROVE  NoticesInv'
<1> DEFINE pipes == ~person[u].pipes
<1> DEFINE p == [person[u] EXCEPT !.pipes = pipes]
<1>1. person \in [Recipients -> UserRow] /\ person[u] \in UserRow
  BY DEF NoticesInv, NoticesTyped
<1>2. pipes \in BOOLEAN
  BY ZenonT(20)
<1>3. person' = [person EXCEPT ![u] = p]
  BY <1>1 DEF MovesPipes
<1> HIDE DEF pipes
<1>4. p \in UserRow /\ p.row = person[u].row /\ p.plain = person[u].plain /\ p.golden = person[u].golden
  BY <1>1, <1>2 DEF UserRow
<1>5. person[u].plain \in Nat /\ person[u].golden \in Nat
  BY <1>1 DEF UserRow
<1> HIDE DEF p
<1>6. /\ budget.events < MaxEvents /\ Spend("events")
      /\ UNCHANGED <<airtable, job, saver, told, excused, spared>>
  BY DEF MovesPipes
<1>7. /\ budget' \in [jobs : 0 .. MaxJobs, events : 0 .. MaxEvents] /\ budget.events \in Nat
      /\ budget'.events = budget.events + 1
  BY <1>6, SpendIs
<1>8. p.plain + p.golden <= person[u].plain + person[u].golden + 1
  BY <1>4, <1>5
<1>9. excused' \in [Channels \cup {"marker"} -> SUBSET Recipients]
  BY <1>6 DEF NoticesInv, NoticesTyped
<1>10. QED
  BY <1>3, <1>4, <1>6, <1>7, <1>8, <1>9, QuietWorld

LEMMA MakesProjectKeeps ==
    ASSUME NoticesInv, NEW u \in Recipients, MakesProject(u)
    PROVE  NoticesInv'
<1> DEFINE n == person[u].plain + 1
<1> DEFINE p == [person[u] EXCEPT !.plain = n]
<1>1. person \in [Recipients -> UserRow] /\ person[u] \in UserRow
  BY DEF NoticesInv, NoticesTyped
<1>2. person[u].plain \in Nat /\ person[u].golden \in Nat
  BY <1>1 DEF UserRow
<1>3. person' = [person EXCEPT ![u] = p]
  BY <1>1 DEF MakesProject
<1>4. n \in Nat /\ n = person[u].plain + 1
  BY <1>2
<1> HIDE DEF n
<1>5. p \in UserRow /\ p.row = person[u].row /\ p.plain = n /\ p.golden = person[u].golden
  BY <1>1, <1>4 DEF UserRow
<1> HIDE DEF p
<1>6. /\ budget.events < MaxEvents /\ Spend("events")
      /\ UNCHANGED <<airtable, job, saver, told, spared>>
      /\ IF \E j \in Jobs : job[j].at = u /\ job[j].stage = "mark" THEN Excuse("golden", {u}) ELSE UNCHANGED excused
  BY DEF MakesProject
<1>7. /\ budget' \in [jobs : 0 .. MaxJobs, events : 0 .. MaxEvents] /\ budget.events \in Nat
      /\ budget'.events = budget.events + 1
  BY <1>6, SpendIs
<1>8. p.plain + p.golden <= person[u].plain + person[u].golden + 1
  BY <1>2, <1>4, <1>5
<1>9. CASE \E j \in Jobs : With(j, u, "mark")
  <2>1. Excuse("golden", {u})
    BY <1>6, <1>9 DEF With
  <2>2. /\ excused' \in [Channels \cup {"marker"} -> SUBSET Recipients]
        /\ excused'["closing"] = excused["closing"] /\ excused'["marker"] = excused["marker"]
        /\ excused["golden"] \subseteq excused'["golden"] /\ u \in excused'["golden"]
    BY <2>1, ExcuseIs
  <2>3. QED
    BY <1>3, <1>5, <1>6, <1>7, <1>8, <2>2, QuietWorld
<1>10. CASE \A j \in Jobs : ~With(j, u, "mark")
  <2>1. UNCHANGED excused
    BY <1>6, <1>10 DEF With
  <2>2. excused' \in [Channels \cup {"marker"} -> SUBSET Recipients]
    BY <2>1 DEF NoticesInv, NoticesTyped
  <2>3. QED
    BY <1>3, <1>5, <1>6, <1>7, <1>8, <1>10, <2>1, <2>2, QuietWorld
<1>11. QED
  BY <1>9, <1>10

LEMMA LosesGoldenKeeps ==
    ASSUME NoticesInv, NEW u \in Recipients, LosesGolden(u)
    PROVE  NoticesInv'
<1> DEFINE n == person[u].plain + 1
<1> DEFINE g == person[u].golden - 1
<1> DEFINE p == [person[u] EXCEPT !.golden = g, !.plain = n]
<1>1. person \in [Recipients -> UserRow] /\ person[u] \in UserRow
  BY DEF NoticesInv, NoticesTyped
<1>2. person[u].plain \in Nat /\ person[u].golden \in Nat /\ person[u].golden > 0
  BY <1>1 DEF UserRow, LosesGolden
<1>3. person' = [person EXCEPT ![u] = p]
  BY <1>1 DEF LosesGolden
<1>4. n \in Nat /\ g \in Nat /\ n + g = person[u].plain + person[u].golden
  BY <1>2
<1> HIDE DEF n, g
<1>5. p \in UserRow /\ p.row = person[u].row /\ p.plain = n /\ p.golden = g
  BY <1>1, <1>4 DEF UserRow
<1> HIDE DEF p
<1>6. /\ budget.events < MaxEvents /\ Spend("events") /\ Excuse("golden", {u})
      /\ UNCHANGED <<airtable, job, saver, told, spared>>
  BY DEF LosesGolden
<1>7. /\ budget' \in [jobs : 0 .. MaxJobs, events : 0 .. MaxEvents] /\ budget.events \in Nat
      /\ budget'.events = budget.events + 1
  BY <1>6, SpendIs
<1>8. p.plain + p.golden <= person[u].plain + person[u].golden + 1
  BY <1>2, <1>4, <1>5
<1>9. /\ excused' \in [Channels \cup {"marker"} -> SUBSET Recipients]
      /\ excused'["closing"] = excused["closing"] /\ excused'["marker"] = excused["marker"]
      /\ excused["golden"] \subseteq excused'["golden"] /\ u \in excused'["golden"]
  BY <1>6, ExcuseIs
<1>10. QED
  BY <1>3, <1>5, <1>6, <1>7, <1>8, <1>9, QuietWorld

LEMMA SetsBanKeeps ==
    ASSUME NoticesInv, NEW u \in Recipients, SetsBan(u)
    PROVE  NoticesInv'
<1>1. /\ budget.events < MaxEvents /\ Spend("events")
      /\ airtable' = [airtable EXCEPT !.banned = IF u \in @ THEN @ \ {u} ELSE @ \cup {u}]
      /\ spared' = [j \in Jobs |-> spared[j] \ {u}]
      /\ UNCHANGED <<person, job, saver, told, excused>>
  BY DEF SetsBan
<1>2. NoticesTyped /\ airtable \in [banned : SUBSET Recipients, dated : SUBSET Recipients]
  BY DEF NoticesInv, NoticesTyped
<1>3. /\ airtable' \in [banned : SUBSET Recipients, dated : SUBSET Recipients]
      /\ airtable'.dated = airtable.dated /\ airtable.banned \ {u} \subseteq airtable'.banned
  <2>1. CASE u \in airtable.banned
    BY <1>1, <1>2, <2>1
  <2>2. CASE u \notin airtable.banned
    BY <1>1, <1>2, <2>2
  <2>3. QED
    BY <2>1, <2>2
<1>4. /\ budget' \in [jobs : 0 .. MaxJobs, events : 0 .. MaxEvents] /\ budget.events \in Nat
      /\ budget'.events = budget.events + 1
  BY <1>1, SpendIs
<1>5. NoticesTyped'
  <2>1. ASSUME NEW v \in Recipients PROVE person'[v].plain + person'[v].golden <= 1 + budget'.events
    <3>1. /\ person[v].plain + person[v].golden <= 1 + budget.events
          /\ person[v].plain \in Nat /\ person[v].golden \in Nat
      BY <1>2 DEF NoticesTyped, UserRow
    <3>2. person' = person
      BY <1>1
    <3>3. QED
      BY <1>4, <3>1, <3>2
  <2>2. told' = told /\ person' = person /\ job' = job /\ saver' = saver /\ excused' = excused
    BY <1>1
  <2>3. QED
    BY <1>2, <1>3, <1>4, <2>1, <2>2 DEF NoticesTyped
<1>6. SparedTrue'
  BY <1>1, <1>3 DEF NoticesInv, SparedTrue
<1>7. ASSUME NEW v \in Recipients PROVE Each(v)'
  <2>1. Each(v)
    BY DEF NoticesInv
  <2>2. ClosingOnce(v)'
    BY <1>1, <2>1 DEF Each, ClosingOnce, Has, With
  <2>3. GoldenOnce(v)' /\ EmailOnce(v)'
    BY <1>1, <1>3, <2>1 DEF Each, GoldenOnce, EmailOnce, With
  <2>4. OneMarker(v)'
    BY <1>1, <2>1, MarkerStays DEF Each
  <2>5. QED
    BY <2>2, <2>3, <2>4 DEF Each
<1>8. QED
  BY <1>5, <1>6, <1>7 DEF NoticesInv

-----------------------------------------------------------------------------
LEMMA NoticesInvInit == NoticesInit => NoticesInv
<1> SUFFICES ASSUME NoticesInit PROVE NoticesInv
  OBVIOUS
<1>1. PICK cool \in SUBSET Recipients :
        person = [u \in Recipients |-> [pipes |-> TRUE, plain |-> 1, golden |-> 0,
                    row |-> [c \in Columns |-> c = "coolBuilder" /\ u \in cool]]]
  BY DEF NoticesInit
<1>2. TRUE \in BOOLEAN
  OBVIOUS
<1>5. ASSUME NEW u \in Recipients
      PROVE  /\ person[u] \in UserRow /\ person[u].plain = 1 /\ person[u].golden = 0
             /\ ~person[u].row.notified /\ ~person[u].row.watchlisted
  <2> DEFINE row == [c \in Columns |-> c = "coolBuilder" /\ u \in cool]
  <2>1. person[u] = [pipes |-> TRUE, plain |-> 1, golden |-> 0, row |-> row]
    BY <1>1
  <2>2. ASSUME NEW c \in Columns PROVE (c = "coolBuilder" /\ u \in cool) \in BOOLEAN
    BY ZenonT(20)
  <2>3. row \in [Columns -> BOOLEAN]
    BY <2>2
  <2>4. ~row["notified"] /\ ~row["watchlisted"]
    BY DEF Columns, Markers
  <2> HIDE DEF row
  <2>5. QED
    BY <1>2, <2>1, <2>3, <2>4 DEF UserRow
<1>6. /\ airtable = [banned |-> {}, dated |-> {}]
      /\ job = [j \in Jobs |-> NoJob] /\ saver = [s \in Savers |-> NoSave]
      /\ told = [c \in Channels |-> [u \in Recipients |-> 0]]
      /\ excused = [c \in Channels \cup {"marker"} |-> {}]
      /\ spared = [j \in Jobs |-> {}] /\ budget = [jobs |-> 0, events |-> 0]
  BY DEF NoticesInit
<1>7. NoJob \in ListJob /\ SoundJob(NoJob) /\ NoJob.todo = {} /\ NoJob.stage = "next" /\ NoJob.kind = "none"
  BY DEF NoJob, SoundJob, ListJob, Doing, Channels
<1>8. NoticesTyped
  <2>1. person \in [Recipients -> UserRow]
    BY <1>1, <1>5
  <2>2. budget \in [jobs : 0 .. MaxJobs, events : 0 .. MaxEvents] /\ budget.events = 0
    BY <1>6, NoticesAssumption
  <2>3. \A u \in Recipients : person[u].plain + person[u].golden <= 1 + budget.events
    BY <1>5, <2>2
  <2>4. /\ told \in [Channels -> [Recipients -> Nat]]
        /\ excused \in [Channels \cup {"marker"} -> SUBSET Recipients]
        /\ airtable \in [banned : SUBSET Recipients, dated : SUBSET Recipients]
        /\ saver \in [Savers -> SavedRow \cup {NoSave}]
    BY <1>6
  <2>5. job \in [Jobs -> ListJob] /\ \A j \in Jobs : SoundJob(job[j])
    BY <1>6, <1>7
  <2>6. QED
    BY <2>1, <2>2, <2>3, <2>4, <2>5 DEF NoticesTyped
<1>9. SparedTrue
  BY <1>6, <1>7 DEF SparedTrue
<1>10. ASSUME NEW u \in Recipients PROVE Each(u)
  <2>1. \A j \in Jobs : job[j] = NoJob
    BY <1>6
  <2>2. \A j \in Jobs : ~Has(j, u) /\ ~With(j, u, "mark") /\ ~With(j, u, "tell")
    BY <1>7, <2>1 DEF Has, With
  <2>3. \A s \in Savers : saver[s].of # u
    BY <1>6, NoticesAssumption DEF NoSave
  <2>4. told["closing"][u] = 0 /\ told["email"][u] = 0 /\ told["golden"][u] = 0
    BY <1>6 DEF Channels
  <2>5. ClosingOnce(u) /\ EmailOnce(u)
    BY <2>2, <2>3, <2>4 DEF ClosingOnce, EmailOnce
  <2>6. GoldenOnce(u)
    BY <1>5, <2>2, <2>4 DEF GoldenOnce
  <2>7. OneMarker(u)
    BY <1>5, <2>3 DEF OneMarker, Both
  <2>8. QED
    BY <2>5, <2>6, <2>7 DEF Each
<1>11. QED
  BY <1>8, <1>9, <1>10 DEF NoticesInv

LEMMA NoticesInvStep == NoticesInv /\ [NoticesNext]_noticesVars => NoticesInv'
<1> SUFFICES ASSUME NoticesInv, [NoticesNext]_noticesVars PROVE NoticesInv'
  OBVIOUS
<1>1. ASSUME NEW j \in Jobs, NEW kind \in Channels, Start(j, kind) PROVE NoticesInv'
  BY <1>1, StartKeeps
<1>2. ASSUME NEW j \in Jobs, Ends(j) \/ Dies(j) PROVE NoticesInv'
  BY <1>2, EndsKeeps
<1>3. ASSUME NEW j \in Jobs, Sends(j) PROVE NoticesInv'
  BY <1>3, SendsKeeps
<1>4. ASSUME NEW j \in Jobs, Stamps(j) PROVE NoticesInv'
  BY <1>4, StampsKeeps
<1>5. ASSUME NEW j \in Jobs, LooksAtDate(j) PROVE NoticesInv'
  BY <1>5, LooksAtDateKeeps
<1>6. ASSUME NEW j \in Jobs, WritesDate(j) PROVE NoticesInv'
  BY <1>6, WritesDateKeeps
<1>7. ASSUME NEW j \in Jobs, MarksGolden(j) PROVE NoticesInv'
  BY <1>7, MarksGoldenKeeps
<1>8. ASSUME NEW j \in Jobs, TellsGolden(j) PROVE NoticesInv'
  BY <1>8, TellsGoldenKeeps
<1>9. ASSUME NEW j \in Jobs, NEW u \in Recipients, LooksUp(j, u) \/ CountsGolden(j, u) PROVE NoticesInv'
  BY <1>9, LooksUpKeeps, CountsGoldenKeeps
<1>10. ASSUME NEW s \in Savers, NEW u \in Recipients, NEW marker \in Markers, NEW value \in BOOLEAN,
              FindsUser(s, u, marker, value)
       PROVE  NoticesInv'
  BY <1>10, FindsUserKeeps
<1>11. ASSUME NEW s \in Savers, ComparesRow(s) \/ WritesRow(s) PROVE NoticesInv'
  BY <1>11, ComparesRowKeeps, WritesRowKeeps
<1>12. ASSUME NEW u \in Recipients, MovesPipes(u) \/ SetsBan(u) \/ MakesProject(u) \/ LosesGolden(u)
       PROVE  NoticesInv'
  BY <1>12, MovesPipesKeeps, SetsBanKeeps, MakesProjectKeeps, LosesGoldenKeeps
<1>13. CASE UNCHANGED noticesVars
  <2>1. UNCHANGED <<person, airtable, job, saver, told, excused, spared, budget>>
    BY <1>13 DEF noticesVars
  <2>2. NoticesTyped'
    BY <2>1 DEF NoticesInv, NoticesTyped
  <2>3. SparedTrue'
    BY <2>1 DEF NoticesInv, SparedTrue
  <2>4. ASSUME NEW u \in Recipients PROVE Each(u)'
    <3>1. Each(u)
      BY DEF NoticesInv
    <3>2. ClosingOnce(u)' /\ EmailOnce(u)'
      BY <2>1, <3>1 DEF Each, ClosingOnce, EmailOnce, Has, With
    <3>3. GoldenOnce(u)' /\ OneMarker(u)'
      BY <2>1, <3>1 DEF Each, GoldenOnce, OneMarker, With
    <3>4. QED
      BY <3>2, <3>3 DEF Each
  <2>5. QED
    BY <2>2, <2>3, <2>4 DEF NoticesInv
<1>14. QED
  BY <1>1, <1>2, <1>3, <1>4, <1>5, <1>6, <1>7, <1>8, <1>9, <1>10, <1>11, <1>12, <1>13 DEF NoticesNext

LEMMA NoticesInvHolds == NoticesInv => NoticesTypeOK /\ ToldOnce
<1> SUFFICES ASSUME NoticesInv PROVE NoticesTypeOK /\ ToldOnce
  OBVIOUS
<1>1. NoticesTypeOK
  BY TypedTypes DEF NoticesInv
<1>2. ASSUME NEW u \in Recipients
      PROVE  /\ told["closing"][u] > 1 => u \in excused["closing"]
             /\ told["golden"][u] > 1 => u \in excused["golden"]
             /\ told["email"][u] <= 1 /\ (told["email"][u] = 1 => u \in airtable.dated)
             /\ person[u].row.watchlisted /\ person[u].row.coolBuilder => u \in excused["marker"]
  <2>1. Each(u) /\ told["closing"][u] \in Nat /\ told["golden"][u] \in Nat
    BY DEF NoticesInv, NoticesTyped, Channels
  <2>2. u \notin excused["closing"] => told["closing"][u] <= 1
    BY <2>1 DEF Each, ClosingOnce
  <2>3. u \notin excused["golden"] => told["golden"][u] <= 1
    BY <2>1 DEF Each, GoldenOnce
  <2>4. told["email"][u] <= 1 /\ (told["email"][u] = 1 => u \in airtable.dated)
    BY <2>1 DEF Each, EmailOnce
  <2>5. person[u].row.watchlisted /\ person[u].row.coolBuilder => u \in excused["marker"]
    BY <2>1 DEF Each, OneMarker, Both
  <2>6. QED
    BY <2>1, <2>2, <2>3, <2>4, <2>5
<1>3. \A j \in Jobs : job[j].stage \in {"send", "look", "patch"} => job[j].at \notin spared[j]
  BY DEF NoticesInv, SparedTrue
<1>4. ToldOnce
  BY <1>2, <1>3 DEF ToldOnce
<1>5. QED
  BY <1>1, <1>4

(* The inductive invariant of the notices.                                  *)
THEOREM NoticesInvariant == NoticesSpec => []NoticesInv
  BY NoticesInvInit, NoticesInvStep, PTL DEF NoticesSpec

(* Requests, saves, marks and counts have their shape (notifyShopClosing,   *)
(* syncShopClosingEmail, backfillGoldenForCoolBuilders, setReviewerMarker). *)
THEOREM NoticesTypeCorrect == NoticesSpec => []NoticesTypeOK
  BY NoticesInvariant, NoticesInvHolds, PTL

(* Nobody is told twice unless excused, the markers exclude each other but  *)
(* for racing saves, and the banned are passed over, for any number of      *)
(* users, requests and saves.                                               *)
THEOREM EachIsToldOnce == NoticesSpec => []ToldOnce
  BY NoticesInvariant, NoticesInvHolds, PTL

-----------------------------------------------------------------------------
(* Stats.  A number that is being read lacks nothing that counted all along *)
(* except what is still to be read, or was lost; what is kept of a day that *)
(* is over is its count; and whoever waits for the backfill finds each of   *)
(* its days in it, or counted already, or among those it missed.            *)
Number == [got : SUBSET Pieces, whole : BOOLEAN, always : SUBSET Pieces, ever : SUBSET Pieces]

CountsOfDays == {<<>>} \cup UNION {[S -> Int] : S \in SUBSET Days}

AtWork == [stage : {"idle", "reading", "waiting", "served", "counted", "refused"},
           kind : Kinds \cup {"none", "history"}, todo : SUBSET Pieces, data : Number,
           day : Days, missed : SUBSET Days, counts : CountsOfDays]

ActiveOnDays == {<<>>} \cup UNION {[S -> SUBSET Pieces] : S \in SUBSET Days}

CacheEntry == [data : Number, stage : {"none", "fresh", "old"}]

StatsTyped ==
    /\ world \in [Kinds -> SUBSET Pieces] /\ beats \in [Days -> SUBSET Pieces]
    /\ cache \in [Kinds -> CacheEntry] /\ reader \in [Callers -> AtWork]
    /\ memo \in [Days -> NotYet .. Cardinality(Pieces)]
    /\ inflight \in Callers \cup {NoCaller} /\ today \in Days
    /\ backfill \in [days : SUBSET Days, todo : SUBSET Pieces, active : ActiveOnDays]
    /\ off \subseteq Days /\ changes \in 0 .. MaxChanges

Truthful(n) == n.got \subseteq n.ever /\ (n.whole => n.always \subseteq n.got)

NumberHolds(r) ==
    /\ r.stage = "reading" =>
        /\ r.kind \in Kinds /\ r.data.got \subseteq r.data.ever
        /\ r.data.always \subseteq world[r.kind] /\ world[r.kind] \subseteq r.data.ever
        /\ r.kind = "leaderboard" => r.todo \subseteq r.data.ever
        /\ r.data.whole => r.data.always \subseteq r.data.got \cup r.todo
        /\ r.kind \in {"schedule", "lapse"} => r.data.whole
    /\ r.stage = "served" => Truthful(r.data)

CacheHolds ==
    /\ \A k \in Kinds : Truthful(cache[k].data)
    /\ cache["schedule"].data.whole /\ cache["lapse"].data.whole

MemoHolds == \A d \in Days : memo[d] # NotYet => d < today /\ (d \notin off => memo[d] = Cardinality(beats[d]))

BackfillHolds == inflight # NoCaller =>
    /\ backfill.days \subseteq Past /\ backfill.active \in [backfill.days -> SUBSET Pieces]
    /\ \A d \in backfill.days \ off : backfill.active[d] = beats[d] \ backfill.todo

HistoryHolds(r) ==
    /\ r.stage = "waiting" =>
        /\ r.day <= today
        /\ \A d \in (0 .. r.day - 1) \ r.missed : d \in backfill.days \/ memo[d] # NotYet
    /\ r.stage = "counted" =>
        /\ r.day <= today /\ DOMAIN r.counts = 0 .. r.day - 1
        /\ \A d \in (0 .. r.day - 1) \ (off \cup r.missed) : r.counts[d] = Cardinality(beats[d])

SomebodyWaits == \E c \in Callers : reader[c].stage = "waiting"

StatsInv ==
    /\ StatsTyped
    /\ \A c \in Callers : NumberHolds(reader[c]) /\ HistoryHolds(reader[c])
    /\ CacheHolds /\ MemoHolds /\ BackfillHolds
    /\ inflight # NoCaller <=> SomebodyWaits

-----------------------------------------------------------------------------
LEMMA NothingIs == /\ Nothing \in Number /\ Nothing.got = {} /\ Nothing.whole /\ Nothing.always = {}
                   /\ Nothing.ever = {} /\ Truthful(Nothing)
<1>1. TRUE \in BOOLEAN
  OBVIOUS
<1>2. QED
  BY <1>1 DEF Nothing, Number, Truthful

LEMMA DaysAre == 0 \in Days /\ LastDay \in Nat /\ \A d : d \in Days <=> d \in Nat /\ d <= LastDay
  BY StatsAssumption DEF Days

LEMMA RestIs == Rest \in AtWork /\ Rest.stage = "idle" /\ NumberHolds(Rest) /\ HistoryHolds(Rest)
<1>1. <<>> \in CountsOfDays
  BY DEF CountsOfDays
<1>2. Rest \in AtWork /\ Rest.stage = "idle"
  BY <1>1, NothingIs, DaysAre DEF Rest, AtWork
<1>3. QED
  BY <1>2 DEF NumberHolds, HistoryHolds

LEMMA CallerIs ==
    ASSUME StatsInv, NEW c \in Callers
    PROVE  /\ reader[c] \in AtWork /\ reader[c].data \in Number /\ reader[c].todo \subseteq Pieces
           /\ NumberHolds(reader[c]) /\ HistoryHolds(reader[c])
<1>1. reader[c] \in AtWork
  BY DEF StatsInv, StatsTyped
<1>2. QED
  BY <1>1 DEF StatsInv, AtWork

(* One caller goes on to something that is not waiting.                     *)
LEMMA OneCaller ==
    ASSUME StatsInv, NEW c \in Callers, NEW r \in AtWork, reader' = [reader EXCEPT ![c] = r],
           UNCHANGED <<worldVars, memo, inflight, backfill, off>>,
           cache' \in [Kinds -> CacheEntry], CacheHolds',
           NumberHolds(r), HistoryHolds(r), reader[c].stage # "waiting", r.stage # "waiting"
    PROVE  StatsInv'
<1>1. UNCHANGED <<world, today, beats, changes>>
  BY DEF worldVars
<1>2. reader \in [Callers -> AtWork]
  BY DEF StatsInv, StatsTyped
<1>3. reader' \in [Callers -> AtWork] /\ reader'[c] = r /\ \A b \in Callers \ {c} : reader'[b] = reader[b]
  BY <1>2
<1>4. StatsTyped'
  BY <1>1, <1>3 DEF StatsInv, StatsTyped
<1>5. ASSUME NEW b \in Callers PROVE NumberHolds(reader[b])' /\ HistoryHolds(reader[b])'
  <2>1. NumberHolds(reader'[b]) /\ HistoryHolds(reader'[b])
    <3>1. CASE b = c
      BY <1>3, <3>1
    <3>2. CASE b # c
      BY <1>3, <3>2 DEF StatsInv
    <3>3. QED
      BY <3>1, <3>2
  <2>2. QED
    BY <1>1, <2>1 DEF NumberHolds, HistoryHolds
<1>6. MemoHolds' /\ BackfillHolds'
  BY <1>1 DEF StatsInv, MemoHolds, BackfillHolds, Past
<1>7. SomebodyWaits' <=> SomebodyWaits
  BY <1>3 DEF SomebodyWaits
<1>8. QED
  BY <1>4, <1>5, <1>6, <1>7 DEF StatsInv

(* A caller that reads: it goes on reading, or is done with it.             *)
LEMMA QuietCaller ==
    ASSUME StatsInv, NEW c \in Callers, NEW r \in AtWork, reader' = [reader EXCEPT ![c] = r],
           CachesAlone, NumberHolds(r), HistoryHolds(r), reader[c].stage # "waiting", r.stage # "waiting"
    PROVE  StatsInv'
<1>1. UNCHANGED <<worldVars, cache, memo, inflight, backfill, off>>
  BY DEF CachesAlone
<1>2. cache' \in [Kinds -> CacheEntry] /\ CacheHolds'
  BY <1>1 DEF StatsInv, StatsTyped, CacheHolds
<1>3. QED
  BY <1>1, <1>2, OneCaller

LEMMA ServedIs ==
    ASSUME NEW k \in Kinds, NEW n \in Number, Truthful(n)
    PROVE  LET r == [Rest EXCEPT !.stage = "served", !.kind = k, !.data = n] IN
           r \in AtWork /\ r.stage = "served" /\ NumberHolds(r) /\ HistoryHolds(r)
<1> DEFINE r == [Rest EXCEPT !.stage = "served", !.kind = k, !.data = n]
<1>1. r \in AtWork /\ r.stage = "served" /\ r.data = n
  BY RestIs DEF AtWork
<1> HIDE DEF r
<1>2. NumberHolds(r) /\ HistoryHolds(r)
  BY <1>1 DEF NumberHolds, HistoryHolds
<1>3. QED
  BY <1>1, <1>2 DEF r

LEMMA AskKeeps ==
    ASSUME StatsInv, NEW c \in Callers, NEW k \in Kinds, Ask(c, k)
    PROVE  StatsInv'
<1>1. /\ reader[c].stage \in {"idle", "served", "counted", "refused"} /\ CachesAlone
      /\ reader' = [reader EXCEPT ![c] =
            IF cache[k].stage = "fresh"
            THEN [Rest EXCEPT !.stage = "served", !.kind = k, !.data = cache[k].data]
            ELSE [Rest EXCEPT !.stage = "reading", !.kind = k, !.todo = ToRead(k),
                              !.data = [Nothing EXCEPT !.always = world[k], !.ever = world[k]]]]
  BY DEF Ask, CachesAlone
<1>2. cache[k] \in CacheEntry /\ cache[k].data \in Number /\ Truthful(cache[k].data) /\ world[k] \subseteq Pieces
  BY DEF StatsInv, StatsTyped, CacheHolds, CacheEntry
<1>3. CASE cache[k].stage = "fresh"
  <2> DEFINE r == [Rest EXCEPT !.stage = "served", !.kind = k, !.data = cache[k].data]
  <2>1. reader' = [reader EXCEPT ![c] = r]
    BY <1>1, <1>3
  <2>2. r \in AtWork /\ r.stage = "served" /\ NumberHolds(r) /\ HistoryHolds(r)
    BY <1>2, ServedIs
  <2> HIDE DEF r
  <2>3. QED
    BY <1>1, <2>1, <2>2, QuietCaller
<1>4. CASE cache[k].stage # "fresh"
  <2> DEFINE n == [Nothing EXCEPT !.always = world[k], !.ever = world[k]]
  <2> DEFINE r == [Rest EXCEPT !.stage = "reading", !.kind = k, !.todo = ToRead(k), !.data = n]
  <2>1. reader' = [reader EXCEPT ![c] = r]
    BY <1>1, <1>4
  <2>2. n \in Number /\ n.got = {} /\ n.whole /\ n.always = world[k] /\ n.ever = world[k]
    BY <1>2, NothingIs DEF Number
  <2>3. ToRead(k) \subseteq Pieces /\ world[k] \subseteq ToRead(k) /\ (k = "leaderboard" => ToRead(k) = world[k])
    BY <1>2 DEF ToRead
  <2> HIDE DEF n
  <2>4. r \in AtWork /\ r.stage = "reading" /\ r.kind = k /\ r.todo = ToRead(k) /\ r.data = n
    BY <2>2, <2>3, RestIs DEF AtWork
  <2> HIDE DEF r
  <2>5. NumberHolds(r) /\ HistoryHolds(r)
    BY <2>2, <2>3, <2>4 DEF NumberHolds, HistoryHolds
  <2>6. QED
    BY <1>1, <2>1, <2>4, <2>5, QuietCaller
<1>5. QED
  BY <1>3, <1>4

(* A step of a request that reads: what it has, and has still to read.      *)
LEMMA GoesOnReading ==
    ASSUME StatsInv, NEW c \in Callers, reader[c].stage = "reading", CachesAlone,
           NEW todo \in SUBSET Pieces, NEW n \in Number,
           reader' = [reader EXCEPT ![c] = [reader[c] EXCEPT !.todo = todo, !.data = n]],
           todo \subseteq reader[c].todo, n.got \subseteq reader[c].data.ever,
           n.always = reader[c].data.always, n.ever = reader[c].data.ever,
           n.whole => n.always \subseteq n.got \cup todo,
           reader[c].kind \in {"schedule", "lapse"} => n.whole
    PROVE  StatsInv'
<1> DEFINE r == [reader[c] EXCEPT !.todo = todo, !.data = n]
<1>1. reader[c] \in AtWork /\ NumberHolds(reader[c])
  BY CallerIs
<1>2. r \in AtWork /\ r.stage = "reading" /\ r.kind = reader[c].kind /\ r.todo = todo /\ r.data = n
  BY <1>1 DEF AtWork
<1>3. reader' = [reader EXCEPT ![c] = r]
  OBVIOUS
<1> HIDE DEF r
<1>4. NumberHolds(r)
  BY <1>1, <1>2 DEF NumberHolds
<1>5. HistoryHolds(r)
  BY <1>2 DEF HistoryHolds
<1>6. QED
  BY <1>2, <1>3, <1>4, <1>5, QuietCaller

LEMMA ReadsKeeps ==
    ASSUME StatsInv, NEW c \in Callers, NEW e \in Pieces, reader[c].stage = "reading", e \in reader[c].todo,
           Reads(c, e), CachesAlone
    PROVE  StatsInv'
<1>1. /\ reader[c] \in AtWork /\ reader[c].data \in Number /\ reader[c].todo \subseteq Pieces
      /\ NumberHolds(reader[c]) /\ reader \in [Callers -> AtWork]
  BY CallerIs DEF StatsInv, StatsTyped
<1> DEFINE here == {e} \cap world[reader[c].kind]
<1> DEFINE n == [reader[c].data EXCEPT !.got = @ \cup here]
<1> DEFINE todo == reader[c].todo \ {e}
<1>2. here \subseteq {e} /\ here \subseteq world[reader[c].kind]
  OBVIOUS
<1>3. reader' = [reader EXCEPT ![c] = [reader[c] EXCEPT !.todo = todo, !.data = n]]
  BY <1>1 DEF Reads, AtWork, Number
<1>4. e \in world[reader[c].kind] => e \in here
  OBVIOUS
<1> HIDE DEF here
<1>5. /\ n \in Number /\ n.got = reader[c].data.got \cup here /\ n.whole = reader[c].data.whole
      /\ n.always = reader[c].data.always /\ n.ever = reader[c].data.ever
  BY <1>1, <1>2 DEF Number
<1> HIDE DEF n
<1>6. n.got \subseteq reader[c].data.ever
  BY <1>1, <1>2, <1>5 DEF NumberHolds
<1>7. n.whole => n.always \subseteq n.got \cup todo
  BY <1>1, <1>4, <1>5 DEF NumberHolds
<1>8. reader[c].kind \in {"schedule", "lapse"} => n.whole
  BY <1>1, <1>5 DEF NumberHolds
<1>9. todo \in SUBSET Pieces /\ todo \subseteq reader[c].todo
  BY <1>1
<1> HIDE DEF todo
<1>10. QED
  BY <1>3, <1>5, <1>6, <1>7, <1>8, <1>9, GoesOnReading

LEMMA LosesKeeps ==
    ASSUME StatsInv, NEW c \in Callers, NEW S \in SUBSET Pieces, reader[c].stage = "reading",
           reader[c].kind \notin {"schedule", "lapse"}, Loses(c, S), CachesAlone
    PROVE  StatsInv'
<1>1. /\ reader[c] \in AtWork /\ reader[c].data \in Number /\ reader[c].todo \subseteq Pieces
      /\ NumberHolds(reader[c]) /\ reader \in [Callers -> AtWork]
  BY CallerIs DEF StatsInv, StatsTyped
<1> DEFINE n == [reader[c].data EXCEPT !.whole = FALSE]
<1> DEFINE todo == reader[c].todo \ S
<1>2. FALSE \in BOOLEAN
  OBVIOUS
<1>3. reader' = [reader EXCEPT ![c] = [reader[c] EXCEPT !.todo = todo, !.data = n]]
  BY <1>1 DEF Loses, AtWork, Number
<1>4. /\ n \in Number /\ n.got = reader[c].data.got /\ ~n.whole
      /\ n.always = reader[c].data.always /\ n.ever = reader[c].data.ever
  BY <1>1, <1>2 DEF Number
<1> HIDE DEF n
<1>5. todo \in SUBSET Pieces /\ todo \subseteq reader[c].todo
  BY <1>1
<1> HIDE DEF todo
<1>6. n.got \subseteq reader[c].data.ever
  BY <1>1, <1>4 DEF NumberHolds
<1>7. QED
  BY <1>3, <1>4, <1>5, <1>6, GoesOnReading

LEMMA TurnedAwayKeeps ==
    ASSUME StatsInv, NEW c \in Callers, reader[c].stage = "reading", TurnedAway(c), CachesAlone
    PROVE  StatsInv'
<1> DEFINE r == [Rest EXCEPT !.stage = "refused"]
<1>1. r \in AtWork /\ r.stage = "refused"
  BY RestIs DEF AtWork
<1>2. reader' = [reader EXCEPT ![c] = r]
  BY DEF TurnedAway
<1> HIDE DEF r
<1>3. NumberHolds(r) /\ HistoryHolds(r)
  BY <1>1 DEF NumberHolds, HistoryHolds
<1>4. QED
  BY <1>1, <1>2, <1>3, QuietCaller

(* The requests of all kinds, piece by piece.                               *)
LEMMA PieceKeeps ==
    ASSUME StatsInv, NEW c \in Callers, NEW e \in Pieces,
           CountUser(c, e) \/ SumHours(c, e) \/ ReadSignups(c, e) \/ ReadPerms(c, e) \/ ReadCalendar(c, e)
           \/ FindAccount(c, e) \/ RankBuilder(c, e)
    PROVE  StatsInv'
<1>1. CASE CountUser(c, e) \/ SumHours(c, e)
  <2>1. /\ reader[c].stage = "reading" /\ reader[c].kind \notin {"schedule", "lapse"} /\ e \in reader[c].todo
        /\ CachesAlone
        /\ Reads(c, e) \/ Loses(c, {e})
    BY <1>1 DEF CountUser, SumHours, At
  <2>2. QED
    BY <2>1, ReadsKeeps, LosesKeeps
<1>2. CASE ReadSignups(c, e) \/ ReadPerms(c, e)
  <2>1. /\ reader[c].stage = "reading" /\ reader[c].kind \notin {"schedule", "lapse"} /\ e \in reader[c].todo
        /\ CachesAlone
        /\ Reads(c, e) \/ Loses(c, Pieces) \/ TurnedAway(c)
    BY <1>2 DEF ReadSignups, ReadPerms, At
  <2>2. QED
    BY <2>1, ReadsKeeps, LosesKeeps, TurnedAwayKeeps
<1>3. CASE FindAccount(c, e)
  <2>1. reader[c].stage = "reading" /\ e \in reader[c].todo /\ CachesAlone
    BY <1>3 DEF FindAccount, At
  <2>2. QED
    BY <1>3, <2>1, ReadsKeeps, TurnedAwayKeeps DEF FindAccount
<1>4. CASE RankBuilder(c, e)
  <2>1. /\ reader[c].stage = "reading" /\ reader[c].kind = "leaderboard" /\ e \in reader[c].todo
        /\ CachesAlone /\ HoursOf(c, e)
    BY <1>4 DEF RankBuilder, At
  <2>2. CASE Loses(c, {e})
    BY <2>1, <2>2, LosesKeeps
  <2>3. CASE reader' = [reader EXCEPT ![c].todo = @ \ {e}, ![c].data.got = @ \cup {e}]
    <3>1. /\ reader[c] \in AtWork /\ reader[c].data \in Number /\ reader[c].todo \subseteq Pieces
          /\ NumberHolds(reader[c]) /\ reader \in [Callers -> AtWork]
      BY CallerIs DEF StatsInv, StatsTyped
    <3> DEFINE n == [reader[c].data EXCEPT !.got = @ \cup {e}]
    <3> DEFINE todo == reader[c].todo \ {e}
    <3>2. reader' = [reader EXCEPT ![c] = [reader[c] EXCEPT !.todo = todo, !.data = n]]
      BY <2>3, <3>1 DEF AtWork, Number
    <3>3. /\ n \in Number /\ n.got = reader[c].data.got \cup {e} /\ n.whole = reader[c].data.whole
          /\ n.always = reader[c].data.always /\ n.ever = reader[c].data.ever
      BY <3>1 DEF Number
    <3> HIDE DEF n
    <3>4. n.got \subseteq reader[c].data.ever /\ (n.whole => n.always \subseteq n.got \cup todo)
      BY <2>1, <3>1, <3>3 DEF NumberHolds
    <3>5. todo \in SUBSET Pieces /\ todo \subseteq reader[c].todo
      BY <3>1
    <3> HIDE DEF todo
    <3>6. QED
      BY <2>1, <3>2, <3>3, <3>4, <3>5, GoesOnReading
  <2>4. QED
    BY <2>1, <2>2, <2>3 DEF HoursOf
<1>5. CASE ReadCalendar(c, e)
  <2>1. reader[c].stage = "reading" /\ e \in reader[c].todo /\ CachesAlone
    BY <1>5 DEF ReadCalendar, At
  <2>2. CASE Reads(c, e)
    BY <2>1, <2>2, ReadsKeeps
  <2>3. CASE reader' = [reader EXCEPT ![c] = [Rest EXCEPT !.stage = "served", !.kind = "schedule",
                                                         !.data = cache["schedule"].data]]
    <3>1. "schedule" \in Kinds
      BY DEF Kinds
    <3>2. cache["schedule"].data \in Number /\ Truthful(cache["schedule"].data)
      BY <3>1 DEF StatsInv, StatsTyped, CacheHolds, CacheEntry
    <3> DEFINE r == [Rest EXCEPT !.stage = "served", !.kind = "schedule", !.data = cache["schedule"].data]
    <3>3. r \in AtWork /\ r.stage = "served" /\ NumberHolds(r) /\ HistoryHolds(r)
      BY <3>1, <3>2, ServedIs
    <3>4. reader' = [reader EXCEPT ![c] = r]
      BY <2>3
    <3> HIDE DEF r
    <3>5. QED
      BY <2>1, <3>3, <3>4, QuietCaller
  <2>4. QED
    BY <1>5, <2>2, <2>3 DEF ReadCalendar
<1>6. QED
  BY <1>1, <1>2, <1>3, <1>4, <1>5

LEMMA CachesIs ==
    ASSUME StatsInv, NEW k \in Kinds, NEW n \in Number, NEW stage \in {"none", "fresh", "old"},
           cache' = [cache EXCEPT ![k] = [data |-> n, stage |-> stage]], Truthful(n),
           k \in {"schedule", "lapse"} => n.whole
    PROVE  cache' \in [Kinds -> CacheEntry] /\ CacheHolds'
<1>1. cache \in [Kinds -> CacheEntry] /\ CacheHolds /\ "schedule" \in Kinds /\ "lapse" \in Kinds
  BY DEF StatsInv, StatsTyped, Kinds
<1> DEFINE q == [data |-> n, stage |-> stage]
<1>2. q \in CacheEntry /\ q.data = n
  BY DEF CacheEntry
<1>3. cache' = [cache EXCEPT ![k] = q]
  OBVIOUS
<1> HIDE DEF q
<1>4. cache'[k] = q /\ (\A l \in Kinds \ {k} : cache'[l] = cache[l]) /\ cache' \in [Kinds -> CacheEntry]
  BY <1>1, <1>2, <1>3
<1>5. \A l \in Kinds : Truthful(cache'[l].data)
  BY <1>1, <1>2, <1>4 DEF CacheHolds
<1>6. cache'["schedule"].data.whole /\ cache'["lapse"].data.whole
  BY <1>1, <1>2, <1>4 DEF CacheHolds
<1>7. QED
  BY <1>4, <1>5, <1>6 DEF CacheHolds

LEMMA FinishKeeps ==
    ASSUME StatsInv, NEW c \in Callers, Finish(c)
    PROVE  StatsInv'
<1> DEFINE k == reader[c].kind
<1> DEFINE n == reader[c].data
<1>1. /\ reader[c].stage = "reading" /\ reader[c].todo = {}
      /\ reader' = [reader EXCEPT ![c] = [Rest EXCEPT !.stage = "served", !.kind = k, !.data = n]]
      /\ cache' = IF Cached(k) THEN [cache EXCEPT ![k] = [data |-> n, stage |-> "fresh"]] ELSE cache
      /\ UNCHANGED <<worldVars, memo, inflight, backfill, off>>
  BY DEF Finish
<1>2. n \in Number /\ NumberHolds(reader[c])
  BY CallerIs
<1>3. k \in Kinds /\ Truthful(n) /\ (k \in {"schedule", "lapse"} => n.whole)
  BY <1>1, <1>2 DEF NumberHolds, Truthful
<1>4. cache' \in [Kinds -> CacheEntry] /\ CacheHolds'
  <2>1. CASE Cached(k)
    BY <1>1, <1>2, <1>3, <2>1, CachesIs
  <2>2. CASE ~Cached(k)
    BY <1>1, <2>2 DEF StatsInv, StatsTyped, CacheHolds
  <2>3. QED
    BY <2>1, <2>2
<1> DEFINE r == [Rest EXCEPT !.stage = "served", !.kind = k, !.data = n]
<1>5. r \in AtWork /\ r.stage = "served" /\ NumberHolds(r) /\ HistoryHolds(r)
  BY <1>2, <1>3, ServedIs
<1>6. reader' = [reader EXCEPT ![c] = r]
  BY <1>1
<1> HIDE DEF r
<1>7. QED
  BY <1>1, <1>4, <1>5, <1>6, OneCaller

LEMMA ExpireKeeps ==
    ASSUME StatsInv, NEW k \in Kinds, Expire(k)
    PROVE  StatsInv'
<1>1. /\ cache' = [cache EXCEPT ![k].stage = "old"]
      /\ UNCHANGED <<world, today, beats, changes, reader, memo, inflight, backfill, off>>
  BY DEF Expire, worldVars
<1>2. /\ cache \in [Kinds -> CacheEntry] /\ CacheHolds /\ cache[k].data \in Number /\ Truthful(cache[k].data)
      /\ k \in {"schedule", "lapse"} => cache[k].data.whole
  BY DEF StatsInv, StatsTyped, CacheHolds, CacheEntry
<1>3. cache' = [cache EXCEPT ![k] = [data |-> cache[k].data, stage |-> "old"]]
  <2>1. cache[k] \in CacheEntry
    BY <1>2
  <2>2. [cache[k] EXCEPT !.stage = "old"] = [data |-> cache[k].data, stage |-> "old"]
    BY <2>1 DEF CacheEntry
  <2>3. cache' = [cache EXCEPT ![k] = [cache[k] EXCEPT !.stage = "old"]]
    BY <1>1, <1>2
  <2>4. QED
    BY <2>2, <2>3
<1>4. cache' \in [Kinds -> CacheEntry] /\ CacheHolds'
  BY <1>2, <1>3, CachesIs
<1>5. StatsTyped'
  BY <1>1, <1>4 DEF StatsInv, StatsTyped
<1>6. \A c \in Callers : NumberHolds(reader[c])' /\ HistoryHolds(reader[c])'
  BY <1>1 DEF StatsInv, NumberHolds, HistoryHolds
<1>7. MemoHolds' /\ BackfillHolds' /\ (SomebodyWaits' <=> SomebodyWaits)
  BY <1>1 DEF StatsInv, MemoHolds, BackfillHolds, SomebodyWaits, Past
<1>8. QED
  BY <1>1, <1>4, <1>5, <1>6, <1>7 DEF StatsInv

(* Something changes while requests read: it did not count all along, and   *)
(* it counted at some time.                                                 *)
LEMMA ChangeKeeps ==
    ASSUME StatsInv, NEW k \in Kinds, NEW e \in Pieces, Change(k, e)
    PROVE  StatsInv'
<1>1. /\ changes < MaxChanges /\ changes' = changes + 1
      /\ world' = [world EXCEPT ![k] = IF e \in @ THEN @ \ {e} ELSE @ \cup {e}]
      /\ reader' = [c \in Callers |-> IF reader[c].stage = "reading" /\ reader[c].kind = k
            THEN [reader[c] EXCEPT !.data.always = @ \ {e}, !.data.ever = @ \cup {e}] ELSE reader[c]]
      /\ UNCHANGED <<today, beats, cache, memo, inflight, backfill, off>>
  BY DEF Change
<1>2. world \in [Kinds -> SUBSET Pieces] /\ changes \in 0 .. MaxChanges
  BY DEF StatsInv, StatsTyped
<1>3. /\ world' \in [Kinds -> SUBSET Pieces] /\ \A l \in Kinds \ {k} : world'[l] = world[l]
      /\ world[k] \ {e} \subseteq world'[k] /\ world'[k] \subseteq world[k] \cup {e}
  <2>1. CASE e \in world[k]
    BY <1>1, <1>2, <2>1
  <2>2. CASE e \notin world[k]
    BY <1>1, <1>2, <2>2
  <2>3. QED
    BY <2>1, <2>2
<1>4. changes' \in 0 .. MaxChanges
  <2>1. changes' = changes + 1 /\ changes < MaxChanges /\ changes \in 0 .. MaxChanges /\ MaxChanges \in Nat
    BY <1>1, <1>2, StatsAssumption
  <2>2. QED
    BY <2>1
<1>5. ASSUME NEW c \in Callers
      PROVE  /\ reader'[c] \in AtWork /\ reader'[c].stage = reader[c].stage
             /\ NumberHolds(reader[c])' /\ HistoryHolds(reader[c])'
  <2>1. reader[c] \in AtWork /\ reader[c].data \in Number /\ NumberHolds(reader[c]) /\ HistoryHolds(reader[c])
    BY CallerIs
  <2>2. CASE reader[c].stage = "reading" /\ reader[c].kind = k
    <3> DEFINE n == [reader[c].data EXCEPT !.always = @ \ {e}, !.ever = @ \cup {e}]
    <3> DEFINE r == [reader[c] EXCEPT !.data = n]
    <3>1. reader'[c] = r
      BY <1>1, <2>1, <2>2 DEF AtWork, Number
    <3>2. /\ n \in Number /\ n.got = reader[c].data.got /\ n.whole = reader[c].data.whole
          /\ n.always = reader[c].data.always \ {e} /\ n.ever = reader[c].data.ever \cup {e}
      BY <2>1 DEF Number
    <3> HIDE DEF n
    <3>3. /\ r \in AtWork /\ r.stage = "reading" /\ r.kind = k /\ r.todo = reader[c].todo /\ r.data = n
      BY <2>1, <2>2, <3>2 DEF AtWork
    <3> HIDE DEF r
    <3>4. NumberHolds(reader[c])'
      BY <1>3, <2>1, <2>2, <3>1, <3>2, <3>3 DEF NumberHolds
    <3>5. HistoryHolds(reader[c])'
      BY <3>1, <3>3 DEF HistoryHolds
    <3>6. QED
      BY <2>2, <3>1, <3>3, <3>4, <3>5
  <2>3. CASE ~(reader[c].stage = "reading" /\ reader[c].kind = k)
    <3>1. reader'[c] = reader[c]
      BY <1>1, <2>3
    <3>2. NumberHolds(reader[c])'
      BY <1>3, <2>1, <2>3, <3>1 DEF NumberHolds
    <3>3. HistoryHolds(reader[c])'
      BY <1>1, <2>1, <3>1 DEF HistoryHolds
    <3>4. QED
      BY <2>1, <3>1, <3>2, <3>3
  <2>4. QED
    BY <2>2, <2>3
<1>6. StatsTyped'
  <2>1. reader' \in [Callers -> AtWork]
    BY <1>1, <1>5
  <2>2. StatsTyped
    BY DEF StatsInv
  <2>3. /\ today' = today /\ beats' = beats /\ cache' = cache /\ memo' = memo /\ inflight' = inflight
        /\ backfill' = backfill /\ off' = off
    BY <1>1
  <2>4. QED
    BY <1>3, <1>4, <2>1, <2>2, <2>3 DEF StatsTyped
<1>7. CacheHolds' /\ MemoHolds' /\ BackfillHolds' /\ (SomebodyWaits' <=> SomebodyWaits)
  BY <1>1, <1>5 DEF StatsInv, CacheHolds, MemoHolds, BackfillHolds, SomebodyWaits, Past
<1>8. QED
  BY <1>1, <1>5, <1>6, <1>7 DEF StatsInv

-----------------------------------------------------------------------------
(* The days that are over.                                                  *)
LEMMA CardinalityIs ==
    ASSUME NEW S \in SUBSET Pieces
    PROVE  Cardinality(S) \in NotYet .. Cardinality(Pieces) /\ Cardinality(S) # NotYet
<1>1. IsFiniteSet(Pieces) /\ IsFiniteSet(S) /\ Cardinality(S) <= Cardinality(Pieces)
  BY StatsAssumption, FS_Subset
<1>2. Cardinality(S) \in Nat /\ Cardinality(Pieces) \in Nat
  BY <1>1, FS_CardinalityType
<1>3. QED
  BY <1>1, <1>2 DEF NotYet

LEMMA CountsAre ==
    ASSUME NEW g \in [Days -> NotYet .. Cardinality(Pieces)], NEW day \in Days
    PROVE  LET f == [d \in 0 .. day - 1 |-> IF g[d] = NotYet THEN 0 ELSE g[d]] IN
           /\ f \in CountsOfDays /\ DOMAIN f = 0 .. day - 1
           /\ \A d \in 0 .. day - 1 : d \in Days /\ (g[d] # NotYet => f[d] = g[d])
<1> DEFINE f == [d \in 0 .. day - 1 |-> IF g[d] = NotYet THEN 0 ELSE g[d]]
<1> DEFINE S == 0 .. day - 1
<1>1. \A d \in S : d \in Days
  BY DaysAre
<1>2. S \in SUBSET Days
  BY <1>1
<1>3. ASSUME NEW d \in S PROVE (IF g[d] = NotYet THEN 0 ELSE g[d]) \in Int
  <2>1. g[d] \in NotYet .. Cardinality(Pieces)
    BY <1>1
  <2>2. g[d] \in Int
    BY <2>1 DEF NotYet
  <2>3. QED
    BY <2>2
<1>4. DOMAIN f = S /\ \A d \in S : f[d] = IF g[d] = NotYet THEN 0 ELSE g[d]
  OBVIOUS
<1> HIDE DEF S
<1>5. f \in [S -> Int]
  BY <1>3 DEF S
<1>6. f \in CountsOfDays
  BY <1>2, <1>5 DEF CountsOfDays
<1>7. QED
  BY <1>1, <1>4, <1>6 DEF S

LEMMA ActiveIs ==
    ASSUME NEW S \in SUBSET Days, NEW f \in [S -> SUBSET Pieces]
    PROVE  f \in ActiveOnDays
  BY DEF ActiveOnDays

LEMMA AskHistoryKeeps ==
    ASSUME StatsInv, NEW c \in Callers, AskHistory(c)
    PROVE  StatsInv'
<1> DEFINE misses == Missing(Past) # {}
<1> DEFINE starts == misses /\ inflight = NoCaller
<1> DEFINE missed == IF starts \/ ~misses THEN {} ELSE Missing(Past) \ backfill.days
<1> DEFINE counts == IF misses THEN <<>> ELSE Counts(today)
<1> DEFINE going == [Rest EXCEPT !.kind = "history", !.day = today,
                             !.stage = IF misses THEN "waiting" ELSE "counted",
                             !.missed = missed, !.counts = counts]
<1>1. /\ reader[c].stage \in {"idle", "served", "counted", "refused"}
      /\ reader' = [reader EXCEPT ![c] = going]
      /\ inflight' = IF starts THEN c ELSE inflight
      /\ backfill' = IF starts THEN [days |-> Missing(Past), todo |-> Pieces,
                                     active |-> [d \in Missing(Past) |-> {}]]
                     ELSE backfill
      /\ UNCHANGED <<world, today, beats, changes, cache, memo, off>>
  BY DEF AskHistory, worldVars
<1>2. /\ today \in Days /\ memo \in [Days -> NotYet .. Cardinality(Pieces)] /\ MemoHolds
      /\ reader \in [Callers -> AtWork] /\ beats \in [Days -> SUBSET Pieces] /\ off \subseteq Days
  BY DEF StatsInv, StatsTyped
<1>3. Past \subseteq Days /\ Past = 0 .. today - 1 /\ \A d \in Past : d \in Nat
  BY <1>2, DaysAre DEF Past
<1>4. Missing(Past) \subseteq Past /\ \A d \in Past \ Missing(Past) : memo[d] # NotYet
  BY DEF Missing
<1>5. missed \in SUBSET Days
  BY <1>3, <1>4
<1>6. counts \in CountsOfDays
  <2>1. CASE misses
    BY <2>1 DEF CountsOfDays
  <2>2. CASE ~misses
    BY <1>2, <2>2, CountsAre DEF Counts
  <2>3. QED
    BY <2>1, <2>2
<1>7. ~misses => /\ DOMAIN counts = 0 .. today - 1
                 /\ \A d \in Past \ off : counts[d] = Cardinality(beats[d])
  <2>1. SUFFICES ASSUME ~misses
                 PROVE  DOMAIN counts = 0 .. today - 1 /\ \A d \in Past \ off : counts[d] = Cardinality(beats[d])
    OBVIOUS
  <2>2. counts = [d \in 0 .. today - 1 |-> IF memo[d] = NotYet THEN 0 ELSE memo[d]]
    BY <2>1 DEF Counts
  <2>3. \A d \in Past : memo[d] # NotYet
    BY <1>4, <2>1
  <2>4. QED
    BY <1>2, <1>3, <2>2, <2>3 DEF MemoHolds
<1> HIDE DEF counts
<1>8. /\ going \in AtWork /\ going.day = today /\ going.missed = missed /\ going.counts = counts
      /\ going.stage = IF misses THEN "waiting" ELSE "counted"
  <2> HIDE DEF missed, misses
  <2> DEFINE stage == IF misses THEN "waiting" ELSE "counted"
  <2>1. stage \in {"waiting", "counted"}
    OBVIOUS
  <2> HIDE DEF stage
  <2>2. going = [Rest EXCEPT !.kind = "history", !.day = today, !.stage = stage, !.missed = missed, !.counts = counts]
    BY DEF stage
  <2> HIDE DEF going
  <2>3. /\ going \in AtWork /\ going.day = today /\ going.missed = missed /\ going.counts = counts /\ going.stage = stage
    BY <1>2, <1>5, <1>6, <2>1, <2>2, RestIs DEF AtWork
  <2>4. QED
    BY <2>3 DEF stage
<1> HIDE DEF going
<1>13. PICK r \in AtWork : /\ reader' = [reader EXCEPT ![c] = r]
                           /\ r.day = today /\ r.missed = missed /\ r.counts = counts
                           /\ r.stage = IF misses THEN "waiting" ELSE "counted"
  BY <1>1, <1>8
<1>9. NumberHolds(r)
  BY <1>13 DEF NumberHolds
<1>10. CASE ~misses
  <2>1. HistoryHolds(r)
    <3>1. r.stage = "counted" /\ r.day <= today
      BY <1>2, <1>13, <1>10, DaysAre
    <3>2. QED
      BY <1>3, <1>7, <1>13, <1>10, <3>1 DEF HistoryHolds
  <2>2. UNCHANGED <<worldVars, memo, inflight, backfill, off, cache>>
    BY <1>1, <1>10 DEF worldVars
  <2>3. CachesAlone
    BY <2>2 DEF CachesAlone
  <2>4. QED
    BY <1>1, <1>9, <1>10, <1>13, <2>1, <2>3, QuietCaller
<1>11. CASE misses
  <2>1. r.stage = "waiting" /\ r.day <= today
    BY <1>2, <1>13, <1>11, DaysAre
  <2>2. reader'[c] = r /\ (\A b \in Callers \ {c} : reader'[b] = reader[b]) /\ reader' \in [Callers -> AtWork]
    BY <1>1, <1>2, <1>13
  <2>3. SomebodyWaits' /\ inflight' # NoCaller /\ inflight' \in Callers \cup {NoCaller}
    <3>1. SomebodyWaits'
      BY <2>1, <2>2 DEF SomebodyWaits
    <3>2. QED
      BY <1>1, <1>11, <3>1, StatsAssumption DEF StatsInv, StatsTyped
  <2>4. /\ backfill' \in [days : SUBSET Days, todo : SUBSET Pieces, active : ActiveOnDays]
        /\ BackfillHolds'
        /\ HistoryHolds(r)'
        /\ \A b \in Callers \ {c} : HistoryHolds(reader[b])'
    <3>1. CASE inflight = NoCaller
      <4> DEFINE active == [d \in Missing(Past) |-> {}]
      <4>1. backfill' = [days |-> Missing(Past), todo |-> Pieces, active |-> active]
        BY <1>1, <1>11, <3>1
      <4>2. active \in [Missing(Past) -> SUBSET Pieces] /\ \A d \in Missing(Past) : active[d] = {}
        OBVIOUS
      <4>3. Missing(Past) \in SUBSET Days
        BY <1>3, <1>4
      <4>4. active \in ActiveOnDays
        BY <4>2, <4>3, ActiveIs
      <4> HIDE DEF active
      <4>5. backfill' \in [days : SUBSET Days, todo : SUBSET Pieces, active : ActiveOnDays]
        BY <4>1, <4>3, <4>4
      <4>6. \A d \in Missing(Past) : beats[d] \ Pieces = {}
        BY <1>2, <4>3
      <4>7. BackfillHolds'
        BY <1>1, <1>4, <4>1, <4>2, <4>6 DEF BackfillHolds, Past
      <4>8. missed = {}
        BY <1>11, <3>1
      <4>9. HistoryHolds(r)'
        BY <1>1, <1>3, <1>4, <1>13, <2>1, <4>1 DEF HistoryHolds
      <4>10. \A b \in Callers : reader[b].stage # "waiting"
        BY <3>1 DEF StatsInv, SomebodyWaits
      <4>11. \A b \in Callers \ {c} : HistoryHolds(reader[b])'
        <5>1. ASSUME NEW b \in Callers \ {c} PROVE HistoryHolds(reader[b])'
          <6>1. reader'[b] = reader[b] /\ reader[b].stage # "waiting" /\ HistoryHolds(reader[b])
            BY <2>2, <4>10, CallerIs
          <6>2. today' = today /\ off' = off /\ beats' = beats
            BY <1>1
          <6>3. QED
            BY <6>1, <6>2 DEF HistoryHolds
        <5>2. QED
          BY <5>1
      <4>12. QED
        BY <4>5, <4>7, <4>9, <4>11
    <3>2. CASE inflight # NoCaller
      <4>1. backfill' = backfill /\ inflight' = inflight
        BY <1>1, <3>2
      <4>2. missed = Missing(Past) \ backfill.days
        BY <1>11, <3>2
      <4>3. BackfillHolds' /\ backfill' \in [days : SUBSET Days, todo : SUBSET Pieces, active : ActiveOnDays]
        BY <1>1, <4>1 DEF StatsInv, StatsTyped, BackfillHolds, Past
      <4>4. HistoryHolds(r)'
        <5>1. \A d \in (0 .. r.day - 1) \ r.missed : d \in backfill.days \/ memo[d] # NotYet
          BY <1>3, <1>4, <1>13, <4>2
        <5>2. QED
          BY <1>1, <2>1, <4>1, <5>1 DEF HistoryHolds
      <4>5. \A b \in Callers \ {c} : HistoryHolds(reader[b])'
        <5>1. ASSUME NEW b \in Callers \ {c} PROVE HistoryHolds(reader[b])'
          <6>1. reader'[b] = reader[b] /\ HistoryHolds(reader[b])
            BY <2>2, CallerIs
          <6>2. today' = today /\ off' = off /\ beats' = beats /\ memo' = memo /\ backfill' = backfill
            BY <1>1, <4>1
          <6>3. QED
            BY <6>1, <6>2 DEF HistoryHolds
        <5>2. QED
          BY <5>1
      <4>6. QED
        BY <4>3, <4>4, <4>5
    <3>3. QED
      BY <3>1, <3>2
  <2>5. StatsTyped'
    <3>1. StatsTyped
      BY DEF StatsInv
    <3>2. /\ world' = world /\ today' = today /\ beats' = beats /\ changes' = changes /\ cache' = cache
          /\ memo' = memo /\ off' = off
      BY <1>1
    <3>3. QED
      BY <2>2, <2>3, <2>4, <3>1, <3>2 DEF StatsTyped
  <2>6. \A b \in Callers : NumberHolds(reader[b])'
    <3>1. ASSUME NEW b \in Callers PROVE NumberHolds(reader[b])'
      <4>1. NumberHolds(reader'[b])
        <5>1. CASE b = c
          BY <1>9, <2>2, <5>1
        <5>2. CASE b # c
          BY <2>2, <5>2, CallerIs
        <5>3. QED
          BY <5>1, <5>2
      <4>2. world' = world
        BY <1>1
      <4>3. QED
        BY <4>1, <4>2 DEF NumberHolds
    <3>2. QED
      BY <3>1
  <2>7. \A b \in Callers : HistoryHolds(reader[b])'
    <3>1. ASSUME NEW b \in Callers PROVE HistoryHolds(reader[b])'
      <4>1. CASE b = c
        <5>1. HistoryHolds(r)'
          BY <2>4
        <5>2. QED
          BY <2>2, <4>1, <5>1 DEF HistoryHolds
      <4>2. CASE b # c
        BY <2>4, <4>2
      <4>3. QED
        BY <4>1, <4>2
    <3>2. QED
      BY <3>1
  <2>8. CacheHolds' /\ MemoHolds'
    BY <1>1 DEF StatsInv, CacheHolds, MemoHolds
  <2>9. QED
    BY <2>3, <2>4, <2>5, <2>6, <2>7, <2>8 DEF StatsInv
<1>12. QED
  BY <1>10, <1>11

LEMMA ReadSpansKeeps ==
    ASSUME StatsInv, NEW e \in Pieces, ReadSpans(e)
    PROVE  StatsInv'
<1> DEFINE left == backfill.todo \ {e}
<1> DEFINE active == [d \in backfill.days |-> IF e \in beats[d] THEN backfill.active[d] \cup {e} ELSE backfill.active[d]]
<1>1. /\ inflight # NoCaller /\ e \in backfill.todo
      /\ UNCHANGED <<world, today, beats, changes, cache, reader, memo, inflight>>
  BY DEF ReadSpans, worldVars
<1>2. \/ backfill' = [backfill EXCEPT !.todo = left, !.active = active] /\ off' = off
      \/ backfill' = [backfill EXCEPT !.todo = left] /\ off' = off \cup backfill.days
  BY DEF ReadSpans
<1>3. /\ backfill \in [days : SUBSET Days, todo : SUBSET Pieces, active : ActiveOnDays]
      /\ backfill.days \subseteq Past /\ backfill.active \in [backfill.days -> SUBSET Pieces]
      /\ \A d \in backfill.days \ off : backfill.active[d] = beats[d] \ backfill.todo
      /\ off \subseteq Days /\ beats \in [Days -> SUBSET Pieces]
  BY <1>1 DEF StatsInv, StatsTyped, BackfillHolds
<1>4. active \in [backfill.days -> SUBSET Pieces] /\ left \in SUBSET Pieces
  BY <1>3
<1>5. active \in ActiveOnDays
  <2>1. backfill.days \in SUBSET Days
    BY <1>3
  <2> HIDE DEF active
  <2>2. QED
    BY <1>4, <2>1, ActiveIs
<1>6. ASSUME NEW d \in backfill.days \ off PROVE active[d] = beats[d] \ left
  <2>1. d \in backfill.days /\ backfill.active[d] = beats[d] \ backfill.todo
    BY <1>3
  <2>2. active[d] = IF e \in beats[d] THEN backfill.active[d] \cup {e} ELSE backfill.active[d]
    BY <2>1
  <2> HIDE DEF active
  <2>3. QED
    BY <1>1, <2>1, <2>2
<1> HIDE DEF active, left
<1>7. /\ backfill' \in [days : SUBSET Days, todo : SUBSET Pieces, active : ActiveOnDays]
      /\ backfill'.days = backfill.days /\ off \subseteq off' /\ off' \subseteq Days
      /\ backfill'.active \in [backfill.days -> SUBSET Pieces]
      /\ \A d \in backfill.days \ off' : backfill'.active[d] = beats[d] \ backfill'.todo
  <2>1. CASE backfill' = [backfill EXCEPT !.todo = left, !.active = active] /\ off' = off
    <3>1. /\ backfill' \in [days : SUBSET Days, todo : SUBSET Pieces, active : ActiveOnDays]
          /\ backfill'.days = backfill.days /\ backfill'.todo = left /\ backfill'.active = active
      BY <1>3, <1>4, <1>5, <2>1
    <3>2. QED
      BY <1>3, <1>4, <1>6, <2>1, <3>1
  <2>2. CASE backfill' = [backfill EXCEPT !.todo = left] /\ off' = off \cup backfill.days
    <3>1. /\ backfill' \in [days : SUBSET Days, todo : SUBSET Pieces, active : ActiveOnDays]
          /\ backfill'.days = backfill.days /\ backfill'.todo = left /\ backfill'.active = backfill.active
      BY <1>3, <1>4, <2>2
    <3>2. QED
      BY <1>3, <2>2, <3>1
  <2>3. QED
    BY <1>2, <2>1, <2>2
<1>8. StatsTyped'
  <2>1. StatsTyped
    BY DEF StatsInv
  <2>2. QED
    BY <1>1, <1>7, <2>1 DEF StatsTyped
<1>9. BackfillHolds'
  BY <1>1, <1>3, <1>7 DEF BackfillHolds, Past
<1>10. MemoHolds' /\ CacheHolds' /\ (SomebodyWaits' <=> SomebodyWaits)
  BY <1>1, <1>7 DEF StatsInv, MemoHolds, CacheHolds, SomebodyWaits
<1>11. ASSUME NEW c \in Callers PROVE NumberHolds(reader[c])' /\ HistoryHolds(reader[c])'
  <2>1. NumberHolds(reader[c]) /\ HistoryHolds(reader[c])
    BY CallerIs
  <2>2. reader'[c] = reader[c] /\ world' = world /\ today' = today /\ memo' = memo /\ beats' = beats
    BY <1>1
  <2>3. NumberHolds(reader[c])'
    BY <2>1, <2>2 DEF NumberHolds
  <2>4. HistoryHolds(reader[c])'
    BY <1>7, <2>1, <2>2 DEF HistoryHolds
  <2>5. QED
    BY <2>3, <2>4
<1>12. QED
  BY <1>1, <1>8, <1>9, <1>10, <1>11 DEF StatsInv

(* All who wait are told, each of the days before the one it asked on.      *)
LEMMA KeepCountsKeeps ==
    ASSUME StatsInv, KeepCounts
    PROVE  StatsInv'
<1> DEFINE f == [d \in Days |-> IF d \in backfill.days /\ d < today
                                THEN Cardinality(backfill.active[d]) ELSE memo[d]]
<1>0. PICK kept \in {f} :
        /\ memo' = kept
        /\ reader' = [c \in Callers |-> IF reader[c].stage # "waiting" THEN reader[c]
                ELSE [reader[c] EXCEPT !.stage = "counted", !.counts =
                        [d \in 0 .. reader[c].day - 1 |-> IF kept[d] = NotYet THEN 0 ELSE kept[d]]]]
  BY DEF KeepCounts
<1>1. /\ inflight # NoCaller /\ backfill.todo = {} /\ memo' = kept
      /\ reader' = [c \in Callers |-> IF reader[c].stage # "waiting" THEN reader[c]
                ELSE [reader[c] EXCEPT !.stage = "counted", !.counts =
                        [d \in 0 .. reader[c].day - 1 |-> IF kept[d] = NotYet THEN 0 ELSE kept[d]]]]
      /\ inflight' = NoCaller /\ backfill' = NoBackfill
      /\ UNCHANGED <<world, today, beats, changes, cache, off>>
  BY <1>0 DEF KeepCounts, worldVars
<1>2. /\ backfill.days \subseteq Past /\ backfill.active \in [backfill.days -> SUBSET Pieces]
      /\ \A d \in backfill.days \ off : backfill.active[d] = beats[d]
      /\ today \in Days /\ memo \in [Days -> NotYet .. Cardinality(Pieces)] /\ MemoHolds
      /\ beats \in [Days -> SUBSET Pieces] /\ off \subseteq Days
  BY <1>1 DEF StatsInv, StatsTyped, BackfillHolds
<1>3. ASSUME NEW d \in Days
      PROVE  /\ kept[d] \in NotYet .. Cardinality(Pieces)
             /\ d \in backfill.days => kept[d] # NotYet
             /\ memo[d] # NotYet => kept[d] # NotYet
             /\ kept[d] # NotYet => d < today /\ (d \notin off => kept[d] = Cardinality(beats[d]))
  <2>1. kept[d] = IF d \in backfill.days /\ d < today THEN Cardinality(backfill.active[d]) ELSE memo[d]
    BY <1>0
  <2>2. d \in backfill.days => d < today
    BY <1>2, DaysAre DEF Past
  <2>3. CASE d \in backfill.days
    <3>1. kept[d] = Cardinality(backfill.active[d]) /\ backfill.active[d] \in SUBSET Pieces
      BY <1>2, <2>1, <2>2, <2>3
    <3>2. kept[d] \in NotYet .. Cardinality(Pieces) /\ kept[d] # NotYet
      BY <3>1, CardinalityIs
    <3>3. d \notin off => kept[d] = Cardinality(beats[d])
      BY <1>2, <2>3, <3>1
    <3>4. QED
      BY <2>2, <2>3, <3>2, <3>3
  <2>4. CASE d \notin backfill.days
    BY <1>2, <2>1, <2>4 DEF MemoHolds
  <2>5. QED
    BY <2>3, <2>4
<1>4. kept \in [Days -> NotYet .. Cardinality(Pieces)]
  BY <1>0, <1>3
<1>5. MemoHolds'
  <2>1. memo' = kept /\ today' = today /\ off' = off /\ beats' = beats
    BY <1>1
  <2>2. QED
    BY <1>3, <2>1 DEF MemoHolds
<1> HIDE DEF f
<1>6. ASSUME NEW c \in Callers
      PROVE  /\ reader'[c] \in AtWork /\ reader'[c].stage # "waiting"
             /\ NumberHolds(reader[c])' /\ HistoryHolds(reader[c])'
  <2>1. reader[c] \in AtWork /\ NumberHolds(reader[c]) /\ HistoryHolds(reader[c])
    BY CallerIs
  <2>2. CASE reader[c].stage # "waiting"
    <3>1. reader'[c] = reader[c]
      BY <1>1, <2>2
    <3>2. NumberHolds(reader[c])'
      BY <1>1, <2>1, <3>1 DEF NumberHolds
    <3>3. HistoryHolds(reader[c])'
      BY <1>1, <2>1, <2>2, <3>1 DEF HistoryHolds
    <3>4. QED
      BY <2>1, <2>2, <3>1, <3>2, <3>3
  <2>3. CASE reader[c].stage = "waiting"
    <3> DEFINE day == reader[c].day
    <3> DEFINE counts == [d \in 0 .. day - 1 |-> IF kept[d] = NotYet THEN 0 ELSE kept[d]]
    <3> DEFINE r == [reader[c] EXCEPT !.stage = "counted", !.counts = counts]
    <3>1. reader'[c] = r
      BY <1>1, <2>3
    <3>2. day \in Days
      BY <2>1 DEF AtWork
    <3>3. /\ counts \in CountsOfDays /\ DOMAIN counts = 0 .. day - 1
          /\ \A d \in 0 .. day - 1 : d \in Days /\ (kept[d] # NotYet => counts[d] = kept[d])
      BY <1>4, <3>2, CountsAre
    <3> HIDE DEF counts
    <3>4. /\ r \in AtWork /\ r.stage = "counted" /\ r.counts = counts /\ r.day = day
          /\ r.missed = reader[c].missed
      BY <2>1, <3>3 DEF AtWork
    <3> HIDE DEF r
    <3>5. day <= today /\ \A d \in (0 .. day - 1) \ reader[c].missed : d \in backfill.days \/ memo[d] # NotYet
      BY <2>1, <2>3 DEF HistoryHolds
    <3>6. \A d \in (0 .. day - 1) \ (off \cup reader[c].missed) : counts[d] = Cardinality(beats[d])
      <4>1. ASSUME NEW d \in (0 .. day - 1) \ (off \cup reader[c].missed) PROVE counts[d] = Cardinality(beats[d])
        <5>1. d \in Days /\ d \notin off /\ (d \in backfill.days \/ memo[d] # NotYet)
          BY <3>3, <3>5
        <5>2. kept[d] # NotYet /\ kept[d] = Cardinality(beats[d])
          BY <1>3, <5>1
        <5>3. QED
          BY <3>3, <5>2
      <4>2. QED
        BY <4>1
    <3>7. HistoryHolds(reader[c])'
      <4>1. /\ reader'[c].stage = "counted" /\ reader'[c].day = day /\ reader'[c].counts = counts
            /\ reader'[c].missed = reader[c].missed
        BY <3>1, <3>4
      <4>2. today' = today /\ off' = off /\ beats' = beats
        BY <1>1
      <4> HIDE DEF day
      <4>3. QED
        BY <3>3, <3>5, <3>6, <4>1, <4>2 DEF HistoryHolds
    <3>8. NumberHolds(reader[c])'
      BY <3>1, <3>4 DEF NumberHolds
    <3>9. QED
      BY <3>1, <3>4, <3>7, <3>8
  <2>4. QED
    BY <2>2, <2>3
<1>7. ~SomebodyWaits'
  BY <1>6 DEF SomebodyWaits
<1>8. NoBackfill \in [days : SUBSET Days, todo : SUBSET Pieces, active : ActiveOnDays]
  BY DEF NoBackfill, ActiveOnDays
<1>9. StatsTyped'
  <2>1. StatsTyped
    BY DEF StatsInv
  <2>2. reader' \in [Callers -> AtWork]
    BY <1>1, <1>6
  <2>3. /\ memo' = kept /\ inflight' = NoCaller /\ backfill' = NoBackfill
        /\ world' = world /\ today' = today /\ beats' = beats /\ changes' = changes /\ cache' = cache /\ off' = off
    BY <1>1
  <2>4. QED
    BY <1>4, <1>8, <2>1, <2>2, <2>3 DEF StatsTyped
<1>10. CacheHolds' /\ BackfillHolds'
  BY <1>1 DEF StatsInv, CacheHolds, BackfillHolds
<1>11. QED
  BY <1>1, <1>5, <1>6, <1>7, <1>9, <1>10 DEF StatsInv

LEMMA BackfillThrowsKeeps ==
    ASSUME StatsInv, BackfillThrows
    PROVE  StatsInv'
<1> DEFINE r == [Rest EXCEPT !.stage = "refused"]
<1>1. /\ reader' = [c \in Callers |-> IF reader[c].stage = "waiting" THEN r ELSE reader[c]]
      /\ inflight' = NoCaller /\ backfill' = NoBackfill
      /\ UNCHANGED <<world, today, beats, changes, cache, memo, off>>
  BY DEF BackfillThrows, worldVars
<1>2. r \in AtWork /\ r.stage = "refused"
  BY RestIs DEF AtWork
<1> HIDE DEF r
<1>3. ASSUME NEW c \in Callers
      PROVE  /\ reader'[c] \in AtWork /\ reader'[c].stage # "waiting"
             /\ NumberHolds(reader[c])' /\ HistoryHolds(reader[c])'
  <2>1. reader[c] \in AtWork /\ NumberHolds(reader[c]) /\ HistoryHolds(reader[c])
    BY CallerIs
  <2>2. CASE reader[c].stage = "waiting"
    <3>1. reader'[c] \in AtWork /\ reader'[c].stage = "refused"
      BY <1>1, <1>2, <2>2
    <3>2. QED
      BY <3>1 DEF NumberHolds, HistoryHolds
  <2>3. CASE reader[c].stage # "waiting"
    <3>1. reader'[c] = reader[c]
      BY <1>1, <2>3
    <3>2. NumberHolds(reader[c])'
      BY <1>1, <2>1, <3>1 DEF NumberHolds
    <3>3. HistoryHolds(reader[c])'
      BY <1>1, <2>1, <2>3, <3>1 DEF HistoryHolds
    <3>4. QED
      BY <2>1, <2>3, <3>1, <3>2, <3>3
  <2>4. QED
    BY <2>2, <2>3
<1>4. NoBackfill \in [days : SUBSET Days, todo : SUBSET Pieces, active : ActiveOnDays]
  BY DEF NoBackfill, ActiveOnDays
<1>5. StatsTyped'
  <2>1. StatsTyped
    BY DEF StatsInv
  <2>2. reader' \in [Callers -> AtWork]
    BY <1>1, <1>3
  <2>3. /\ memo' = memo /\ inflight' = NoCaller /\ backfill' = NoBackfill
        /\ world' = world /\ today' = today /\ beats' = beats /\ changes' = changes /\ cache' = cache /\ off' = off
    BY <1>1
  <2>4. QED
    BY <1>4, <2>1, <2>2, <2>3 DEF StatsTyped
<1>6. ~SomebodyWaits'
  BY <1>3 DEF SomebodyWaits
<1>7. CacheHolds' /\ BackfillHolds' /\ MemoHolds'
  BY <1>1 DEF StatsInv, CacheHolds, BackfillHolds, MemoHolds
<1>8. QED
  BY <1>1, <1>3, <1>5, <1>6, <1>7 DEF StatsInv

(* A heartbeat of a day that is over comes late, and that day is set aside. *)
LEMMA BeatKeeps ==
    ASSUME StatsInv, NEW d \in Days, NEW e \in Pieces, Beat(d, e)
    PROVE  StatsInv'
<1>1. /\ changes < MaxChanges /\ changes' = changes + 1 /\ d <= today
      /\ beats' = [beats EXCEPT ![d] = @ \cup {e}]
      /\ off' = IF d < today THEN off \cup {d} ELSE off
      /\ UNCHANGED <<today, world, cache, reader, memo, inflight, backfill>>
  BY DEF Beat
<1>2. /\ beats \in [Days -> SUBSET Pieces] /\ off \subseteq Days /\ today \in Days /\ changes \in 0 .. MaxChanges
  BY DEF StatsInv, StatsTyped
<1>3. /\ beats' \in [Days -> SUBSET Pieces] /\ off \subseteq off' /\ off' \subseteq Days
      /\ \A b \in Days : b < today /\ b \notin off' => beats'[b] = beats[b]
  BY <1>1, <1>2
<1>4. changes' \in 0 .. MaxChanges
  <2>1. changes' = changes + 1 /\ changes < MaxChanges /\ changes \in 0 .. MaxChanges /\ MaxChanges \in Nat
    BY <1>1, <1>2, StatsAssumption
  <2>2. QED
    BY <2>1
<1>5. /\ today' = today /\ world' = world /\ cache' = cache /\ reader' = reader /\ memo' = memo
      /\ inflight' = inflight /\ backfill' = backfill
  BY <1>1
<1>6. StatsTyped'
  BY <1>3, <1>4, <1>5 DEF StatsInv, StatsTyped
<1>7. MemoHolds'
  BY <1>3, <1>5 DEF StatsInv, MemoHolds
<1>8. BackfillHolds'
  <2>1. \A b \in Past : b \in Days /\ b < today
    BY <1>2, DaysAre DEF Past
  <2>2. QED
    BY <1>3, <1>5, <2>1 DEF StatsInv, BackfillHolds, Past
<1>9. ASSUME NEW c \in Callers PROVE NumberHolds(reader[c])' /\ HistoryHolds(reader[c])'
  <2>1. NumberHolds(reader[c]) /\ HistoryHolds(reader[c]) /\ reader[c].day \in Days
    BY CallerIs DEF AtWork
  <2>2. NumberHolds(reader[c])'
    BY <1>5, <2>1 DEF NumberHolds
  <2>3. reader[c].day <= today => \A b \in 0 .. reader[c].day - 1 : b \in Days /\ b < today
    BY <1>2, <2>1, DaysAre
  <2>4. HistoryHolds(reader[c])'
    BY <1>3, <1>5, <2>1, <2>3 DEF HistoryHolds
  <2>5. QED
    BY <2>2, <2>4
<1>10. CacheHolds' /\ (SomebodyWaits' <=> SomebodyWaits)
  BY <1>5 DEF StatsInv, CacheHolds, SomebodyWaits
<1>11. QED
  BY <1>5, <1>6, <1>7, <1>8, <1>9, <1>10 DEF StatsInv

LEMMA MidnightKeeps ==
    ASSUME StatsInv, Midnight
    PROVE  StatsInv'
<1>1. /\ today < LastDay /\ today' = today + 1
      /\ UNCHANGED <<world, beats, changes, cache, reader, memo, inflight, backfill, off>>
  BY DEF Midnight
<1>2. /\ world' = world /\ beats' = beats /\ changes' = changes /\ cache' = cache /\ reader' = reader
      /\ memo' = memo /\ inflight' = inflight /\ backfill' = backfill /\ off' = off
  BY <1>1
<1>3. today \in Nat /\ today' \in Days
  BY <1>1, DaysAre DEF StatsInv, StatsTyped
<1>4. StatsTyped'
  BY <1>2, <1>3 DEF StatsInv, StatsTyped
<1>5. \A d \in Days : d < today => d < today'
  BY <1>1, <1>3, DaysAre
<1>6. MemoHolds'
  BY <1>2, <1>5 DEF StatsInv, MemoHolds
<1>7. Past \subseteq Past'
  BY <1>1, <1>3 DEF Past
<1>8. BackfillHolds'
  BY <1>2, <1>7 DEF StatsInv, BackfillHolds
<1>9. ASSUME NEW c \in Callers PROVE NumberHolds(reader[c])' /\ HistoryHolds(reader[c])'
  <2>1. NumberHolds(reader[c]) /\ HistoryHolds(reader[c]) /\ reader[c].day \in Days
    BY CallerIs DEF AtWork
  <2>2. NumberHolds(reader[c])'
    BY <1>2, <2>1 DEF NumberHolds
  <2>3. reader[c].day <= today => reader[c].day <= today'
    BY <1>1, <1>3, <2>1, DaysAre
  <2>4. HistoryHolds(reader[c])'
    BY <1>2, <2>1, <2>3 DEF HistoryHolds
  <2>5. QED
    BY <2>2, <2>4
<1>10. CacheHolds' /\ (SomebodyWaits' <=> SomebodyWaits)
  BY <1>2 DEF StatsInv, CacheHolds, SomebodyWaits
<1>11. QED
  BY <1>2, <1>4, <1>6, <1>8, <1>9, <1>10 DEF StatsInv

LEMMA RestartStatsKeeps ==
    ASSUME StatsInv, RestartStats
    PROVE  StatsInv'
<1>1. /\ cache' = [k \in Kinds |-> Void] /\ memo' = [d \in Days |-> NotYet]
      /\ inflight' = NoCaller /\ backfill' = NoBackfill /\ reader' = [c \in Callers |-> Rest]
      /\ UNCHANGED <<world, today, beats, changes, off>>
  BY DEF RestartStats, worldVars
<1>2. Void \in CacheEntry /\ Void.data = Nothing
  BY NothingIs DEF Void, CacheEntry
<1>3. NotYet \in NotYet .. Cardinality(Pieces)
  <2>1. Cardinality(Pieces) \in Nat
    BY StatsAssumption, FS_CardinalityType
  <2>2. QED
    BY <2>1 DEF NotYet
<1>4. NoBackfill \in [days : SUBSET Days, todo : SUBSET Pieces, active : ActiveOnDays]
  BY DEF NoBackfill, ActiveOnDays
<1>5. StatsTyped'
  BY <1>1, <1>2, <1>3, <1>4, RestIs DEF StatsInv, StatsTyped
<1>6. "schedule" \in Kinds /\ "lapse" \in Kinds
  BY DEF Kinds
<1>7. CacheHolds'
  BY <1>1, <1>2, <1>6, NothingIs DEF CacheHolds
<1>8. MemoHolds' /\ BackfillHolds' /\ ~SomebodyWaits'
  BY <1>1, RestIs DEF MemoHolds, BackfillHolds, SomebodyWaits
<1>9. ASSUME NEW c \in Callers PROVE NumberHolds(reader[c])' /\ HistoryHolds(reader[c])'
  <2>1. reader'[c].stage = "idle"
    BY <1>1, RestIs
  <2>2. QED
    BY <2>1 DEF NumberHolds, HistoryHolds
<1>10. QED
  BY <1>1, <1>5, <1>7, <1>8, <1>9 DEF StatsInv

-----------------------------------------------------------------------------
LEMMA StatsInvInit == StatsInit => StatsInv
<1> SUFFICES ASSUME StatsInit PROVE StatsInv
  OBVIOUS
<1>1. /\ world = [k \in Kinds |-> {}] /\ beats = [d \in Days |-> {}]
      /\ cache = [k \in Kinds |-> Void] /\ reader = [c \in Callers |-> Rest]
      /\ memo = [d \in Days |-> NotYet] /\ inflight = NoCaller /\ backfill = NoBackfill
      /\ today = 0 /\ off = {} /\ changes = 0
  BY DEF StatsInit
<1>2. Void \in CacheEntry /\ Void.data = Nothing
  BY NothingIs DEF Void, CacheEntry
<1>3. NotYet \in NotYet .. Cardinality(Pieces)
  <2>1. Cardinality(Pieces) \in Nat
    BY StatsAssumption, FS_CardinalityType
  <2>2. QED
    BY <2>1 DEF NotYet
<1>4. NoBackfill \in [days : SUBSET Days, todo : SUBSET Pieces, active : ActiveOnDays]
  BY DEF NoBackfill, ActiveOnDays
<1>5. changes \in 0 .. MaxChanges
  BY <1>1, StatsAssumption
<1>6. StatsTyped
  BY <1>1, <1>2, <1>3, <1>4, <1>5, RestIs, DaysAre DEF StatsTyped
<1>7. "schedule" \in Kinds /\ "lapse" \in Kinds
  BY DEF Kinds
<1>8. CacheHolds
  BY <1>1, <1>2, <1>7, NothingIs DEF CacheHolds
<1>9. MemoHolds /\ BackfillHolds /\ ~SomebodyWaits
  BY <1>1, RestIs DEF MemoHolds, BackfillHolds, SomebodyWaits
<1>10. \A c \in Callers : NumberHolds(reader[c]) /\ HistoryHolds(reader[c])
  BY <1>1, RestIs
<1>11. QED
  BY <1>1, <1>6, <1>8, <1>9, <1>10 DEF StatsInv

LEMMA StatsInvStep == StatsInv /\ [StatsNext]_statsVars => StatsInv'
<1> SUFFICES ASSUME StatsInv, [StatsNext]_statsVars PROVE StatsInv'
  OBVIOUS
<1>1. CASE HistoryNext
  <2>1. ASSUME NEW c \in Callers, AskHistory(c) PROVE StatsInv'
    BY <2>1, AskHistoryKeeps
  <2>2. ASSUME NEW e \in Pieces, ReadSpans(e) PROVE StatsInv'
    BY <2>2, ReadSpansKeeps
  <2>3. ASSUME NEW e \in Pieces, NEW d \in Days, Beat(d, e) PROVE StatsInv'
    BY <2>3, BeatKeeps
  <2>4. CASE KeepCounts
    BY <2>4, KeepCountsKeeps
  <2>5. CASE BackfillThrows
    BY <2>5, BackfillThrowsKeeps
  <2>6. CASE Midnight
    BY <2>6, MidnightKeeps
  <2>7. CASE RestartStats
    BY <2>7, RestartStatsKeeps
  <2>8. QED
    BY <1>1, <2>1, <2>2, <2>3, <2>4, <2>5, <2>6, <2>7 DEF HistoryNext
<1>2. ASSUME NEW k \in Kinds, NumberNext(k) PROVE StatsInv'
  <2>1. ASSUME NEW c \in Callers, Ask(c, k) PROVE StatsInv'
    BY <2>1, AskKeeps
  <2>2. ASSUME NEW c \in Callers, Finish(c) PROVE StatsInv'
    BY <2>2, FinishKeeps
  <2>3. ASSUME NEW c \in Callers, NEW e \in Pieces,
               CountUser(c, e) \/ SumHours(c, e) \/ ReadSignups(c, e) \/ ReadPerms(c, e) \/ ReadCalendar(c, e)
               \/ FindAccount(c, e) \/ RankBuilder(c, e)
        PROVE  StatsInv'
    BY <2>3, PieceKeeps
  <2>4. ASSUME NEW e \in Pieces, Change(k, e) PROVE StatsInv'
    BY <2>4, ChangeKeeps
  <2>5. CASE Expire(k)
    BY <2>5, ExpireKeeps
  <2>6. CASE RestartStats
    BY <2>6, RestartStatsKeeps
  <2>7. QED
    BY <1>2, <2>1, <2>2, <2>3, <2>4, <2>5, <2>6 DEF NumberNext
<1>3. CASE UNCHANGED statsVars
  <2>1. /\ world' = world /\ today' = today /\ beats' = beats /\ changes' = changes /\ cache' = cache
        /\ reader' = reader /\ memo' = memo /\ inflight' = inflight /\ backfill' = backfill /\ off' = off
    BY <1>3 DEF statsVars, worldVars
  <2>2. StatsTyped'
    BY <2>1 DEF StatsInv, StatsTyped
  <2>3. CacheHolds' /\ MemoHolds' /\ BackfillHolds' /\ (SomebodyWaits' <=> SomebodyWaits)
    BY <2>1 DEF StatsInv, CacheHolds, MemoHolds, BackfillHolds, SomebodyWaits, Past
  <2>4. ASSUME NEW c \in Callers PROVE NumberHolds(reader[c])' /\ HistoryHolds(reader[c])'
    BY <2>1, CallerIs DEF NumberHolds, HistoryHolds
  <2>5. QED
    BY <2>1, <2>2, <2>3, <2>4 DEF StatsInv
<1>4. QED
  BY <1>1, <1>2, <1>3 DEF StatsNext

LEMMA StatsInvHolds == StatsInv => StatsTypeOK /\ NumbersTrue
<1> SUFFICES ASSUME StatsInv PROVE StatsTypeOK /\ NumbersTrue
  OBVIOUS
<1>1. StatsTypeOK
  <2>1. StatsTyped
    BY DEF StatsInv
  <2>2. ASSUME NEW k \in Kinds PROVE cache[k].stage \in {"none", "fresh", "old"} /\ cache[k].data.got \subseteq Pieces
    <3>1. cache[k] \in CacheEntry
      BY <2>1 DEF StatsTyped
    <3>2. cache[k].stage \in {"none", "fresh", "old"} /\ cache[k].data \in Number
      BY <3>1 DEF CacheEntry
    <3>3. QED
      BY <3>2 DEF Number
  <2>3. ASSUME NEW c \in Callers
        PROVE  /\ reader[c].stage \in {"idle", "reading", "waiting", "served", "counted", "refused"}
               /\ reader[c].kind \in Kinds \cup {"none", "history"} /\ reader[c].day \in Days
    BY CallerIs DEF AtWork
  <2>4. QED
    BY <2>1, <2>2, <2>3 DEF StatsTyped, StatsTypeOK
<1>2. ASSUME NEW c \in Callers
      PROVE  /\ reader[c].stage = "counted" => \A d \in DOMAIN reader[c].counts \ (off \cup reader[c].missed) :
                    reader[c].counts[d] = Cardinality(beats[d])
             /\ reader[c].stage = "served" =>
                    /\ reader[c].data.got \subseteq reader[c].data.ever
                    /\ reader[c].data.whole => reader[c].data.always \subseteq reader[c].data.got
  BY CallerIs DEF NumberHolds, HistoryHolds, Truthful
<1>3. cache["schedule"].data.whole /\ cache["lapse"].data.whole
  BY DEF StatsInv, CacheHolds
<1>4. (inflight # NoCaller) = (\E c \in Callers : reader[c].stage = "waiting")
  <2>1. inflight # NoCaller <=> SomebodyWaits
    BY DEF StatsInv
  <2>2. QED
    BY <2>1, ZenonT(30) DEF SomebodyWaits
<1>5. NumbersTrue
  BY <1>2, <1>3, <1>4 DEF NumbersTrue
<1>6. QED
  BY <1>1, <1>5

(* The inductive invariant of the numbers.                                  *)
THEOREM StatsInvariant == StatsSpec => []StatsInv
  BY StatsInvInit, StatsInvStep, PTL DEF StatsSpec

(* Caches, requests and counts have their shape (getDauHistory,             *)
(* getDailyActiveUsers, getLeaderboard, getSchedule, findForProject).       *)
THEOREM StatsTypeCorrect == StatsSpec => []StatsTypeOK
  BY StatsInvariant, StatsInvHolds, PTL

(* The count of a day that is over is that day's, and a number read in full *)
(* was true while it was read (getDauHistory and the cached reads), for any *)
(* number of callers, pieces and days.                                      *)
THEOREM NumbersStayTrue == StatsSpec => []NumbersTrue
  BY StatsInvariant, StatsInvHolds, PTL

(***************************************************************************)
(* Queue.  No two ships are made at one instant, so the queue's order is   *)
(* strict and total and has one list: each project stands at the place     *)
(* that the number of those before it gives.  A client that is followed    *)
(* has all that stayed in its list and stands before its offset.           *)
(***************************************************************************)
QueueStatuses == {"unshipped", "unreviewed", "fraud_pending", "approved"} \cup Against \cup {"rejected"}
QueueEntry == [golden: BOOLEAN, status: QueueStatuses]
Submission == [at: 1 .. MaxClock, status: {"unreviewed", "approved", "rejected"} \cup Against]
QueueClient == [stage: {"idle", "counted", "reading", "done"}, filter: {"pending", "pending_hq"},
                offset: Nat, total: Nat, got: SUBSET QueueProjects, stayed: SUBSET QueueProjects]

RowsTyped ==
    /\ entries \in [QueueProjects -> QueueEntry]
    /\ shipped \in [QueueProjects -> Seq(Submission)]
    /\ clock \in Nat /\ clock + Cardinality(halfway) <= MaxClock
    /\ halfway \in SUBSET QueueProjects /\ cut \in SUBSET QueueProjects
QueueTyped == RowsTyped /\ client \in QueueClient

(* Submissions carry the time they were made at, no two the same.           *)
Dated ==
    /\ \A p \in QueueProjects : \A s \in DOMAIN shipped[p] : shipped[p][s].at <= clock
    /\ \A p \in QueueProjects : \A s, t \in DOMAIN shipped[p] :
            s < t => shipped[p][s].at < shipped[p][t].at
    /\ \A p, q \in QueueProjects : p # q =>
            \A s \in DOMAIN shipped[p], t \in DOMAIN shipped[q] : shipped[p][s].at # shipped[q][t].at

(* But for ships on their way or cut short, what is queued has a newest     *)
(* submission, which in the first queue is open.                            *)
Carried(p) ==
    /\ entries[p].status = "unreviewed" => shipped[p] # <<>> /\ Last(shipped[p]).status = "unreviewed"
    /\ entries[p].status = "fraud_pending" => shipped[p] # <<>>
QueuedCarry == \A p \in QueueProjects \ (halfway \cup cut) : Carried(p)

(* Of what stayed in the client's list, it has all that stands before its   *)
(* offset.                                                                  *)
Ahead(S, p) == {q \in S : Waits(q, p)}
CaughtUp ==
    /\ client.stayed \subseteq Listed(client.filter)
    /\ client.offset <= Cardinality(Listed(client.filter))
    /\ client.stage = "counted" => client.total = Cardinality(Listed(client.filter))
    /\ \A p \in client.stayed :
            Cardinality(Ahead(Listed(client.filter), p)) < client.offset => p \in client.got
Reading == client.stage \in {"counted", "reading"} => CaughtUp

QueueInv ==
    /\ QueueTyped /\ Dated /\ QueuedCarry /\ Reading
    /\ client.offset <= Cardinality(QueueProjects)
    /\ PagesComplete

-----------------------------------------------------------------------------
(* A finite set with a strict total order can be listed in that order: each *)
(* stands at the place given by the number of those before it.              *)
LEMMA ListExists ==
  ASSUME NEW S, IsFiniteSet(S), NEW R,
         \A p \in S : <<p, p>> \notin R,
         \A p, q \in S : p # q => <<p, q>> \in R \/ <<q, p>> \in R,
         \A p, q, r \in S : <<p, q>> \in R /\ <<q, r>> \in R => <<p, r>> \in R
  PROVE  \E list \in [1 .. Cardinality(S) -> S] :
            \A j, k \in DOMAIN list : j < k => <<list[j], list[k]>> \in R
<1> DEFINE n == Cardinality(S)
           below(p) == {q \in S : <<q, p>> \in R}
           place == [p \in S |-> Cardinality(below(p)) + 1]
           list == [k \in 1 .. n |-> CHOOSE p \in S : place[p] = k]
<1>1. n \in Nat
  BY FS_CardinalityType
<1>2. ASSUME NEW p \in S
      PROVE  IsFiniteSet(below(p)) /\ Cardinality(below(p)) \in Nat /\ Cardinality(below(p)) < n
  <2>1. below(p) \subseteq S /\ p \notin below(p)
    OBVIOUS
  <2> HIDE DEF below
  <2>2. QED
    BY <2>1, <1>1, FS_Subset, FS_CardinalityType
<1>3. ASSUME NEW p \in S, NEW q \in S, <<p, q>> \in R
      PROVE  place[p] < place[q]
  <2>1. below(p) \subseteq below(q) /\ p \in below(q) /\ p \notin below(p)
    BY <1>3
  <2>2. IsFiniteSet(below(q)) /\ Cardinality(below(p)) \in Nat /\ Cardinality(below(q)) \in Nat
    BY <1>2
  <2> HIDE DEF below
  <2>3. Cardinality(below(p)) < Cardinality(below(q))
    BY <2>1, <2>2, FS_Subset
  <2>4. QED
    BY <2>2, <2>3
<1>4. place \in [S -> 1 .. n]
  <2> HIDE DEF below
  <2>1. \A p \in S : Cardinality(below(p)) + 1 \in 1 .. n
    BY <1>1, <1>2
  <2>2. QED
    BY <2>1
<1> HIDE DEF place
<1>5. \A p, q \in S : p # q => place[p] # place[q]
  <2> TAKE p \in S, q \in S
  <2> HAVE p # q
  <2>1. place[p] \in Int /\ place[q] \in Int
    BY <1>1, <1>4
  <2>2. <<p, q>> \in R \/ <<q, p>> \in R
    OBVIOUS
  <2>3. CASE <<p, q>> \in R
    <3>1. place[p] < place[q]
      BY <2>3, <1>3
    <3>2. QED
      BY <2>1, <3>1
  <2>4. CASE <<q, p>> \in R
    <3>1. place[q] < place[p]
      BY <2>4, <1>3
    <3>2. QED
      BY <2>1, <3>1
  <2>5. QED
    BY <2>2, <2>3, <2>4
<1>6. place \in Injection(S, 1 .. n)
  BY <1>4, <1>5 DEF Injection, IsInjective
<1>7. IsFiniteSet(1 .. n) /\ Cardinality(1 .. n) = n
  BY <1>1, FS_Interval
<1>8. place \in Surjection(S, 1 .. n)
  BY <1>1, <1>6, <1>7, FS_Injection
<1>9. \A k \in 1 .. n : list[k] \in S /\ place[list[k]] = k
  BY <1>8 DEF Surjection
<1>10. ASSUME NEW j \in 1 .. n, NEW k \in 1 .. n, j < k
       PROVE  <<list[j], list[k]>> \in R
  <2> DEFINE p == list[j]
             q == list[k]
  <2>1. p \in S /\ q \in S /\ place[p] = j /\ place[q] = k
    BY <1>9
  <2> HIDE DEF p, q
  <2>2. p # q /\ <<q, p>> \notin R
    BY <2>1, <1>1, <1>3, <1>10
  <2>3. <<p, q>> \in R
    BY <2>1, <2>2
  <2>4. QED
    BY <2>3 DEF p, q
<1>11. list \in [1 .. n -> S] /\ DOMAIN list = 1 .. n
  BY <1>9
<1>12. QED
  BY <1>10, <1>11

(* The order of the queue: strict and total, whatever was shipped when.     *)
LEMMA LastShipType ==
  ASSUME QueueTyped, NEW p \in QueueProjects
  PROVE  LastShip(p) \in Nat
<1>1. shipped[p] \in Seq(Submission) /\ MaxClock \in Nat
  BY QueueAssumption DEF QueueTyped, RowsTyped
<1>2. CASE shipped[p] = <<>>
  BY <1>1, <1>2 DEF LastShip, Never
<1>3. CASE shipped[p] # <<>>
  <2>1. Len(shipped[p]) \in 1 .. Len(shipped[p])
    BY <1>1, <1>3
  <2>2. shipped[p][Len(shipped[p])] \in Submission
    BY <1>1, <2>1
  <2>3. QED
    BY <1>1, <1>3, <2>2 DEF LastShip, Last, Submission
<1>4. QED
  BY <1>2, <1>3

LEMMA WaitsStrict ==
  ASSUME QueueTyped
  PROVE  /\ \A p \in QueueProjects : ~Waits(p, p)
         /\ \A p, q \in QueueProjects : p # q => Waits(p, q) \/ Waits(q, p)
         /\ \A p, q, r \in QueueProjects : Waits(p, q) /\ Waits(q, r) => Waits(p, r)
<1>1. \A p \in QueueProjects : LastShip(p) \in Nat /\ MadeAt[p] \in Nat /\ Golden(p) \in BOOLEAN
  BY LastShipType, QueueAssumption DEF Golden
<1>2. \A p, q \in QueueProjects : MadeAt[p] = MadeAt[q] => p = q
  BY QueueAssumption
<1>3. \A p \in QueueProjects : ~Waits(p, p)
  BY <1>1 DEF Waits
<1>4. ASSUME NEW p \in QueueProjects, NEW q \in QueueProjects, p # q
      PROVE  Waits(p, q) \/ Waits(q, p)
  <2>1. MadeAt[p] # MadeAt[q]
    BY <1>2, <1>4
  <2>2. QED
    BY <1>1, <2>1 DEF Waits
<1>5. ASSUME NEW p \in QueueProjects, NEW q \in QueueProjects, NEW r \in QueueProjects,
             Waits(p, q), Waits(q, r)
      PROVE  Waits(p, r)
  BY <1>1, <1>5 DEF Waits
<1>6. QED
  BY <1>3, <1>4, <1>5

LEMMA QueueFinite == ASSUME NEW S \in SUBSET QueueProjects
                     PROVE  IsFiniteSet(S) /\ Cardinality(S) \in Nat
                            /\ Cardinality(S) <= Cardinality(QueueProjects)
BY QueueAssumption, FS_Subset, FS_CardinalityType

(* A project's rank, and that the ranks are 1 .. Cardinality(S).            *)
Place(S, p) == Cardinality(Ahead(S, p)) + 1

LEMMA PlacesGrow ==
  ASSUME QueueTyped, NEW S \in SUBSET QueueProjects, NEW p \in S, NEW q \in S, Waits(p, q)
  PROVE  Place(S, p) < Place(S, q)
<1>1. Ahead(S, p) \in SUBSET S /\ Ahead(S, q) \in SUBSET S
  BY DEF Ahead
<1>2. IsFiniteSet(Ahead(S, q)) /\ Cardinality(Ahead(S, p)) \in Nat /\ Cardinality(Ahead(S, q)) \in Nat
  BY <1>1, QueueFinite
<1>3. Ahead(S, p) \subseteq Ahead(S, q) /\ p \in Ahead(S, q) /\ p \notin Ahead(S, p)
  BY WaitsStrict DEF Ahead
<1>4. Cardinality(Ahead(S, p)) < Cardinality(Ahead(S, q))
  BY <1>2, <1>3, FS_Subset
<1>5. QED
  BY <1>2, <1>4 DEF Place

LEMMA PlacesRange ==
  ASSUME QueueTyped, NEW S \in SUBSET QueueProjects, NEW p \in S
  PROVE  Place(S, p) \in 1 .. Cardinality(S)
<1>1. Ahead(S, p) \subseteq S /\ p \notin Ahead(S, p)
  BY WaitsStrict DEF Ahead
<1>2. IsFiniteSet(S) /\ Cardinality(S) \in Nat /\ Cardinality(Ahead(S, p)) \in Nat
  BY <1>1, QueueFinite
<1>3. Cardinality(Ahead(S, p)) < Cardinality(S)
  BY <1>1, <1>2, FS_Subset
<1>4. QED
  BY <1>2, <1>3 DEF Place

LEMMA InOrderSorts ==
  ASSUME QueueTyped, NEW S \in SUBSET QueueProjects
  PROVE  /\ InOrder(S) \in [1 .. Cardinality(S) -> S]
         /\ \A j, k \in 1 .. Cardinality(S) : j < k => Waits(InOrder(S)[j], InOrder(S)[k])
<1> DEFINE Is(list) == \A j, k \in DOMAIN list : j < k => Waits(list[j], list[k])
           list == CHOOSE l \in [1 .. Cardinality(S) -> S] : Is(l)
<1>1. \E l \in [1 .. Cardinality(S) -> S] : Is(l)
  <2> DEFINE R == {pq \in S \X S : Waits(pq[1], pq[2])}
  <2>1. \A p, q \in S : <<p, q>> \in R <=> Waits(p, q)
    OBVIOUS
  <2>2. IsFiniteSet(S)
    BY QueueFinite
  <2> HIDE DEF R
  <2>3. PICK l \in [1 .. Cardinality(S) -> S] :
            \A j, k \in DOMAIN l : j < k => <<l[j], l[k]>> \in R
    BY <2>1, <2>2, WaitsStrict, ListExists
  <2>4. Is(l)
    BY <2>1, <2>3
  <2>5. QED
    BY <2>4
<1>2. InOrder(S) = list
  BY DEF InOrder
<1>3. list \in [1 .. Cardinality(S) -> S] /\ Is(list)
  <2> HIDE DEF Is
  <2> QED
    BY <1>1
<1>4. QED
  BY <1>2, <1>3

(* The kth of the list is the one of rank k.                                *)
LEMMA InPlace ==
  ASSUME QueueTyped, NEW S \in SUBSET QueueProjects
  PROVE  /\ \A k \in 1 .. Cardinality(S) : Place(S, InOrder(S)[k]) = k
         /\ \A p \in S : InOrder(S)[Place(S, p)] = p
<1> DEFINE n == Cardinality(S)
           list == InOrder(S)
<1>1. list \in [1 .. n -> S] /\ \A j, k \in 1 .. n : j < k => Waits(list[j], list[k])
  BY InOrderSorts
<1>2. IsFiniteSet(S) /\ n \in Nat /\ IsFiniteSet(1 .. n) /\ Cardinality(1 .. n) = n
  BY QueueFinite, FS_Interval
<1> HIDE DEF list, n
<1>3. ASSUME NEW j \in 1 .. n, NEW k \in 1 .. n, j # k
      PROVE  list[j] # list[k]
  <2>1. list[j] \in S /\ list[k] \in S
    BY <1>1
  <2>2. Waits(list[j], list[k]) \/ Waits(list[k], list[j])
    BY <1>1, <1>2, <1>3
  <2>3. QED
    BY <2>1, <2>2, WaitsStrict
<1>4. list \in Injection(1 .. n, S)
  BY <1>1, <1>3 DEF Injection, IsInjective
<1>5. list \in Surjection(1 .. n, S)
  <2>1. Cardinality(1 .. n) = Cardinality(S)
    BY <1>2 DEF n
  <2>2. QED
    BY <1>2, <1>4, <2>1, FS_Injection
<1>6. ASSUME NEW k \in 1 .. n PROVE Place(S, list[k]) = k
  <2> DEFINE before == Ahead(S, list[k])
             f == [j \in 1 .. k - 1 |-> list[j]]
  <2>1. k - 1 \in Nat /\ 1 .. k - 1 \subseteq 1 .. n
    BY <1>2
  <2>2. ASSUME NEW j \in 1 .. k - 1 PROVE list[j] \in before
    <3>1. j \in 1 .. n /\ j < k
      BY <2>1, <1>2
    <3>2. QED
      BY <1>1, <3>1 DEF Ahead
  <2>3. ASSUME NEW q \in before PROVE \E j \in 1 .. k - 1 : f[j] = q
    <3>1. q \in S /\ Waits(q, list[k])
      BY DEF Ahead
    <3>2. PICK j \in 1 .. n : list[j] = q
      BY <1>5, <3>1 DEF Surjection
    <3>3. list[k] \in S
      BY <1>1
    <3>4. j # k
      BY <3>1, <3>2, <3>3, WaitsStrict
    <3>5. ~(k < j)
      BY <1>1, <3>1, <3>2, <3>3, WaitsStrict
    <3>6. j \in 1 .. k - 1
      BY <3>4, <3>5, <1>2
    <3>7. QED
      BY <3>2, <3>6
  <2>4. f \in Bijection(1 .. k - 1, before)
    <3>1. f \in [1 .. k - 1 -> before]
      BY <2>2
    <3>2. f \in Surjection(1 .. k - 1, before)
      BY <3>1, <2>3 DEF Surjection
    <3>3. f \in Injection(1 .. k - 1, before)
      BY <3>1, <1>3, <2>1 DEF Injection, IsInjective
    <3>4. QED
      BY <3>2, <3>3 DEF Bijection
  <2>5. Cardinality(before) = k - 1
    <3>1. ExistsBijection(1 .. k - 1, before)
      BY <2>4 DEF ExistsBijection
    <3> HIDE DEF before
    <3>2. QED
      BY <2>1, <3>1, FS_CountingElements
  <2>6. QED
    BY <2>5, <1>2 DEF Place
<1>7. ASSUME NEW p \in S PROVE list[Place(S, p)] = p
  <2>1. PICK k \in 1 .. n : list[k] = p
    BY <1>5 DEF Surjection
  <2>2. QED
    BY <2>1, <1>6
<1>8. QED
  BY <1>6, <1>7 DEF list, n

(* A page of the list is what has its ranks.                                *)
LEMMA PageHas ==
  ASSUME QueueTyped, NEW S \in SUBSET QueueProjects, NEW offset \in Nat,
         offset <= Cardinality(S)
  PROVE  LET part == Slice(InOrder(S), offset, PageSize) IN
         /\ part \subseteq S /\ Cardinality(part) \in Nat
         /\ offset + Cardinality(part) <= Cardinality(S)
         /\ \A p \in S : Place(S, p) \in offset + 1 .. offset + Cardinality(part) => p \in part
<1> DEFINE n == Cardinality(S)
           list == InOrder(S)
           part == Slice(list, offset, PageSize)
           ranks == (offset + 1 .. offset + PageSize) \cap (1 .. n)
           f == [k \in ranks |-> list[k]]
<1>1. list \in [1 .. n -> S] /\ DOMAIN list = 1 .. n
  BY InOrderSorts
<1>2. n \in Nat /\ PageSize \in Nat /\ PageSize > 0
  BY QueueFinite, QueueAssumption
<1>3. part = {list[k] : k \in ranks}
  BY <1>1 DEF Slice
<1> HIDE DEF list, n, part
<1>4. part \subseteq S
  BY <1>1, <1>3
<1> DEFINE last == IF offset + PageSize <= n THEN offset + PageSize ELSE n
<1>5. last \in Nat /\ last <= n /\ last <= offset + PageSize /\ offset <= last
  BY <1>2 DEF n
<1>6. ranks = offset + 1 .. last
  BY <1>2
<1>7. IsFiniteSet(ranks) /\ Cardinality(ranks) = last - offset
  <2>1. offset + 1 \in Int /\ last \in Int
    BY <1>5
  <2> HIDE DEF last, ranks
  <2>2. IsFiniteSet(offset + 1 .. last)
        /\ Cardinality(offset + 1 .. last) = IF offset + 1 > last THEN 0 ELSE last - (offset + 1) + 1
    BY <2>1, FS_Interval
  <2>3. QED
    BY <1>5, <1>6, <2>2
<1>8. f \in Surjection(ranks, part)
  BY <1>3 DEF Surjection
<1> HIDE DEF ranks, last, f
<1>9. Cardinality(part) <= last - offset /\ IsFiniteSet(part)
  BY <1>7, <1>8, FS_Surjection
<1>10. Cardinality(part) \in Nat
  BY <1>9, FS_CardinalityType
<1>11. ASSUME NEW p \in S, Place(S, p) \in offset + 1 .. offset + Cardinality(part)
       PROVE  p \in part
  <2>1. Place(S, p) \in offset + 1 .. last
    BY <1>11, <1>9, <1>10, <1>5
  <2>2. Place(S, p) \in ranks
    BY <2>1, <1>6
  <2>3. list[Place(S, p)] = p
    BY InPlace DEF list
  <2>4. QED
    BY <2>2, <2>3, <1>3
<1>12. offset + Cardinality(part) <= n
  BY <1>2, <1>5, <1>9, <1>10
<1>13. QED
  BY <1>4, <1>10, <1>11, <1>12 DEF part, list, n

-----------------------------------------------------------------------------
(* A client that is not disturbed stays caught up: its list may only grow,  *)
(* and nothing in it changes places.                                        *)
LEMMA ClientFollows ==
  ASSUME QueueTyped, Reading, PagesComplete, client.offset <= Cardinality(QueueProjects), Seen
  PROVE  /\ client' \in QueueClient /\ Reading' /\ PagesComplete'
         /\ client'.offset <= Cardinality(QueueProjects)
<1>1. client \in QueueClient /\ Cardinality(QueueProjects) \in Nat
  BY QueueFinite DEF QueueTyped, RowsTyped
<1>2. CASE client' = Idle
  <2>1. client' \in QueueClient /\ client'.stage = "idle" /\ client'.offset = 0
    BY <1>2 DEF Idle, QueueClient
  <2>2. QED
    BY <1>1, <2>1 DEF Reading, PagesComplete
<1>3. CASE client' # Idle
  <2> DEFINE L == Listed(client.filter)
  <2>1. PICK filter \in {client.filter} :
            /\ client' = client /\ client.stage \in {"counted", "reading"}
            /\ Listed(filter) \subseteq Listed(filter)'
            /\ client.stage = "counted" => Listed(filter)' \subseteq Listed(filter)
            /\ \A p, q \in Listed(filter) \cap Listed(filter)' : Waits(p, q) = Waits(p, q)'
    BY <1>3 DEF Seen
  <2>2. filter = client.filter /\ client' = client
    BY <2>1
  <2>3. PICK M \in SUBSET QueueProjects : Listed(filter)' = M /\ Listed(client.filter)' = M
    <3>1. Listed(filter)' = Listed(client.filter)'
      BY <2>2 DEF Listed, In
    <3>2. Listed(filter)' \in SUBSET QueueProjects
      BY DEF Listed, In
    <3>3. QED
      BY <3>1, <3>2
  <2>4. L \in SUBSET QueueProjects
    BY DEF Listed, In
  <2>5. /\ L \subseteq M
        /\ client.stage = "counted" => L = M
        /\ \A p, q \in L : Waits(p, q) = Waits(p, q)'
    BY <2>1, <2>2, <2>3
  <2>6. CaughtUp
    BY <2>1 DEF Reading
  <2> HIDE DEF L
  <2>7. /\ Cardinality(L) <= Cardinality(M) /\ Cardinality(L) \in Nat /\ Cardinality(M) \in Nat
    BY <2>4, <2>5, QueueFinite, FS_Subset
  <2>8. ASSUME NEW p \in client.stayed, Cardinality(Ahead(M, p)') < client.offset
        PROVE  p \in client.got
    <3>1. p \in L
      BY <2>6 DEF CaughtUp, L
    <3>2. Ahead(L, p) \subseteq Ahead(M, p)'
      BY <2>5, <3>1 DEF Ahead
    <3>3. Ahead(M, p)' \in SUBSET QueueProjects /\ Ahead(L, p) \in SUBSET QueueProjects
      BY <2>4 DEF Ahead
    <3>4. Cardinality(Ahead(L, p)) <= Cardinality(Ahead(M, p)')
          /\ Cardinality(Ahead(L, p)) \in Nat /\ Cardinality(Ahead(M, p)') \in Nat
      BY <3>2, <3>3, QueueFinite, FS_Subset
    <3>5. client.offset \in Nat
      BY <1>1 DEF QueueClient
    <3>6. Cardinality(Ahead(L, p)) < client.offset
      BY <2>8, <3>4, <3>5
    <3>7. QED
      BY <2>6, <3>6 DEF CaughtUp, L
  <2>9. CaughtUp'
    <3>1. client.stayed \subseteq M
      BY <2>5, <2>6 DEF CaughtUp, L
    <3>2. client.offset <= Cardinality(M)
      BY <2>6, <2>7, <1>1 DEF CaughtUp, L, QueueClient
    <3>3. client.stage = "counted" => client.total = Cardinality(M)
      BY <2>5, <2>6 DEF CaughtUp, L
    <3>4. QED
      BY <2>2, <2>3, <2>8, <3>1, <3>2, <3>3 DEF CaughtUp, Ahead
  <2>10. QED
    BY <1>1, <2>1, <2>9 DEF Reading, PagesComplete
<1>4. QED
  BY <1>2, <1>3

(* A page read keeps the client caught up, and the last page completes it.  *)
LEMMA ClientReads ==
  ASSUME QueueTyped, Reading, PagesComplete, client.offset <= Cardinality(QueueProjects), ReadPage
  PROVE  /\ client' \in QueueClient /\ Reading' /\ PagesComplete'
         /\ client'.offset <= Cardinality(QueueProjects)
<1> DEFINE L == Listed(client.filter)
           part == Slice(InOrder(L), client.offset, PageSize)
           offset == client.offset + Cardinality(part)
           stage == IF offset < client.total THEN "reading" ELSE "done"
<1>1. client \in QueueClient /\ client.stage = "counted" /\ CaughtUp
  BY DEF QueueTyped, RowsTyped, ReadPage, Reading
<1>2. L \in SUBSET QueueProjects
  BY DEF Listed, In
<1>3. client.offset \in Nat /\ client.offset <= Cardinality(L) /\ client.total = Cardinality(L)
  BY <1>1 DEF CaughtUp, QueueClient
<1>4. /\ part \subseteq L /\ Cardinality(part) \in Nat
      /\ offset <= Cardinality(L)
      /\ \A p \in L : Place(L, p) \in client.offset + 1 .. offset => p \in part
  <2> HIDE DEF L
  <2>1. QED
    BY <1>2, <1>3, PageHas
<1>5. client' = [client EXCEPT !.got = @ \cup part, !.offset = offset, !.stage = stage]
  BY DEF ReadPage
<1>6. UNCHANGED <<entries, shipped>>
  BY DEF ReadPage
<1>7. /\ Listed(client.filter)' = L
      /\ \A p \in QueueProjects : Ahead(Listed(client.filter), p)' = Ahead(L, p)
  <2>1. client'.filter = client.filter
    BY <1>1, <1>5 DEF QueueClient
  <2>2. Listed(client.filter)' = L
    BY <2>1, <1>6 DEF Listed, In
  <2>3. ASSUME NEW p \in QueueProjects PROVE Ahead(Listed(client.filter), p)' = Ahead(L, p)
    BY <2>2, <1>6 DEF Ahead, Waits, Golden, LastShip
  <2>4. QED
    BY <2>2, <2>3
<1> HIDE DEF L, part, offset, stage
<1>8. /\ client'.filter = client.filter /\ client'.total = client.total
      /\ client'.stayed = client.stayed /\ client'.got = client.got \cup part
      /\ client'.offset = offset /\ client'.stage = stage
  BY <1>1, <1>5 DEF QueueClient
<1>9. offset \in Nat /\ Cardinality(L) \in Nat /\ Cardinality(L) <= Cardinality(QueueProjects)
      /\ Cardinality(QueueProjects) \in Nat
  BY <1>2, <1>3, <1>4, QueueFinite DEF offset
<1>10. client' \in QueueClient
  <2>1. stage \in {"reading", "done"} /\ client.got \cup part \in SUBSET QueueProjects
    BY <1>1, <1>2, <1>4 DEF stage, QueueClient
  <2>2. QED
    BY <1>1, <1>5, <1>9, <2>1 DEF QueueClient
<1>11. ASSUME NEW p \in client.stayed, Cardinality(Ahead(L, p)) < offset
       PROVE  p \in client'.got
  <2>1. p \in L
    BY <1>1 DEF CaughtUp, L
  <2>2. Cardinality(Ahead(L, p)) \in Nat
    BY <1>2, QueueFinite DEF Ahead
  <2>3. CASE Cardinality(Ahead(L, p)) < client.offset
    BY <2>3, <1>1, <1>8 DEF CaughtUp, L
  <2>4. CASE ~(Cardinality(Ahead(L, p)) < client.offset)
    <3>1. Place(L, p) \in client.offset + 1 .. offset
      BY <2>2, <2>4, <1>3, <1>9, <1>11 DEF Place
    <3>2. QED
      BY <3>1, <2>1, <1>4, <1>8
  <2>5. QED
    BY <2>3, <2>4
<1>12. ASSUME client'.stage \in {"counted", "reading"} PROVE CaughtUp'
  <2>1. client'.stage = "reading"
    BY <1>8, <1>12 DEF stage
  <2>2. client'.stayed \subseteq Listed(client.filter)'
    BY <1>1, <1>7, <1>8 DEF CaughtUp, L
  <2>3. client'.offset <= Cardinality(Listed(client.filter)')
    BY <1>4, <1>7, <1>8
  <2>4. ASSUME NEW p \in client'.stayed, Cardinality(Ahead(Listed(client.filter), p)') < client'.offset
        PROVE  p \in client'.got
    <3>1. p \in QueueProjects /\ p \in client.stayed
      BY <1>1, <1>8, <2>4 DEF QueueClient
    <3>2. Ahead(Listed(client.filter), p)' = Ahead(L, p)
      BY <1>7, <3>1
    <3>3. QED
      BY <3>1, <3>2, <2>4, <1>8, <1>11
  <2>5. QED
    BY <2>1, <2>2, <2>3, <2>4 DEF CaughtUp
<1>13. PagesComplete'
  <2> SUFFICES ASSUME client'.stage = "done", NEW p \in client'.stayed PROVE p \in client'.got
    BY DEF PagesComplete
  <2>1. ~(offset < Cardinality(L))
    BY <1>3, <1>8 DEF stage
  <2>2. p \in L /\ p \in client.stayed
    BY <1>1, <1>8 DEF CaughtUp, L
  <2>3. Place(L, p) \in 1 .. Cardinality(L)
    BY <1>2, <2>2, PlacesRange
  <2>4. Cardinality(Ahead(L, p)) \in Nat
    BY <1>2, QueueFinite DEF Ahead
  <2>5. Cardinality(Ahead(L, p)) < offset
    BY <2>1, <2>3, <2>4, <1>9 DEF Place
  <2>6. QED
    BY <2>2, <2>5, <1>11
<1>14. QED
  BY <1>4, <1>8, <1>9, <1>10, <1>12, <1>13 DEF Reading

LEMMA ClientAsks ==
  ASSUME QueueTyped, Reading, client.offset <= Cardinality(QueueProjects),
         NEW filter \in {"pending", "pending_hq"}, CountPage(filter) \/ NextPage(filter)
  PROVE  /\ client' \in QueueClient /\ Reading' /\ PagesComplete'
         /\ client'.offset <= Cardinality(QueueProjects)
<1> DEFINE n == Cardinality(Listed(filter))
<1>1. client \in QueueClient /\ Listed(filter) \in SUBSET QueueProjects
      /\ Cardinality(QueueProjects) \in Nat /\ n \in Nat
  <2>1. Listed(filter) \in SUBSET QueueProjects
    BY DEF Listed, In
  <2>2. QED
    BY <2>1, QueueFinite DEF QueueTyped, RowsTyped
<1>2. UNCHANGED <<entries, shipped>>
  BY DEF CountPage, NextPage
<1>3. Listed(filter)' = Listed(filter)
  BY <1>2 DEF Listed, In
<1>4. CASE client' = Idle
  <2>1. client' \in QueueClient /\ client'.stage = "idle" /\ client'.offset = 0
    BY <1>4 DEF Idle, QueueClient
  <2>2. QED
    BY <1>1, <2>1 DEF Reading, PagesComplete
<1>5. CASE CountPage(filter)
  <2>1. client' = [Idle EXCEPT !.stage = "counted", !.filter = filter, !.total = n,
                               !.stayed = Listed(filter)]
    BY <1>5 DEF CountPage
  <2> HIDE DEF n
  <2>2. /\ client'.stage = "counted" /\ client'.filter = filter /\ client'.total = n
        /\ client'.offset = 0 /\ client'.stayed = Listed(filter)
    BY <2>1 DEF Idle
  <2>3. client' \in QueueClient
    BY <2>1, <1>1 DEF Idle, QueueClient
  <2>4. Listed(client.filter)' = Listed(filter)
    BY <2>2, <1>2 DEF Listed, In
  <2>5. ASSUME NEW p \in client'.stayed PROVE ~(Cardinality(Ahead(Listed(client.filter), p)') < 0)
    <3>1. Ahead(Listed(client.filter), p)' \in SUBSET QueueProjects
      BY <2>4, <1>1 DEF Ahead
    <3>2. QED
      BY <3>1, QueueFinite
  <2>6. CaughtUp'
    BY <2>2, <2>4, <2>5, <1>1 DEF CaughtUp, n
  <2>7. QED
    BY <1>1, <2>2, <2>3, <2>6 DEF Reading, PagesComplete
<1>6. CASE NextPage(filter) /\ client' # Idle
  <2>1. client' = [client EXCEPT !.stage = "counted", !.total = n]
        /\ filter = client.filter /\ client.stage = "reading"
    BY <1>6 DEF NextPage
  <2> HIDE DEF n
  <2>2. /\ client'.stage = "counted" /\ client'.filter = filter /\ client'.total = n
        /\ client'.offset = client.offset /\ client'.stayed = client.stayed /\ client'.got = client.got
    BY <2>1, <1>1 DEF QueueClient
  <2>3. client' \in QueueClient
    BY <2>1, <1>1 DEF QueueClient
  <2>4. Listed(client.filter)' = Listed(filter)
    BY <2>2, <1>2 DEF Listed, In
  <2>5. ASSUME NEW p \in client'.stayed PROVE Ahead(Listed(client.filter), p)' = Ahead(Listed(client.filter), p)
    BY <2>1, <2>4, <1>2 DEF Ahead, Waits, Golden, LastShip
  <2>6. CaughtUp
    BY <2>1 DEF Reading
  <2>7. CaughtUp'
    BY <2>1, <2>2, <2>4, <2>5, <2>6, <1>1 DEF CaughtUp, n
  <2>8. QED
    BY <1>1, <2>2, <2>3, <2>7 DEF Reading, PagesComplete
<1>7. QED
  BY <1>4, <1>5, <1>6

-----------------------------------------------------------------------------
(* What the steps do to the submissions: a verdict changes the status of    *)
(* some of one project, a ship adds the newest of all.                      *)
LEMMA Decided ==
  ASSUME QueueTyped, Dated, NEW p \in QueueProjects, NEW T,
         NEW status \in {"unreviewed", "approved", "rejected"} \cup Against,
         DecideOn(<<p, T>>, status), clock' = clock
  PROVE  /\ shipped' \in [QueueProjects -> Seq(Submission)] /\ Dated'
         /\ \A q \in QueueProjects : q # p => shipped'[q] = shipped[q]
         /\ Len(shipped'[p]) = Len(shipped[p]) /\ Len(shipped[p]) \in Nat
         /\ \A s \in 1 .. Len(shipped[p]) :
                shipped'[p][s].status = IF s \in T THEN status ELSE shipped[p][s].status
<1> DEFINE old == shipped[p]
           new == [s \in DOMAIN old |-> IF s \in T THEN [old[s] EXCEPT !.status = status] ELSE old[s]]
<1>1. shipped \in [QueueProjects -> Seq(Submission)] /\ old \in Seq(Submission) /\ Len(old) \in Nat
      /\ DOMAIN old = 1 .. Len(old)
  BY DEF QueueTyped, RowsTyped
<1>2. shipped' = [shipped EXCEPT ![p] = new]
  BY DEF DecideOn
<1>3. ASSUME NEW s \in 1 .. Len(old)
      PROVE  /\ new[s] \in Submission /\ new[s].at = old[s].at
             /\ new[s].status = IF s \in T THEN status ELSE old[s].status
  <2>1. old[s] \in Submission
    BY <1>1
  <2>2. new[s] = IF s \in T THEN [old[s] EXCEPT !.status = status] ELSE old[s]
    BY <1>1
  <2> HIDE DEF old, new
  <2>3. QED
    BY <2>1, <2>2 DEF Submission
<1>4. DOMAIN new = 1 .. Len(old)
  BY <1>1
<1> HIDE DEF old, new
<1>5. new \in Seq(Submission) /\ Len(new) = Len(old)
  <2>1. new \in [1 .. Len(old) -> Submission]
    <3>1. new = [s \in 1 .. Len(old) |-> new[s]]
      BY <1>4 DEF new
    <3>2. QED
      BY <1>3, <3>1
  <2>2. QED
    BY <2>1, <1>1
<1>6. shipped'[p] = new /\ \A q \in QueueProjects : q # p => shipped'[q] = shipped[q]
  BY <1>1, <1>2
<1>7. shipped' \in [QueueProjects -> Seq(Submission)]
  BY <1>1, <1>2, <1>5
<1>8. ASSUME NEW q \in QueueProjects
      PROVE  /\ DOMAIN shipped'[q] = DOMAIN shipped[q]
             /\ \A s \in DOMAIN shipped[q] : shipped'[q][s].at = shipped[q][s].at
  <2>1. CASE q = p
    BY <2>1, <1>1, <1>3, <1>4, <1>6 DEF old
  <2>2. CASE q # p
    BY <2>2, <1>6
  <2>3. QED
    BY <2>1, <2>2
<1>9. Dated'
  BY <1>8 DEF Dated
<1>10. QED
  BY <1>1, <1>3, <1>5, <1>6, <1>7, <1>9 DEF old

LEMMA Submitted ==
  ASSUME QueueTyped, Dated, NEW p \in QueueProjects,
         clock' \in Nat, clock < clock', clock' <= MaxClock,
         shipped' = [shipped EXCEPT ![p] = Append(@, [at |-> clock', status |-> "unreviewed"])]
  PROVE  /\ shipped' \in [QueueProjects -> Seq(Submission)] /\ Dated'
         /\ \A q \in QueueProjects : q # p => shipped'[q] = shipped[q]
         /\ shipped'[p] # <<>> /\ Last(shipped'[p]).status = "unreviewed"
<1> DEFINE old == shipped[p]
           fresh == [at |-> clock', status |-> "unreviewed"]
           new == Append(old, fresh)
<1>1. shipped \in [QueueProjects -> Seq(Submission)] /\ old \in Seq(Submission) /\ Len(old) \in Nat
      /\ clock \in Nat /\ clock' \in Nat /\ MaxClock \in Nat
  BY QueueAssumption DEF QueueTyped, RowsTyped
<1>2. fresh \in Submission
  BY <1>1 DEF Submission
<1>3. shipped'[p] = new /\ \A q \in QueueProjects : q # p => shipped'[q] = shipped[q]
  BY <1>1
<1>4. fresh.at = clock' /\ fresh.status = "unreviewed"
  OBVIOUS
<1> HIDE DEF fresh, old
<1>5. /\ new \in Seq(Submission) /\ Len(new) = Len(old) + 1 /\ DOMAIN new = 1 .. Len(old) + 1
      /\ new[Len(old) + 1] = fresh /\ \A s \in 1 .. Len(old) : new[s] = old[s]
  BY <1>1, <1>2
<1> HIDE DEF new
<1>6. shipped' \in [QueueProjects -> Seq(Submission)]
  <2>1. shipped' = [shipped EXCEPT ![p] = new]
    BY DEF new, old, fresh
  <2>2. QED
    BY <2>1, <1>1, <1>5
<1>7. ASSUME NEW q \in QueueProjects, NEW s \in DOMAIN shipped'[q]
      PROVE  /\ s \in DOMAIN shipped[q] => shipped'[q][s] = shipped[q][s] /\ shipped[q][s].at \in Nat
                                           /\ shipped[q][s].at <= clock
             /\ s \notin DOMAIN shipped[q] => q = p /\ s = Len(old) + 1 /\ shipped'[q][s].at = clock'
  <2>1. shipped[q] \in Seq(Submission)
    BY <1>1
  <2>2. s \in DOMAIN shipped[q] => shipped[q][s].at \in Nat /\ shipped[q][s].at <= clock
    <3> SUFFICES ASSUME s \in DOMAIN shipped[q]
                 PROVE  shipped[q][s].at \in Nat /\ shipped[q][s].at <= clock
      OBVIOUS
    <3>1. shipped[q][s] \in Submission
      BY <2>1
    <3>2. QED
      BY <3>1 DEF Dated, Submission
  <2>3. CASE q # p
    BY <2>2, <2>3, <1>3
  <2>4. CASE q = p
    <3>1. DOMAIN old = 1 .. Len(old) /\ old = shipped[q] /\ shipped'[q] = new
      BY <2>4, <1>1, <1>3 DEF old
    <3>2. s \in 1 .. Len(old) + 1
      BY <3>1, <1>5
    <3>3. QED
      BY <2>2, <2>4, <3>1, <3>2, <1>1, <1>4, <1>5
  <2>5. QED
    BY <2>3, <2>4
<1>8. Dated'
  <2>1. ASSUME NEW q \in QueueProjects, NEW s \in DOMAIN shipped'[q]
        PROVE  shipped'[q][s].at <= clock'
    BY <2>1, <1>1, <1>7
  <2>2. ASSUME NEW q \in QueueProjects, NEW s \in DOMAIN shipped'[q], NEW t \in DOMAIN shipped'[q], s < t
        PROVE  shipped'[q][s].at < shipped'[q][t].at
    <3>1. DOMAIN shipped[q] = 1 .. Len(shipped[q]) /\ Len(shipped[q]) \in Nat
          /\ DOMAIN shipped'[q] \subseteq Nat
      BY <1>1, <1>6
    <3>2. CASE t \in DOMAIN shipped[q]
      <4>1. s \in DOMAIN shipped[q]
        <5>1. s \in Nat /\ s # 0 /\ t \in Nat
          <6>1. shipped'[q] \in Seq(Submission)
            BY <1>6
          <6>2. QED
            BY <6>1
        <5>2. QED
          BY <3>1, <3>2, <5>1, <2>2
      <4>2. shipped[q][s].at < shipped[q][t].at
        BY <4>1, <3>2, <2>2 DEF Dated
      <4>3. QED
        BY <4>1, <4>2, <3>2, <1>7
    <3>3. CASE t \notin DOMAIN shipped[q]
      <4>1. q = p /\ t = Len(old) + 1 /\ shipped'[q][t].at = clock'
        BY <3>3, <1>7
      <4>2. s # t
        BY <2>2, <3>1
      <4>3. s \in DOMAIN shipped[q]
        BY <4>1, <4>2, <1>7
      <4>4. QED
        BY <4>1, <4>3, <1>1, <1>7
    <3>4. QED
      BY <3>2, <3>3
  <2>3. ASSUME NEW q \in QueueProjects, NEW r \in QueueProjects, q # r,
               NEW s \in DOMAIN shipped'[q], NEW t \in DOMAIN shipped'[r]
        PROVE  shipped'[q][s].at # shipped'[r][t].at
    <3>1. CASE s \in DOMAIN shipped[q] /\ t \in DOMAIN shipped[r]
      <4>1. shipped[q][s].at # shipped[r][t].at
        BY <3>1, <2>3 DEF Dated
      <4>2. QED
        BY <4>1, <3>1, <1>7
    <3>2. CASE s \notin DOMAIN shipped[q]
      <4>1. t \in DOMAIN shipped[r] /\ shipped'[q][s].at = clock'
        BY <3>2, <2>3, <1>7
      <4>2. QED
        BY <4>1, <1>1, <1>7
    <3>3. CASE t \notin DOMAIN shipped[r]
      <4>1. s \in DOMAIN shipped[q] /\ shipped'[r][t].at = clock'
        BY <3>3, <2>3, <1>7
      <4>2. QED
        BY <4>1, <1>1, <1>7
    <3>4. QED
      BY <3>1, <3>2, <3>3
  <2>4. QED
    BY <2>1, <2>2, <2>3 DEF Dated
<1>9. new # <<>> /\ Last(new).status = "unreviewed"
  <2>1. new # <<>>
    BY <1>5, <1>1
  <2>2. Last(new) = fresh
    BY <1>5 DEF Last
  <2>3. QED
    BY <2>1, <2>2, <1>4
<1>10. QED
  BY <1>3, <1>6, <1>8, <1>9

-----------------------------------------------------------------------------
(* A project that keeps its status and its submissions, or loses its place  *)
(* in the queues, is carried as before.                                     *)
LEMMA StillCarried ==
  ASSUME NEW p, Carried(p), shipped'[p] = shipped[p],
         entries'[p].status = entries[p].status
            \/ entries'[p].status \notin {"unreviewed", "fraud_pending"}
  PROVE  Carried(p)'
BY DEF Carried

LEMMA EntriesSet ==
  ASSUME QueueTyped, NEW p \in QueueProjects, NEW status \in QueueStatuses, Set(p, status)
  PROVE  /\ entries' \in [QueueProjects -> QueueEntry] /\ entries'[p].status = status
         /\ \A q \in QueueProjects : q # p => entries'[q] = entries[q]
<1>1. entries \in [QueueProjects -> QueueEntry] /\ entries' = [entries EXCEPT ![p].status = status]
  BY DEF QueueTyped, RowsTyped, Set
<1>2. QED
  BY <1>1 DEF QueueEntry

LEMMA EntriesPut ==
  ASSUME QueueTyped, NEW p \in QueueProjects, NEW status \in QueueStatuses, NEW golden \in BOOLEAN,
         entries' = [entries EXCEPT ![p] = [status |-> status, golden |-> golden]]
  PROVE  /\ entries' \in [QueueProjects -> QueueEntry] /\ entries'[p].status = status
         /\ \A q \in QueueProjects : q # p => entries'[q] = entries[q]
<1>1. entries \in [QueueProjects -> QueueEntry] /\ [status |-> status, golden |-> golden] \in QueueEntry
  BY DEF QueueTyped, RowsTyped, QueueEntry
<1>2. QED
  BY <1>1

QueueRowsInv == RowsTyped /\ Dated /\ QueuedCarry

LEMMA ShipKeeps ==
  ASSUME QueueInv, NEW p \in QueueProjects, Ship(p) PROVE QueueRowsInv'
<1>1. QueueTyped /\ Dated /\ QueuedCarry /\ Set(p, "unreviewed") /\ p \notin halfway
      /\ halfway' = halfway \cup {p} /\ shipped' = shipped /\ clock' = clock /\ cut' = cut
  BY DEF QueueInv, Ship
<1>2. /\ entries' \in [QueueProjects -> QueueEntry]
      /\ \A q \in QueueProjects : q # p => entries'[q] = entries[q]
  BY <1>1, EntriesSet DEF QueueStatuses
<1>3. clock' + Cardinality(halfway') <= MaxClock
  <2>1. halfway \in SUBSET QueueProjects /\ clock \in Nat /\ MaxClock \in Nat
    BY <1>1, QueueAssumption DEF QueueTyped, RowsTyped
  <2>2. IsFiniteSet(halfway) /\ Cardinality(halfway) \in Nat
    BY <2>1, QueueFinite
  <2>3. Cardinality(halfway') = Cardinality(halfway) + 1
    BY <1>1, <2>2, FS_AddElement
  <2>4. clock + Cardinality(halfway) < MaxClock
    BY DEF Ship
  <2>5. QED
    BY <1>1, <2>1, <2>2, <2>3, <2>4
<1>4. RowsTyped'
  BY <1>1, <1>2, <1>3 DEF QueueTyped, RowsTyped
<1>5. Dated'
  BY <1>1 DEF Dated
<1>6. ASSUME NEW q \in QueueProjects \ (halfway \cup cut)' PROVE Carried(q)'
  BY <1>1, <1>2, StillCarried DEF QueuedCarry
<1>7. QED
  BY <1>4, <1>5, <1>6 DEF QueueRowsInv, QueuedCarry

LEMMA SubmitKeeps ==
  ASSUME QueueInv, NEW p \in QueueProjects, Submit(p) PROVE QueueRowsInv'
<1>1. /\ QueueTyped /\ Dated /\ QueuedCarry /\ p \in halfway
      /\ halfway' = halfway \ {p} /\ cut' = cut \ {p} /\ entries' = entries
      /\ clock' \in clock + 1 .. MaxClock - Cardinality(halfway')
      /\ shipped' = [shipped EXCEPT ![p] = Append(@, [at |-> clock', status |-> "unreviewed"])]
  BY DEF QueueInv, Submit
<1>2. /\ clock' \in Nat /\ clock < clock'
      /\ clock' + Cardinality(halfway') <= MaxClock /\ clock' <= MaxClock
  <2>1. halfway' \in SUBSET QueueProjects /\ clock \in Nat /\ MaxClock \in Nat
    BY <1>1, QueueAssumption DEF QueueTyped, RowsTyped
  <2>2. Cardinality(halfway') \in Nat
    BY <2>1, QueueFinite
  <2>3. QED
    BY <1>1, <2>1, <2>2
<1>3. /\ shipped' \in [QueueProjects -> Seq(Submission)] /\ Dated'
      /\ \A q \in QueueProjects : q # p => shipped'[q] = shipped[q]
      /\ shipped'[p] # <<>> /\ Last(shipped'[p]).status = "unreviewed"
  BY <1>1, <1>2, Submitted
<1>4. RowsTyped'
  BY <1>1, <1>2, <1>3 DEF QueueTyped, RowsTyped
<1>5. ASSUME NEW q \in QueueProjects \ (halfway \cup cut)' PROVE Carried(q)'
  <2>1. CASE q = p
    BY <2>1, <1>3 DEF Carried
  <2>2. CASE q # p
    BY <2>2, <1>1, <1>3, StillCarried DEF QueuedCarry
  <2>3. QED
    BY <2>1, <2>2
<1>6. QED
  BY <1>3, <1>4, <1>5 DEF QueueRowsInv, QueuedCarry

LEMMA CutShortKeeps ==
  ASSUME QueueInv, NEW p \in QueueProjects, CutShort(p) PROVE QueueRowsInv'
<1>1. /\ QueueTyped /\ Dated /\ QueuedCarry /\ p \in halfway /\ halfway' = halfway \ {p}
      /\ cut' = cut \cup {p} /\ entries' = entries /\ shipped' = shipped /\ clock' = clock
  BY DEF QueueInv, CutShort
<1>2. clock' + Cardinality(halfway') <= MaxClock
  <2>1. halfway \in SUBSET QueueProjects /\ clock \in Nat /\ MaxClock \in Nat
        /\ clock + Cardinality(halfway) <= MaxClock
    BY <1>1, QueueAssumption DEF QueueTyped, RowsTyped
  <2>2. IsFiniteSet(halfway) /\ Cardinality(halfway) \in Nat
    BY <2>1, QueueFinite
  <2>3. Cardinality(halfway') = Cardinality(halfway) - 1
    BY <1>1, <2>2, FS_RemoveElement
  <2>4. QED
    BY <1>1, <2>1, <2>2, <2>3
<1>3. RowsTyped' /\ Dated'
  BY <1>1, <1>2 DEF QueueTyped, RowsTyped, Dated
<1>4. ASSUME NEW q \in QueueProjects \ (halfway \cup cut)' PROVE Carried(q)'
  BY <1>1, StillCarried DEF QueuedCarry
<1>5. QED
  BY <1>3, <1>4 DEF QueueRowsInv, QueuedCarry

(* Withdrawn, passed: one status.                                           *)
LEMMA StatusKeeps ==
  ASSUME QueueInv, NEW p \in QueueProjects, Withdraw(p) \/ FirstPass(p) PROVE QueueRowsInv'
<1> PICK status \in {"unshipped", "fraud_pending"} :
        /\ Set(p, status) /\ shipped' = shipped /\ halfway' = halfway /\ clock' = clock
        /\ \/ status = "unshipped" /\ cut' = cut
           \/ status = "fraud_pending" /\ cut' = IF OpenOne(p) = {} THEN cut \cup {p} ELSE cut
        /\ cut' \subseteq QueueProjects
  <2>1. cut \subseteq QueueProjects
    BY DEF QueueInv, QueueTyped, RowsTyped
  <2>2. QED
    BY <2>1 DEF Withdraw, FirstPass
<1>1. QueueTyped /\ Dated /\ QueuedCarry
  BY DEF QueueInv
<1>2. /\ entries' \in [QueueProjects -> QueueEntry] /\ entries'[p].status = status
      /\ \A q \in QueueProjects : q # p => entries'[q] = entries[q]
  BY <1>1, EntriesSet DEF QueueStatuses
<1>3. RowsTyped' /\ Dated'
  BY <1>1, <1>2 DEF QueueTyped, RowsTyped, Dated
<1>4. ASSUME NEW q \in QueueProjects \ (halfway \cup cut)' PROVE Carried(q)'
  <2>1. CASE q # p
    BY <2>1, <1>1, <1>2, StillCarried DEF QueuedCarry
  <2>2. CASE q = p /\ status = "unshipped"
    BY <2>2, <1>2 DEF Carried
  <2>3. CASE q = p /\ status = "fraud_pending"
    <3>1. OpenOne(p) # {}
      BY <2>3, <1>4
    <3>2. shipped[p] # <<>>
      BY <3>1 DEF OpenOne
    <3>3. QED
      BY <2>3, <3>2, <1>2 DEF Carried
  <2>4. QED
    BY <2>1, <2>2, <2>3
<1>5. QED
  BY <1>3, <1>4 DEF QueueRowsInv, QueuedCarry

LEMMA TurnDownKeeps ==
  ASSUME QueueInv, NEW p \in QueueProjects, NEW verdict \in Against, TurnDown(p, verdict)
  PROVE  QueueRowsInv'
<1>1. /\ QueueTyped /\ Dated /\ QueuedCarry
      /\ entries' = [entries EXCEPT ![p].status = verdict,
                                    ![p].golden = @ /\ entries[p].status # "approved"]
      /\ DecideOn(<<p, OpenOne(p)>>, verdict) /\ halfway' = halfway /\ clock' = clock /\ cut' = cut
  BY DEF QueueInv, TurnDown
<1>2. /\ entries' \in [QueueProjects -> QueueEntry] /\ entries'[p].status = verdict
      /\ \A q \in QueueProjects : q # p => entries'[q] = entries[q]
  <2>1. entries \in [QueueProjects -> QueueEntry] /\ verdict \in QueueStatuses
    BY <1>1 DEF QueueTyped, RowsTyped, QueueStatuses
  <2>2. QED
    BY <1>1, <2>1 DEF QueueEntry
<1>3. /\ shipped' \in [QueueProjects -> Seq(Submission)] /\ Dated'
      /\ \A q \in QueueProjects : q # p => shipped'[q] = shipped[q]
  <2> DEFINE T == OpenOne(p)
  <2>1. DecideOn(<<p, T>>, verdict)
    BY <1>1
  <2> HIDE DEF T
  <2>2. QED
    BY <1>1, <2>1, Decided
<1>4. RowsTyped'
  BY <1>1, <1>2, <1>3 DEF QueueTyped, RowsTyped
<1>5. ASSUME NEW q \in QueueProjects \ (halfway \cup cut)' PROVE Carried(q)'
  <2>1. CASE q # p
    BY <2>1, <1>1, <1>2, <1>3, StillCarried DEF QueuedCarry
  <2>2. CASE q = p
    BY <2>2, <1>2, QueueAssumption DEF Carried
  <2>3. QED
    BY <2>1, <2>2
<1>6. QED
  BY <1>3, <1>4, <1>5 DEF QueueRowsInv, QueuedCarry

(* A nonempty set of positions in a sequence has a last one.                *)
LEMMA LastIn ==
  ASSUME NEW n \in Nat, NEW S, S \subseteq 1 .. n, S # {}
  PROVE  Max(S) \in S /\ \A s \in S : s <= Max(S)
<1> DEFINE T == {n - s : s \in S}
<1>1. T \subseteq Nat /\ T # {}
  <2>1. \A s \in S : n - s \in Nat
    OBVIOUS
  <2>2. QED
    BY <2>1
<1>2. PICK x \in T : \A y \in T : ~ (<<y, x>> \in OpToRel(<, Nat))
  BY <1>1, WFMin, NatLessThanWellFounded
<1>3. PICK m \in S : x = n - m
  OBVIOUS
<1>4. \A s \in S : m >= s
  <2> TAKE s \in S
  <2>1. n - s \in T /\ n - s \in Nat /\ x \in Nat
    BY <1>1
  <2> HIDE DEF T
  <2>2. ~ (n - s < x)
    BY <2>1, <1>2 DEF OpToRel
  <2>3. QED
    BY <2>2, <1>3
<1>5. \E l \in S : \A s \in S : l >= s
  BY <1>4
<1>6. Max(S) \in S /\ \A s \in S : Max(S) >= s
  BY <1>5 DEF Max
<1>7. QED
  BY <1>6

LEMMA OpenAtType ==
  ASSUME QueueTyped, NEW p \in QueueProjects
  PROVE  OpenAt(p) \in Nat
<1> DEFINE open == {s \in DOMAIN shipped[p] : shipped[p][s].status = "unreviewed"}
<1>1. shipped[p] \in Seq(Submission) /\ MaxClock \in Nat
  BY QueueAssumption DEF QueueTyped, RowsTyped
<1>2. CASE open = {}
  BY <1>1, <1>2 DEF OpenAt, Never
<1>3. CASE open # {}
  <2>1. DOMAIN shipped[p] = 1 .. Len(shipped[p]) /\ Len(shipped[p]) \in Nat
    BY <1>1
  <2>2. Max(open) \in open
    BY <1>3, <2>1, LastIn
  <2>3. shipped[p][Max(open)] \in Submission
    <3> DEFINE m == Max(open)
    <3>1. m \in 1 .. Len(shipped[p])
      BY <2>1, <2>2
    <3> HIDE DEF m
    <3>2. shipped[p][m] \in Submission
      BY <1>1, <3>1
    <3>3. QED
      BY <3>2 DEF m
  <2>4. OpenAt(p) = shipped[p][Max(open)].at
    BY <1>3 DEF OpenAt
  <2>5. QED
    BY <2>3, <2>4 DEF Submission
<1>4. QED
  BY <1>2, <1>3

(* What the audit takes over is taken from the queue.                       *)
LEMMA TakenWaited ==
  ASSUME QueueTyped, NEW S \in SUBSET QueueProjects
  PROVE  Slice(OpenOrder(S), 0, LoadLimit) \subseteq S
<1> DEFINE R == {pq \in S \X S : OpenWaits(pq[1], pq[2])}
           Is(list) == \A j, k \in DOMAIN list : j < k => OpenWaits(list[j], list[k])
           list == CHOOSE l \in [1 .. Cardinality(S) -> S] : Is(l)
<1>1. \A p, q \in S : <<p, q>> \in R <=> OpenWaits(p, q)
  OBVIOUS
<1> HIDE DEF R
<1>2. \A p \in S : OpenAt(p) \in Nat /\ MadeAt[p] \in Nat /\ Golden(p) \in BOOLEAN
  BY OpenAtType, QueueAssumption DEF Golden
<1>3. \A p \in S : ~OpenWaits(p, p)
  BY <1>2 DEF OpenWaits
<1>4. ASSUME NEW p \in S, NEW q \in S, p # q PROVE OpenWaits(p, q) \/ OpenWaits(q, p)
  <2>1. MadeAt[p] # MadeAt[q]
    BY <1>4, QueueAssumption
  <2>2. QED
    BY <1>2, <2>1 DEF OpenWaits
<1>5. ASSUME NEW p \in S, NEW q \in S, NEW r \in S, OpenWaits(p, q), OpenWaits(q, r)
      PROVE  OpenWaits(p, r)
  BY <1>2, <1>5 DEF OpenWaits
<1>6. IsFiniteSet(S)
  BY QueueFinite
<1>7. PICK l \in [1 .. Cardinality(S) -> S] : \A j, k \in DOMAIN l : j < k => <<l[j], l[k]>> \in R
  BY <1>1, <1>3, <1>4, <1>5, <1>6, ListExists
<1>8. Is(l)
  BY <1>1, <1>7
<1>9. list \in [1 .. Cardinality(S) -> S]
  <2> HIDE DEF Is
  <2>1. QED
    BY <1>8
<1>10. OpenOrder(S) = list
  BY DEF OpenOrder
<1>11. \A k \in DOMAIN OpenOrder(S) : OpenOrder(S)[k] \in S
  BY <1>9, <1>10
<1>12. QED
  BY <1>11 DEF Slice

LEMMA LoadKeeps ==
  ASSUME QueueInv, Load PROVE QueueRowsInv'
<1>1. QueueTyped /\ Dated /\ QueuedCarry /\ shipped' = shipped /\ halfway' = halfway
      /\ clock' = clock /\ cut' = cut
  BY DEF QueueInv, Load
<1>2. PICK taken \in SUBSET In("unreviewed") : entries' = [p \in QueueProjects |->
            IF p \in taken THEN [entries[p] EXCEPT !.status = "fraud_pending"] ELSE entries[p]]
  <2>1. In("unreviewed") \in SUBSET QueueProjects
    BY DEF In
  <2>2. Slice(OpenOrder(In("unreviewed")), 0, LoadLimit) \in SUBSET In("unreviewed")
    BY <1>1, <2>1, TakenWaited
  <2>3. QED
    BY <2>2 DEF Load
<1>3. entries \in [QueueProjects -> QueueEntry]
  BY <1>1 DEF QueueTyped, RowsTyped
<1>4. ASSUME NEW p \in QueueProjects
      PROVE  /\ entries'[p] \in QueueEntry
             /\ entries'[p].status = IF p \in taken THEN "fraud_pending" ELSE entries[p].status
  <2>1. entries[p] \in QueueEntry
    BY <1>3
  <2>2. entries'[p] = IF p \in taken THEN [entries[p] EXCEPT !.status = "fraud_pending"] ELSE entries[p]
    BY <1>2
  <2>3. QED
    BY <2>1, <2>2 DEF QueueEntry, QueueStatuses
<1>5. RowsTyped' /\ Dated'
  <2>1. entries' \in [QueueProjects -> QueueEntry]
    BY <1>2, <1>4
  <2>2. QED
    BY <1>1, <2>1 DEF QueueTyped, RowsTyped, Dated
<1>6. ASSUME NEW q \in QueueProjects \ (halfway \cup cut)' PROVE Carried(q)'
  <2>1. CASE q \notin taken
    BY <2>1, <1>1, <1>4, StillCarried DEF QueuedCarry
  <2>2. CASE q \in taken
    <3>1. entries[q].status = "unreviewed" /\ Carried(q)
      BY <2>2, <1>1 DEF In, QueuedCarry
    <3>2. QED
      BY <2>2, <3>1, <1>1, <1>4 DEF Carried
  <2>3. QED
    BY <2>1, <2>2
<1>7. QED
  BY <1>5, <1>6 DEF QueueRowsInv, QueuedCarry

(* Approved, sent back, turned down by the audit.                           *)
LEMMA AuditKeeps ==
  ASSUME QueueInv, NEW p \in QueueProjects,
         \/ \E golden \in BOOLEAN : Approve(p, golden)
         \/ \E verdict \in Against : AuditReject(p, verdict)
         \/ SendBack(p)
  PROVE  QueueRowsInv'
<1>1. /\ QueueTyped /\ Dated /\ QueuedCarry /\ entries[p].status = "fraud_pending"
      /\ halfway' = halfway /\ clock' = clock /\ cut' = cut
  BY DEF QueueInv, Approve, AuditReject, SendBack
<1> DEFINE T == {Len(shipped[p])} \ {0}
<1>2. PICK status \in {"approved", "unreviewed"} \cup Against :
        /\ DecideOn(<<p, T>>, status)
        /\ entries' \in [QueueProjects -> QueueEntry] /\ entries'[p].status = status
        /\ \A q \in QueueProjects : q # p => entries'[q] = entries[q]
  <2>1. CASE \E golden \in BOOLEAN : Approve(p, golden)
    <3>1. PICK golden \in BOOLEAN : Approve(p, golden)
      BY <2>1
    <3>2. DecideOn(<<p, T>>, "approved")
      BY <3>1 DEF Approve, NewestOf
    <3>3. entries' = [entries EXCEPT ![p] = [status |-> "approved", golden |-> golden]]
      BY <3>1 DEF Approve
    <3>4. "approved" \in QueueStatuses
      BY DEF QueueStatuses
    <3>5. /\ entries' \in [QueueProjects -> QueueEntry] /\ entries'[p].status = "approved"
          /\ \A q \in QueueProjects : q # p => entries'[q] = entries[q]
      BY <1>1, <3>3, <3>4, EntriesPut
    <3>6. QED
      BY <3>2, <3>5
  <2>2. CASE \E verdict \in Against : AuditReject(p, verdict)
    <3>1. PICK verdict \in Against : AuditReject(p, verdict)
      BY <2>2
    <3>2. DecideOn(<<p, T>>, verdict)
      BY <3>1 DEF AuditReject, NewestOf
    <3>3. entries' = [entries EXCEPT ![p] = [status |-> verdict, golden |-> FALSE]]
      BY <3>1 DEF AuditReject
    <3>4. verdict \in QueueStatuses
      BY DEF QueueStatuses
    <3>5. /\ entries' \in [QueueProjects -> QueueEntry] /\ entries'[p].status = verdict
          /\ \A q \in QueueProjects : q # p => entries'[q] = entries[q]
      BY <1>1, <3>3, <3>4, EntriesPut
    <3>6. QED
      BY <3>2, <3>5
  <2>3. CASE SendBack(p)
    <3>1. DecideOn(<<p, T>>, "unreviewed") /\ Set(p, "unreviewed")
      BY <2>3 DEF SendBack, NewestOf
    <3>2. /\ entries' \in [QueueProjects -> QueueEntry] /\ entries'[p].status = "unreviewed"
          /\ \A q \in QueueProjects : q # p => entries'[q] = entries[q]
      BY <1>1, <3>1, EntriesSet DEF QueueStatuses
    <3>3. QED
      BY <3>1, <3>2
  <2>4. QED
    BY <2>1, <2>2, <2>3
<1> HIDE DEF T
<1>3. /\ shipped' \in [QueueProjects -> Seq(Submission)] /\ Dated'
      /\ \A q \in QueueProjects : q # p => shipped'[q] = shipped[q]
      /\ Len(shipped'[p]) = Len(shipped[p]) /\ Len(shipped[p]) \in Nat
      /\ \A s \in 1 .. Len(shipped[p]) :
            shipped'[p][s].status = IF s \in T THEN status ELSE shipped[p][s].status
  <2>1. status \in {"unreviewed", "approved", "rejected"} \cup Against
    OBVIOUS
  <2>2. QueueTyped /\ Dated /\ clock' = clock /\ DecideOn(<<p, T>>, status)
    BY <1>1, <1>2
  <2>3. QED
    BY ONLY <2>1, <2>2, Decided, p \in QueueProjects
<1>4. RowsTyped'
  BY <1>1, <1>2, <1>3 DEF QueueTyped, RowsTyped
<1>5. ASSUME NEW q \in QueueProjects \ (halfway \cup cut)' PROVE Carried(q)'
  <2>1. CASE q # p
    BY <2>1, <1>1, <1>2, <1>3, StillCarried DEF QueuedCarry
  <2>2. CASE q = p /\ status # "unreviewed"
    BY <2>2, <1>2, QueueAssumption DEF Carried
  <2>3. CASE q = p /\ status = "unreviewed"
    <3>1. shipped[p] # <<>>
      BY <2>3, <1>1 DEF QueuedCarry, Carried
    <3>2. Len(shipped[p]) # 0 /\ shipped'[p] # <<>>
      <4>1. shipped[p] \in Seq(Submission) /\ shipped'[p] \in Seq(Submission)
        BY <1>1, <1>3 DEF QueueTyped, RowsTyped
      <4>2. QED
        BY <4>1, <3>1, <1>3
    <3>3. Len(shipped[p]) \in T /\ Len(shipped[p]) \in 1 .. Len(shipped[p])
      BY <3>2, <1>3 DEF T
    <3>4. Last(shipped'[p]).status = "unreviewed"
      BY <2>3, <3>3, <1>3 DEF Last
    <3>5. QED
      BY <2>3, <3>2, <3>4, <1>2 DEF Carried
  <2>4. QED
    BY <2>1, <2>2, <2>3
<1>6. QED
  BY <1>3, <1>4, <1>5 DEF QueueRowsInv, QueuedCarry

LEMMA QueueRowsKept == QueueInv /\ QueueNext => QueueRowsInv'
<1> SUFFICES ASSUME QueueInv, QueueNext PROVE QueueRowsInv'
  OBVIOUS
<1>1. ASSUME NEW p \in QueueProjects, Ship(p) PROVE QueueRowsInv'
  BY <1>1, ShipKeeps
<1>2. ASSUME NEW p \in QueueProjects, Submit(p) PROVE QueueRowsInv'
  BY <1>2, SubmitKeeps
<1>3. ASSUME NEW p \in QueueProjects, CutShort(p) PROVE QueueRowsInv'
  BY <1>3, CutShortKeeps
<1>4. ASSUME NEW p \in QueueProjects, Withdraw(p) \/ FirstPass(p) PROVE QueueRowsInv'
  BY <1>4, StatusKeeps
<1>5. ASSUME NEW p \in QueueProjects, NEW verdict \in Against, TurnDown(p, verdict) PROVE QueueRowsInv'
  BY <1>5, TurnDownKeeps
<1>6. ASSUME NEW p \in QueueProjects, NEW verdict \in Against, AuditReject(p, verdict)
      PROVE  QueueRowsInv'
  BY <1>6, AuditKeeps
<1>7. ASSUME NEW p \in QueueProjects, NEW golden \in {FALSE, (p \in MayBeGolden)}, Approve(p, golden)
      PROVE  QueueRowsInv'
  <2>1. golden \in BOOLEAN
    <3>1. (p \in MayBeGolden) \in BOOLEAN /\ FALSE \in BOOLEAN
      OBVIOUS
    <3>2. golden = FALSE \/ golden = (p \in MayBeGolden)
      OBVIOUS
    <3>3. QED
      BY <3>1, <3>2, Zenon
  <2>2. QED
    BY <1>7, <2>1, AuditKeeps
<1>8. ASSUME NEW p \in QueueProjects, SendBack(p) PROVE QueueRowsInv'
  BY <1>8, AuditKeeps
<1>9. ASSUME UNCHANGED <<entries, shipped, halfway, clock, cut>> PROVE QueueRowsInv'
  BY <1>9 DEF QueueInv, QueueTyped, QueueRowsInv, RowsTyped, Dated, QueuedCarry, Carried
<1>10. ASSUME ReadPage \/ StartOver
              \/ \E filter \in {"pending", "pending_hq"} : CountPage(filter) \/ NextPage(filter)
       PROVE  QueueRowsInv'
  <2>1. UNCHANGED <<entries, shipped, halfway, clock, cut>>
    BY <1>10 DEF ReadPage, StartOver, CountPage, NextPage
  <2>2. QED
    BY <2>1, <1>9
<1>11. QED
  BY <1>1, <1>2, <1>3, <1>4, <1>5, <1>6, <1>7, <1>8, <1>10, LoadKeeps DEF QueueNext

ClientInv ==
    /\ client \in QueueClient /\ Reading /\ PagesComplete
    /\ client.offset <= Cardinality(QueueProjects)

LEMMA ClientUndisturbed ==
  ASSUME QueueInv, UNCHANGED <<entries, shipped, client>> PROVE ClientInv'
<1>1. client \in QueueClient /\ Reading /\ PagesComplete /\ client.offset <= Cardinality(QueueProjects)
  BY DEF QueueInv, QueueTyped
<1>2. Listed(client.filter)' = Listed(client.filter)
  BY DEF Listed, In
<1>3. \A p : Ahead(Listed(client.filter), p)' = Ahead(Listed(client.filter), p)
  BY <1>2 DEF Ahead, Waits, Golden, LastShip
<1>4. Reading' = Reading
  BY <1>2, <1>3 DEF Reading, CaughtUp
<1>5. QED
  BY <1>1, <1>4 DEF ClientInv, PagesComplete

LEMMA ClientKept == QueueInv /\ QueueNext => ClientInv'
<1> SUFFICES ASSUME QueueInv, QueueNext PROVE ClientInv'
  OBVIOUS
<1>1. QueueTyped /\ Reading /\ PagesComplete /\ client.offset <= Cardinality(QueueProjects)
  BY DEF QueueInv
<1>2. ASSUME Seen PROVE ClientInv'
  BY <1>1, <1>2, ClientFollows DEF ClientInv
<1>3. ASSUME ReadPage PROVE ClientInv'
  BY <1>1, <1>3, ClientReads DEF ClientInv
<1>4. ASSUME NEW filter \in {"pending", "pending_hq"}, CountPage(filter) \/ NextPage(filter)
      PROVE  ClientInv'
  BY <1>1, <1>4, ClientAsks DEF ClientInv
<1>5. ASSUME StartOver PROVE ClientInv'
  <2>1. client' \in QueueClient /\ client'.stage = "idle" /\ client'.offset = 0
    BY <1>5 DEF StartOver, Idle, QueueClient
  <2>2. Cardinality(QueueProjects) \in Nat
    BY QueueFinite
  <2>3. QED
    BY <2>1, <2>2 DEF ClientInv, Reading, PagesComplete
<1>6. ASSUME NEW p \in QueueProjects, CutShort(p) PROVE ClientInv'
  BY <1>6, ClientUndisturbed DEF CutShort
<1>7. ASSUME NEW p \in QueueProjects,
             \/ Ship(p) \/ Submit(p) \/ Withdraw(p) \/ FirstPass(p) \/ SendBack(p)
             \/ \E golden \in {FALSE, (p \in MayBeGolden)} : Approve(p, golden)
             \/ \E verdict \in Against : TurnDown(p, verdict) \/ AuditReject(p, verdict)
      PROVE  Seen
  BY <1>7 DEF Ship, Submit, Withdraw, FirstPass, SendBack, Approve, TurnDown, AuditReject
<1>8. ASSUME Load PROVE Seen
  BY <1>8 DEF Load
<1>9. QED
  BY <1>2, <1>3, <1>4, <1>5, <1>6, <1>7, <1>8 DEF QueueNext

LEMMA QueueInvStep == QueueInv /\ [QueueNext]_queueVars => QueueInv'
<1> SUFFICES ASSUME QueueInv, [QueueNext]_queueVars PROVE QueueInv'
  OBVIOUS
<1>1. CASE QueueNext
  <2>1. QueueRowsInv' /\ ClientInv'
    BY <1>1, QueueRowsKept, ClientKept
  <2>2. QED
    BY <2>1 DEF QueueRowsInv, ClientInv, QueueInv, QueueTyped
<1>2. CASE UNCHANGED queueVars
  <2>1. UNCHANGED <<entries, shipped, halfway, clock, cut, client>>
    BY <1>2 DEF queueVars
  <2>2. ClientInv'
    BY <2>1, ClientUndisturbed
  <2>3. QueueRowsInv'
    BY <2>1 DEF QueueInv, QueueTyped, QueueRowsInv, RowsTyped, Dated, QueuedCarry, Carried
  <2>4. QED
    BY <2>2, <2>3 DEF QueueRowsInv, ClientInv, QueueInv, QueueTyped
<1>3. QED
  BY <1>1, <1>2

LEMMA QueueInvInit == QueueInit => QueueInv
<1> SUFFICES ASSUME QueueInit PROVE QueueInv
  OBVIOUS
<1>1. /\ entries = [p \in QueueProjects |-> [status |-> "unshipped", golden |-> FALSE]]
      /\ shipped = [p \in QueueProjects |-> <<>>]
      /\ halfway = {} /\ cut = {} /\ clock = 0 /\ client = Idle
  BY DEF QueueInit
<1>2. RowsTyped
  <2>1. Cardinality({}) = 0 /\ MaxClock \in Nat
    BY FS_EmptySet, QueueAssumption
  <2>2. QED
    BY <1>1, <2>1 DEF RowsTyped, QueueEntry, QueueStatuses
<1>3. client \in QueueClient /\ client.stage = "idle" /\ client.offset = 0
  BY <1>1 DEF Idle, QueueClient
<1>4. Cardinality(QueueProjects) \in Nat
  BY QueueFinite
<1>5. Dated
  BY <1>1 DEF Dated
<1>6. QueuedCarry
  BY <1>1 DEF QueuedCarry, Carried
<1>7. QED
  BY <1>2, <1>3, <1>4, <1>5, <1>6 DEF QueueInv, QueueTyped, Reading, PagesComplete

-----------------------------------------------------------------------------
(* What the invariant says of the lists.                                    *)
LEMMA QueuedIsWhole == QueueInv => QueuedIsOpen
<1> SUFFICES ASSUME QueueInv, NEW p \in In("unreviewed") \ (halfway \cup cut)
             PROVE  p \in QueueProjects /\ Whole(p)
  BY DEF QueuedIsOpen
<1> DEFINE old == shipped[p]
           n == Len(old)
           open == {s \in DOMAIN old : old[s].status = "unreviewed"}
<1>1. p \in QueueProjects /\ entries[p].status = "unreviewed"
  BY DEF In
<1>2. old # <<>> /\ Last(old).status = "unreviewed"
  BY <1>1 DEF QueueInv, QueuedCarry, Carried
<1>3. old \in Seq(Submission) /\ n \in Nat /\ n # 0 /\ DOMAIN old = 1 .. n
  <2>1. old \in Seq(Submission)
    BY <1>1 DEF QueueInv, QueueTyped, RowsTyped
  <2> HIDE DEF old
  <2>2. QED
    BY <2>1, <1>2
<1>4. n \in open /\ open \subseteq 1 .. n
  BY <1>2, <1>3 DEF Last
<1>5. Max(open) = n
  <2> DEFINE m == Max(open)
  <2> HIDE DEF open, n
  <2>1. m \in open /\ n <= m
    BY <1>3, <1>4, LastIn
  <2>2. m \in 1 .. n
    BY <2>1, <1>4
  <2> HIDE DEF m
  <2>3. m = n
    BY <2>1, <2>2, <1>3
  <2>4. QED
    BY <2>3 DEF m
<1>6. OpenAt(p) = old[n].at
  BY <1>4, <1>5 DEF OpenAt
<1>7. \A s \in 1 .. n : s # n => old[s].at # old[n].at
  <2> TAKE s \in 1 .. n
  <2> HAVE s # n
  <2>1. s < n /\ n \in 1 .. n
    BY <1>3
  <2>2. old[s].at < old[n].at
    BY <2>1, <1>1, <1>3 DEF QueueInv, Dated
  <2>3. old[s] \in Submission /\ old[n] \in Submission
    BY <2>1, <1>3
  <2>4. QED
    BY <2>2, <2>3 DEF Submission
<1>8. OpenOne(p) = {n}
  BY <1>3, <1>4, <1>6, <1>7 DEF OpenOne
<1>9. ShipStatus(p, n) = "pending"
  <2>1. old[n].status = "unreviewed"
    BY <1>4
  <2>2. QED
    BY <2>1, <1>1 DEF ShipStatus
<1>10. QED
  BY <1>1, <1>2, <1>8, <1>9 DEF Whole

(* A millisecond begins no later than what falls in it, and none begins     *)
(* before an earlier one.                                                   *)
LEMMA ToMillisBegins ==
  ASSUME NEW t \in Nat
  PROVE  /\ ToMillis(t) \in Int /\ ToMillis(t) <= t /\ t < ToMillis(t) + Grain
         /\ ToMillis(t) = Grain * (t \div Grain) /\ t \div Grain \in Int
<1>1. t % Grain \in 0 .. Grain - 1 /\ Grain \in Nat
  BY QueueAssumption
<1>2. t - (t % Grain) = Grain * (t \div Grain) /\ t \div Grain \in Int
  BY QueueAssumption
<1>3. QED
  BY <1>1, <1>2 DEF ToMillis

LEMMA ToMillisMonotone ==
  ASSUME NEW t \in Nat, NEW u \in Nat, t < u
  PROVE  ToMillis(t) <= ToMillis(u)
<1> DEFINE m == t \div Grain
           n == u \div Grain
<1>1. /\ ToMillis(t) \in Int /\ ToMillis(u) \in Int /\ Grain \in Nat
      /\ ToMillis(t) <= t /\ u < ToMillis(u) + Grain
      /\ m \in Int /\ n \in Int /\ ToMillis(t) = Grain * m /\ ToMillis(u) = Grain * n
  BY ToMillisBegins, QueueAssumption
<1> HIDE DEF m, n
<1>2. CASE n < m
  <2>1. Grain * n + Grain <= Grain * m
    BY <1>1, <1>2
  <2>2. QED
    BY <2>1, <1>1
<1>3. CASE m <= n
  <2>1. Grain * m <= Grain * n
    BY <1>1, <1>3
  <2>2. QED
    BY <2>1, <1>1
<1>4. QED
  BY <1>1, <1>2, <1>3

(* The place a builder is told, the panel's order and Sidekick's list.      *)
LEMMA PlaceTold ==
  ASSUME QueueInv, \A p \in In("unreviewed") : Whole(p)
  PROVE  LET list == InOrder(Listed("pending"))
             uncounted(k) == {j \in 1 .. k : Within(list[j], list[k])} IN
         /\ Len(list) = Cardinality(In("unreviewed"))
         /\ \A k \in DOMAIN list : Position(list[k]) + Cardinality(uncounted(k)) = k
         /\ \A j, k \in DOMAIN list : j < k =>
                PanelBefore(list[j], list[k]) \/ SameMillis(list[j], list[k])
<1> DEFINE S == In("unreviewed")
           list == InOrder(S)
<1>1. QueueTyped /\ S \in SUBSET QueueProjects
  BY DEF QueueInv, In
<1>2. Listed("pending") = S
  BY DEF Listed, Whole
<1>3. list \in [1 .. Cardinality(S) -> S] /\ Cardinality(S) \in Nat
      /\ \A j, k \in 1 .. Cardinality(S) : j < k => Waits(list[j], list[k])
  <2> HIDE DEF S
  <2>1. QED
    BY <1>1, InOrderSorts, QueueFinite
<1>4. \A k \in 1 .. Cardinality(S) : Place(S, list[k]) = k
  <2> HIDE DEF S
  <2>1. QED
    BY <1>1, InPlace
<1>5. ASSUME NEW p \in S
      PROVE  /\ OpenAt(p) = LastShip(p) /\ LastShip(p) # Never /\ shipped[p] # <<>>
             /\ LastShip(p) \in Nat
  <2>1. p \in QueueProjects /\ Whole(p)
    BY <1>1
  <2>2. shipped[p] \in Seq(Submission) /\ shipped[p] # <<>>
    BY <2>1, <1>1 DEF QueueTyped, RowsTyped, Whole
  <2>3. Len(shipped[p]) \in OpenOne(p)
    BY <2>1 DEF Whole
  <2>4. shipped[p][Len(shipped[p])].at = OpenAt(p)
    BY <2>3 DEF OpenOne
  <2>5. OpenAt(p) = LastShip(p)
    BY <2>2, <2>4 DEF LastShip, Last
  <2>6. shipped[p][Len(shipped[p])] \in Submission
    <3>1. Len(shipped[p]) \in 1 .. Len(shipped[p])
      BY <2>2
    <3>2. QED
      BY <2>2, <3>1
  <2>7. OpenAt(p) \in 1 .. MaxClock /\ MaxClock \in Nat
    BY <2>4, <2>6, QueueAssumption DEF Submission
  <2>8. QED
    BY <2>2, <2>5, <2>7 DEF Never
<1>6. ASSUME NEW p \in S, NEW q \in S, p # q PROVE LastShip(p) # LastShip(q)
  <2>1. p \in QueueProjects /\ q \in QueueProjects /\ shipped[p] # <<>> /\ shipped[q] # <<>>
    BY <1>1, <1>5
  <2>2. shipped[p] \in Seq(Submission) /\ shipped[q] \in Seq(Submission)
    BY <2>1, <1>1 DEF QueueTyped, RowsTyped
  <2>3. Len(shipped[p]) \in DOMAIN shipped[p] /\ Len(shipped[q]) \in DOMAIN shipped[q]
    BY <2>1, <2>2
  <2>4. shipped[p][Len(shipped[p])].at # shipped[q][Len(shipped[q])].at
    BY <1>6, <2>1, <2>3 DEF QueueInv, Dated
  <2>5. QED
    BY <2>1, <2>4 DEF LastShip, Last
<1>7. \A p \in S : Place(S, p) \in 1 .. Cardinality(S) /\ list[Place(S, p)] = p
  <2> HIDE DEF S
  <2>1. QED
    BY <1>1, PlacesRange, InPlace
<1>8. \A p \in QueueProjects : Golden(p) \in BOOLEAN
  BY DEF Golden
<1> HIDE DEF S, list
<1>9. ASSUME NEW j \in 1 .. Cardinality(S), NEW k \in 1 .. Cardinality(S), j < k
      PROVE  /\ Golden(list[j]) = Golden(list[k]) => LastShip(list[j]) < LastShip(list[k])
             /\ Golden(list[j]) # Golden(list[k]) => Golden(list[j]) /\ ~Golden(list[k])
  <2> DEFINE p == list[j]
             q == list[k]
  <2>1. p \in S /\ q \in S /\ Waits(p, q)
    BY <1>3, <1>9
  <2> HIDE DEF p, q
  <2>2. p # q
    BY <2>1, <1>1, WaitsStrict
  <2>3. LastShip(p) # LastShip(q)
    BY <2>1, <2>2, <1>6
  <2>4. /\ Golden(p) = Golden(q) => LastShip(p) < LastShip(q)
        /\ Golden(p) # Golden(q) => Golden(p) /\ ~Golden(q)
    BY <2>1, <2>3 DEF Waits
  <2>5. QED
    BY <2>4 DEF p, q
<1>10. ASSUME NEW k \in 1 .. Cardinality(S)
       PROVE  Position(list[k]) + Cardinality({j \in 1 .. k : Within(list[j], list[k])}) = k
  <2> DEFINE p == list[k]
             before == {q \in S :
                \/ Golden(q) = Golden(p) /\ OpenAt(q) <= ToMillis(OpenAt(p))
                \/ Golden(q) /\ ~Golden(p)}
             uncounted == {j \in 1 .. k : Within(list[j], p)}
             counted == (1 .. k) \ uncounted
  <2>1. p \in S /\ Position(p) = Cardinality(before)
    <3>1. p \in S
      BY <1>3
    <3>2. OpenAt(p) # Never
      BY <3>1, <1>5
    <3>3. Position(p) = Cardinality(before)
      BY <3>2 DEF Position, S
    <3>4. QED
      BY <3>1, <3>3
  <2>2. /\ LastShip(p) \in Nat /\ OpenAt(p) = LastShip(p)
        /\ ToMillis(LastShip(p)) \in Int /\ ToMillis(LastShip(p)) <= LastShip(p)
    BY <2>1, <1>5, ToMillisBegins
  <2>3. ASSUME NEW j \in 1 .. Cardinality(S) PROVE list[j] \in before <=> j \in counted
    <3>1. /\ list[j] \in S /\ LastShip(list[j]) \in Nat /\ OpenAt(list[j]) = LastShip(list[j])
          /\ Golden(list[j]) \in BOOLEAN /\ Golden(p) \in BOOLEAN
      BY <1>1, <1>3, <1>5, <1>8
    <3>2. list[j] \in before <=>
            \/ Golden(list[j]) = Golden(p) /\ LastShip(list[j]) <= ToMillis(LastShip(p))
            \/ Golden(list[j]) /\ ~Golden(p)
      <4>1. list[j] \in before <=>
              \/ Golden(list[j]) = Golden(p) /\ OpenAt(list[j]) <= ToMillis(OpenAt(p))
              \/ Golden(list[j]) /\ ~Golden(p)
        BY <3>1
      <4> HIDE DEF before, p
      <4>2. QED
        BY <4>1, <2>2, <3>1
    <3>3. j \in counted <=> j <= k /\ ~Within(list[j], p)
      BY <1>3
    <3>4. CASE j < k
      <4>1. Golden(list[j]) # Golden(p) => Golden(list[j]) /\ ~Golden(p)
        BY <3>4, <1>9
      <4>2. QED
        BY <2>2, <3>1, <3>2, <3>3, <3>4, <4>1 DEF Within
    <3>5. CASE j = k
      BY <2>2, <3>1, <3>2, <3>3, <3>5 DEF Within
    <3>6. CASE k < j
      <4>1. /\ Golden(list[j]) = Golden(p) => LastShip(p) < LastShip(list[j])
            /\ Golden(list[j]) # Golden(p) => ~Golden(list[j])
        BY <3>1, <3>6, <1>9
      <4>2. QED
        BY <2>2, <3>1, <3>2, <3>3, <3>6, <4>1
    <3>7. QED
      BY <1>3, <3>4, <3>5, <3>6
  <2>4. IsFiniteSet(1 .. k) /\ Cardinality(1 .. k) = k
    BY <1>3, FS_Interval
  <2>5. /\ IsFiniteSet(counted) /\ IsFiniteSet(uncounted)
        /\ Cardinality(counted) = k - Cardinality(uncounted)
        /\ Cardinality(counted) \in Nat /\ Cardinality(uncounted) \in Nat
    <3>1. uncounted \in SUBSET (1 .. k) /\ (1 .. k) \cap uncounted = uncounted
      OBVIOUS
    <3> HIDE DEF uncounted
    <3>2. IsFiniteSet(uncounted)
      BY <2>4, <3>1, FS_Subset
    <3>3. /\ IsFiniteSet(counted)
          /\ Cardinality(counted) = Cardinality(1 .. k) - Cardinality((1 .. k) \cap uncounted)
      BY <2>4, FS_Difference
    <3>4. QED
      BY <2>4, <3>1, <3>2, <3>3, FS_CardinalityType
  <2>6. before \in SUBSET S /\ counted \in SUBSET (1 .. Cardinality(S))
    BY <1>3
  <2> HIDE DEF before, counted, uncounted, p
  <2>7. Cardinality(before) = Cardinality(counted)
    <3> DEFINE f == [j \in counted |-> list[j]]
    <3>1. f \in [counted -> before]
      BY <2>3, <2>6
    <3>2. ASSUME NEW i \in counted, NEW j \in counted, f[i] = f[j] PROVE i = j
      <4>1. i \in 1 .. Cardinality(S) /\ j \in 1 .. Cardinality(S) /\ list[i] = list[j]
        BY <2>6, <3>2
      <4>2. QED
        BY <4>1, <1>4
    <3>3. ASSUME NEW q \in before PROVE \E j \in counted : f[j] = q
      <4>1. Place(S, q) \in 1 .. Cardinality(S) /\ list[Place(S, q)] = q
        BY <2>6, <1>7
      <4>2. Place(S, q) \in counted
        BY <4>1, <2>3
      <4>3. QED
        BY <4>1, <4>2
    <3> HIDE DEF f
    <3>4. f \in Bijection(counted, before)
      BY <3>1, <3>2, <3>3 DEF Bijection, Injection, Surjection, IsInjective
    <3>5. ExistsBijection(counted, before)
      BY <3>4 DEF ExistsBijection
    <3>6. QED
      BY <3>5, <2>5, FS_Bijection
  <2>8. k \in Nat
    BY <1>3
  <2>9. Position(p) + Cardinality(uncounted) = k
    BY <2>1, <2>5, <2>7, <2>8
  <2>10. QED
    BY <2>9 DEF p, uncounted
<1>11. ASSUME NEW j \in 1 .. Cardinality(S), NEW k \in 1 .. Cardinality(S), j < k
       PROVE  PanelBefore(list[j], list[k]) \/ SameMillis(list[j], list[k])
  <2> DEFINE p == list[j]
             q == list[k]
  <2>1. /\ p \in S /\ q \in S /\ LastShip(p) \in Nat /\ LastShip(q) \in Nat
        /\ Golden(p) = Golden(q) => LastShip(p) < LastShip(q)
        /\ Golden(p) # Golden(q) => Golden(p) /\ ~Golden(q)
    BY <1>3, <1>5, <1>9, <1>11
  <2> HIDE DEF p, q
  <2>2. CASE Golden(p) = Golden(q)
    <3>1. /\ ToMillis(LastShip(p)) \in Int /\ ToMillis(LastShip(q)) \in Int
          /\ ToMillis(LastShip(p)) <= ToMillis(LastShip(q))
      BY <2>1, <2>2, ToMillisBegins, ToMillisMonotone
    <3>2. QED
      BY <2>2, <3>1 DEF PanelBefore, SameMillis, p, q
  <2>3. CASE Golden(p) # Golden(q)
    BY <2>1, <2>3 DEF PanelBefore, p, q
  <2>4. QED
    BY <2>2, <2>3
<1>12. Len(list) = Cardinality(S) /\ DOMAIN list = 1 .. Cardinality(S)
  BY <1>3
<1>13. Listed("pending") = S /\ list = InOrder(S) /\ In("unreviewed") = S
  BY <1>2 DEF list, S
<1>14. QED
  BY <1>10, <1>11, <1>12, <1>13

LEMMA QueueInvHolds == QueueInv => QueueTypeOK /\ QueueHolds
<1> SUFFICES ASSUME QueueInv PROVE QueueTypeOK /\ QueueHolds
  OBVIOUS
<1>1. QueueTyped /\ PagesComplete
  BY DEF QueueInv
<1>2. PositionIsRank
  BY QueuedIsWhole, PlaceTold DEF PositionIsRank
<1>3. clock \in 0 .. MaxClock
  <2>1. Cardinality(halfway) \in Nat /\ clock \in Nat /\ clock + Cardinality(halfway) <= MaxClock
        /\ MaxClock \in Nat
    BY <1>1, QueueFinite, QueueAssumption DEF QueueTyped, RowsTyped
  <2>2. QED
    BY <2>1
<1>4. ASSUME NEW p \in QueueProjects, NEW s \in DOMAIN shipped[p]
      PROVE  /\ shipped[p][s].at \in 1 .. clock
             /\ shipped[p][s].status \in {"unreviewed", "approved", "rejected"} \cup Against
  <2>1. shipped[p] \in Seq(Submission)
    BY <1>1 DEF QueueTyped, RowsTyped
  <2>2. shipped[p][s] \in Submission
    BY <2>1
  <2>3. shipped[p][s].at <= clock
    BY DEF QueueInv, Dated
  <2>4. QED
    BY <2>2, <2>3, <1>3 DEF Submission
<1>5. entries \in [QueueProjects -> [golden: BOOLEAN, status:
            {"unshipped", "unreviewed", "fraud_pending", "approved"} \cup Against \cup {"rejected"}]]
  BY <1>1 DEF QueueTyped, RowsTyped, QueueEntry, QueueStatuses
<1>6. QueueTypeOK
  BY <1>1, <1>3, <1>4, <1>5 DEF QueueTyped, RowsTyped, QueueTypeOK, QueueClient, QueueInv
<1>7. QED
  BY <1>1, <1>2, <1>6 DEF QueueHolds

(* The inductive invariant of the queue.                                    *)
THEOREM QueueInvariant == QueueSpec => []QueueInv
  BY QueueInvInit, QueueInvStep, PTL DEF QueueSpec

(* Rows and the reading client have their shape, so no page is read past    *)
(* the end of its list (getQueuePosition, fetchProjects).                   *)
THEOREM QueueTypeCorrect == QueueSpec => []QueueTypeOK
  BY QueueInvariant, QueueInvHolds, PTL

(* The position a builder is told (getQueuePosition) is the place of the    *)
(* project in Sidekick's list (fetchProjects), less the ships of its own    *)
(* millisecond, itself among them, that the rounded date leaves out; the    *)
(* panel agrees but for the order within a millisecond; and a client that   *)
(* pages through a list misses nothing that stayed where it was, for any    *)
(* number of projects and ships, any page and any clock.                    *)
THEOREM ListsAgree == QueueSpec => []QueueHolds
  BY QueueInvariant, QueueInvHolds, PTL

(***************************************************************************)
(* The four together, one at work.                                         *)
(***************************************************************************)

(* Each part keeps its type, whichever runs: no page of the queue is read   *)
(* past its end, no day is counted that has not begun, and a builder's time *)
(* is up one extension from now at the latest (MCOffice's OfficeTypeOK).    *)
THEOREM OfficeTypeCorrect == OfficeSpec => []OfficeTypeOK
<1> DEFINE AllInv == QueueInv /\ NoticesInv /\ StatsInv /\ WindowInv
<1>1. OfficeInit => AllInv
  BY QueueInvInit, NoticesInvInit, StatsInvInit, WindowInvInit DEF OfficeInit
<1>2. ASSUME AllInv, [OfficeNext]_officeVars
      PROVE  AllInv'
  <2>1. [QueueNext]_queueVars /\ [NoticesNext]_noticesVars /\ [StatsNext]_statsVars /\ [WindowNext]_windowVars
    BY <1>2 DEF OfficeNext, officeVars, StatsNext
  <2>2. QED
    BY <1>2, <2>1, QueueInvStep, NoticesInvStep, StatsInvStep, WindowInvStep
<1>3. AllInv => OfficeTypeOK
  <2>1. WindowInv => WindowTypeOK
    BY DEF WindowInv, WindowTyped
  <2>2. QED
    BY <2>1, QueueInvHolds, NoticesInvHolds, StatsInvHolds DEF OfficeTypeOK
<1>4. QED
  BY <1>1, <1>2, <1>3, PTL DEF OfficeSpec
=============================================================================
