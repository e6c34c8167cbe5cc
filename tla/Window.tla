------------------------------- MODULE Window --------------------------------
(* The program has ended: what a builder may still send in, and until when. *)
(* A project sent back has two days; a Super Admin extends a builder's time *)
(* or lifts every rule for them; and whoever ships must be eligible.  Each  *)
(* request reads the project first and saves it last, while the clock runs  *)
(* and the staff decide; a page decides the same for itself.                *)
EXTENDS Integers, FiniteSets

CONSTANTS
    Tabs,          \* requests of the builder at once
    Grace,         \* CHANGES_NEEDED_GRACE_MS
    Extension,     \* SUBMISSION_EXTENSION_MS
    MaxNow,        \* bound: the clock
    MaxStaff       \* bound: what the staff and the identity service change

ASSUME WindowAssumption ==
    Grace \in Nat \ {0} /\ Extension \in Nat \ {0} /\ MaxNow \in Nat /\ MaxStaff \in Nat

VARIABLES
    now,
    project,       \* status and changesRequestedAt
    builder,       \* submissionExtensionUntil, unrestrictedAccess,
                   \* identityOverride, and what the identity service says
    paused,        \* resubmission is
    tab,           \* requests at work, with the project as they read it
    page,          \* what the page was told, until something changes
    entry,         \* history: the last time something came into the queue
    asked,         \* history: when changes were last asked for, and whether a
                   \* request saved a project it had read before that
    staff

windowVars == <<now, project, builder, paused, tab, page, entry, asked, staff>>

NotSet == -1
ProjectStatuses == {"none", "unshipped", "unreviewed", "changes_needed", "approved", "rejected"}
Answers == {"none", "unverified", "ineligible", "eligible"}   \* "none": no answer
Closed == [stage |-> "idle", kind |-> "edit", status |-> "none", asked |-> NotSet,
           open |-> FALSE, eligible |-> FALSE, moves |-> 0]

NoPage == [status |-> "none", deadline |-> NotSet, freely |-> FALSE, until |-> NotSet, same |-> FALSE]

WindowTypeOK ==
    /\ now \in 0 .. MaxNow
    /\ project \in [status : ProjectStatuses, asked : {NotSet} \cup 0 .. MaxNow]
    /\ builder.until \in {NotSet} \cup 0 .. now + Extension
    /\ builder.free \in BOOLEAN /\ builder.override \in {"none", "ineligible", "eligible"}
    /\ builder.slack \in Answers /\ builder.email \in Answers
    /\ paused \in BOOLEAN /\ staff \in 0 .. MaxStaff
    /\ \A t \in Tabs : tab[t].stage \in {"idle", "gate", "pause", "override", "slack", "email", "save"}
    /\ page.status \in ProjectStatuses /\ page.freely \in BOOLEAN

WindowInit ==
    /\ now = 0 /\ paused = FALSE /\ staff = 0
    /\ project \in {[status |-> s, asked |-> NotSet] : s \in {"none", "unshipped", "unreviewed"}}
    /\ \E answer \in {"unverified", "eligible"}, until \in {NotSet, Extension} :
        builder = [until |-> until, free |-> FALSE, override |-> "none",
                   slack |-> "none", email |-> answer]
    /\ tab = [t \in Tabs |-> Closed]
    /\ page = NoPage
    /\ entry = [open |-> TRUE, eligible |-> TRUE]
    /\ asked = [at |-> NotSet, stale |-> FALSE]

-----------------------------------------------------------------------------
(* The rules.                                                               *)

hasActiveSubmissionExtension(user) == user.until > now
changesNeededDeadline(status, at) ==
    IF status # "changes_needed" \/ at = NotSet THEN NotSet ELSE at + Grace
isWithinChangesWindow(status, at) == changesNeededDeadline(status, at) > now

Freely(user) == user.free \/ hasActiveSubmissionExtension(user)

AnyWithADate(status, at) ==               \* mutant: the status does not count
    Freely(builder) \/ (at # NotSet /\ at + Grace > now)

requireSubmissionAllowed(status, at) == Freely(builder) \/ isWithinChangesWindow(status, at)

(* The override, or else the first service that answers.                    *)
Answer(user) == IF user.slack # "none" THEN user.slack ELSE user.email
Eligible(user) ==
    IF user.override # "none" THEN user.override = "eligible" ELSE Answer(user) = "eligible"

Identity(user) == <<user.override, user.slack, user.email>>

(* What is true at some time while a request runs, by the rules as stated;  *)
(* and how often what is known of the builder's identity changes.           *)
Opens(r, user) == Freely(user) \/ (r.status = "changes_needed" /\ r.asked # NotSet /\ now < r.asked + Grace)
Watch(r, user) ==
    IF r.stage = "idle" THEN r
    ELSE [r EXCEPT !.open = @ \/ IF r.kind = "create" THEN user.free ELSE Opens(r, user),
                   !.eligible = @ \/ Eligible(user) \/ r.kind = "create",
                   !.moves = @ + (IF r.moves < 2 /\ Identity(user) # Identity(builder) THEN 1 ELSE 0)]

-----------------------------------------------------------------------------
(* A request of the builder.  An edit has nothing to ask; a project is made *)
(* by who is exempt; a ship and a resubmission ask three times.             *)

Read(t, kind) ==
    tab' = [tab EXCEPT ![t] = Watch([Closed EXCEPT
        !.stage = IF kind = "edit" THEN "save" ELSE "gate",
        !.kind = kind, !.status = project.status, !.asked = project.asked], builder)]

BeginRequest(t, kind) ==
    /\ tab[t].stage = "idle"
    /\ CASE kind = "create" -> project.status = "none"
         [] kind = "edit" -> project.status # "none"
         [] kind = "ship" -> project.status \in {"unshipped", "changes_needed"}
         [] kind = "resubmit" -> project.status = "approved"
    /\ Read(t, kind)
    /\ UNCHANGED <<now, project, builder, paused, page, entry, asked, staff>>

Goes(t, stage) == tab' = [tab EXCEPT ![t] = IF stage = "idle" THEN Closed ELSE [@ EXCEPT !.stage = stage]]

(* The gate is on the project as it was read.                               *)
Gate(t) ==
    LET r == tab[t]
        allowed == IF r.kind = "create" THEN builder.free ELSE requireSubmissionAllowed(r.status, r.asked) IN
    /\ r.stage = "gate"
    /\ Goes(t, IF ~allowed THEN "idle" ELSE IF r.kind = "create" THEN "save"
               ELSE IF r.status = "changes_needed" THEN "pause" ELSE "override")
    /\ UNCHANGED <<now, project, builder, paused, page, entry, asked, staff>>

Pause(t) ==
    /\ tab[t].stage = "pause"
    /\ Goes(t, IF paused THEN "idle" ELSE "override")
    /\ UNCHANGED <<now, project, builder, paused, page, entry, asked, staff>>

(* getStatus: three reads.  What does not answer is asked for no longer.    *)
Override(t) ==
    /\ tab[t].stage = "override"
    /\ Goes(t, CASE builder.override = "eligible" -> "save"
                 [] builder.override = "ineligible" -> "idle"
                 [] OTHER -> "slack")
    /\ UNCHANGED <<now, project, builder, paused, page, entry, asked, staff>>

AskSlack(t) ==
    /\ tab[t].stage = "slack"
    /\ Goes(t, CASE builder.slack = "none" -> "email"
                 [] builder.slack = "eligible" -> "save"
                 [] OTHER -> "idle")
    /\ UNCHANGED <<now, project, builder, paused, page, entry, asked, staff>>

AskEmail(t) ==
    /\ tab[t].stage = "email"
    /\ Goes(t, IF builder.email = "eligible" THEN "save" ELSE "idle")
    /\ UNCHANGED <<now, project, builder, paused, page, entry, asked, staff>>

Fails(t) ==
    /\ tab[t].stage # "idle" /\ Goes(t, "idle")
    /\ UNCHANGED <<now, project, builder, paused, page, entry, asked, staff>>

(* The save writes back whatever of the project it read has changed since.  *)
Save(t) ==
    LET r == tab[t]
        queued == r.kind \in {"ship", "resubmit"} IN
    /\ r.stage = "save" /\ Goes(t, "idle")
    /\ project' = [status |-> CASE queued -> "unreviewed" [] r.kind = "create" -> "unshipped" [] OTHER -> r.status,
                   asked |-> r.asked]
    /\ entry' = IF r.kind = "edit" THEN entry ELSE [open |-> r.open, eligible |-> r.eligible \/ r.moves = 2]
    /\ asked' = [asked EXCEPT !.stale = @ \/ r.asked # asked.at]
    /\ page' = NoPage
    /\ UNCHANGED <<now, builder, paused, staff>>

Draft ==
    /\ project.status = "unreviewed"
    /\ project' = [project EXCEPT !.status = "unshipped"]
    /\ page' = NoPage
    /\ UNCHANGED <<now, builder, paused, tab, entry, asked, staff>>

-----------------------------------------------------------------------------
(* The staff and the clock.                                                 *)

Decide(status) ==
    /\ staff < MaxStaff /\ staff' = staff + 1
    /\ project.status \in {"unreviewed", "approved"} /\ project.status # status
    /\ project' = [status |-> status, asked |-> IF status = "changes_needed" THEN now ELSE project.asked]
    /\ asked' = IF status = "changes_needed" THEN [at |-> now, stale |-> FALSE] ELSE asked
    /\ page' = NoPage
    /\ UNCHANGED <<now, builder, paused, tab, entry>>

Grants(user) ==
    /\ staff < MaxStaff /\ staff' = staff + 1 /\ builder' = user
    /\ tab' = [t \in Tabs |-> Watch(tab[t], user)]
    /\ page' = NoPage
    /\ UNCHANGED <<now, project, paused, entry, asked>>

AddsTime ==                               \* mutant: a second grant adds to the first
    Grants([builder EXCEPT !.until = (IF hasActiveSubmissionExtension(builder) THEN @ ELSE now) + Extension])

(* A second grant starts the time again.                                    *)
setSubmissionExtension == \E until \in {NotSet, now + Extension} : Grants([builder EXCEPT !.until = until])
setUnrestrictedAccess == Grants([builder EXCEPT !.free = ~@])
setIdentityOverride == \E o \in {"none", "ineligible", "eligible"} \ {builder.override} :
    Grants([builder EXCEPT !.override = o])

(* The identity service verifies somebody, or stops answering.              *)
identityChanges ==
    \/ \E a \in {"none", "eligible"} \ {builder.slack} : Grants([builder EXCEPT !.slack = a])
    \/ \E a \in {"none", "ineligible"} \ {builder.email} : Grants([builder EXCEPT !.email = a])

setPaused ==
    /\ staff < MaxStaff /\ staff' = staff + 1
    /\ paused' = ~paused
    /\ UNCHANGED <<now, project, builder, tab, page, entry, asked>>

Tick ==
    /\ now < MaxNow /\ now' = now + 1
    /\ UNCHANGED <<project, builder, paused, tab, page, entry, asked, staff>>

-----------------------------------------------------------------------------
(* The page: what getSubmissionWindow and findByUser say when it loads, and *)
(* the same rule, by its own clock.                                         *)
LoadPage ==
    /\ page' = [status |-> project.status, freely |-> Freely(builder), until |-> builder.until,
                deadline |-> changesNeededDeadline(project.status, project.asked), same |-> TRUE]
    /\ UNCHANGED <<now, project, builder, paused, tab, entry, asked, staff>>

canShipProject == page.freely \/ (page.status = "changes_needed" /\ page.deadline > now)

WindowNext ==
    \/ \E t \in Tabs :
        \/ \E kind \in {"create", "edit", "ship", "resubmit"} : BeginRequest(t, kind)
        \/ Gate(t) \/ Pause(t) \/ Override(t) \/ AskSlack(t) \/ AskEmail(t) \/ Fails(t) \/ Save(t)
    \/ \E status \in {"changes_needed", "approved", "rejected"} : Decide(status)
    \/ Draft \/ setSubmissionExtension \/ setUnrestrictedAccess \/ setIdentityOverride
    \/ identityChanges \/ setPaused \/ Tick \/ LoadPage

WindowSpec == WindowInit /\ [][WindowNext]_windowVars

-----------------------------------------------------------------------------

(* What comes into the queue, or is made, was allowed at some time since    *)
(* the request began, and its builder eligible, unless the override or the  *)
(* service's answers changed twice while they were read.  A project sent    *)
(* back has its two days from when changes were last asked for, unless a    *)
(* request that had read it before saved it after.  And while nothing has   *)
(* changed since it loaded, the page offers what the gate lets through, and *)
(* nothing else, but for an extension whose end it does not see.            *)
WindowHolds ==
    /\ entry.open /\ entry.eligible
    /\ project.status = "changes_needed" => project.asked = asked.at \/ asked.stale
    /\ page.same =>
        /\ requireSubmissionAllowed(project.status, project.asked) => canShipProject
        /\ canShipProject => \/ requireSubmissionAllowed(project.status, project.asked)
                             \/ page.until # NotSet /\ page.until <= now
=============================================================================
