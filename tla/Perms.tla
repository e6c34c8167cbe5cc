--------------------------------- MODULE Perms ---------------------------------
(* One user's Perms in Airtable, and everybody who sets them: the check of  *)
(* the linked Hackatime account when a project is sent in, the connecting   *)
(* of an account, the staff, and the daily sweep that lets those back in    *)
(* whose account Hackatime has cleared.  Every call to Airtable, Hackatime  *)
(* or the database may fail, and other work runs while one is awaited.      *)
EXTENDS Naturals

CONSTANTS
    Accounts,     \* the Hackatime accounts the user may connect
    Primary,      \* those whose primary email is the user's
    Own,          \* those that list the user's email, as primary or not
    NoAccount,
    MaxFaults     \* bound: failures that end a sweep early

ASSUME PermsAssumption ==
    /\ Primary \subseteq Own /\ Own \subseteq Accounts
    /\ NoAccount \notin Accounts
    /\ MaxFaults \in Nat

VARIABLES
    perms,        \* the Perms field of the user's record, a role or 'Banned'
    flagged,      \* accounts that are banned or red-trust on Hackatime
    linked,       \* hackatimeUserId
    connecting,   \* handleCallback of the Hackatime service
    check,        \* verifyAccountOwnership
    audit,        \* what the audit log says: an ownership failure, an admin_ban
                  \* entry, which of the two is the latest
    banning,      \* banUser, of this user
    duty,         \* banUser, by this user and of somebody else
    sweep,        \* dailyOwnershipRecoverySweep, at this user
    held,         \* history: a ban by the staff was carried through and stands
    faults

userVars == <<linked, connecting>>
staffVars == <<banning, duty>>
sweepVars == <<sweep, faults>>
permsVars == <<perms, flagged, check, audit, held, userVars, staffVars, sweepVars>>

Known == Accounts \cup {NoAccount}
Now(stage) == [stage |-> stage, id |-> NoAccount]
Asleep == [stage |-> "asleep", id |-> NoAccount, deliberate |-> FALSE]

PermsTypeOK ==
    /\ perms \in {"Allowed", "Banned"}
    /\ linked \in Known /\ flagged \subseteq Accounts
    /\ audit \in [failed : BOOLEAN, manual : BOOLEAN, last : {"none", "fail", "ban"}]
    /\ audit.last = "fail" => audit.failed
    /\ audit.last = "ban" => audit.manual
    /\ check \in [stage : {"idle", "lookups", "log", "perms"}, id : Known]
    /\ connecting \in [stage : {"idle", "me", "save"}, id : Known]
    /\ banning \in {"idle", "perms", "log"}
    /\ duty \in BOOLEAN /\ held \in BOOLEAN
    /\ sweep \in [stage : {"asleep", "perms", "audit", "lookups", "clear"},
                  id : Known, deliberate : BOOLEAN]
    /\ faults \in 0 .. MaxFaults

PermsInit ==
    /\ perms = "Allowed"
    /\ flagged = {} /\ linked = NoAccount
    /\ connecting = Now("idle") /\ check = Now("idle")
    /\ audit = [failed |-> FALSE, manual |-> FALSE, last |-> "none"]
    /\ banning = "idle" /\ duty = FALSE
    /\ sweep = Asleep /\ held = FALSE /\ faults = 0

-----------------------------------------------------------------------------
(* verifyAccountOwnership.  Without a linked account, or if Hackatime does  *)
(* not answer, nothing happens; if the log throws, nobody is banned; if the *)
(* perms are not written, the error is swallowed.                           *)

CheckStart ==
    /\ check.stage = "idle" /\ linked # NoAccount
    /\ check' = [stage |-> "lookups", id |-> linked]
    /\ UNCHANGED <<perms, flagged, audit, held, userVars, staffVars, sweepVars>>

CheckVerdict ==
    /\ check.stage = "lookups"
    /\ \/ check' = Now("idle")
       \/ check.id \in flagged /\ check' = Now("log")
    /\ UNCHANGED <<perms, flagged, audit, held, userVars, staffVars, sweepVars>>

CheckLog ==
    /\ check.stage = "log"
    /\ \/ /\ check' = Now("perms")
          /\ audit' = [audit EXCEPT !.failed = TRUE, !.last = "fail"]
          /\ held' = FALSE /\ sweep' = [sweep EXCEPT !.deliberate = FALSE]
       \/ check' = Now("idle") /\ UNCHANGED <<audit, held, sweep>>
    /\ UNCHANGED <<perms, flagged, userVars, staffVars, faults>>

CheckBans ==
    /\ check.stage = "perms"
    /\ check' = Now("idle")
    /\ perms' \in {perms, "Banned"}
    /\ UNCHANGED <<flagged, audit, held, userVars, staffVars, sweepVars>>

-----------------------------------------------------------------------------
(* The staff.  banUser writes the perms first and the log last; whatever    *)
(* throws in between ends it.                                               *)

BanBegins ==
    /\ banning = "idle" /\ banning' = "perms"
    /\ UNCHANGED <<perms, flagged, check, audit, held, userVars, duty, sweepVars>>

BanWrites ==
    /\ banning = "perms" /\ banning' = "log"
    /\ perms' = "Banned"
    /\ UNCHANGED <<flagged, check, audit, held, userVars, duty, sweepVars>>

BanThrows ==
    /\ banning # "idle" /\ banning' = "idle"
    /\ UNCHANGED <<perms, flagged, check, audit, held, userVars, duty, sweepVars>>

LogBan == audit' = [audit EXCEPT !.manual = TRUE, !.last = "ban"]

BanLogs ==
    /\ banning = "log" /\ banning' = "idle"
    /\ LogBan /\ held' = TRUE
    /\ UNCHANGED <<perms, flagged, check, userVars, duty, sweepVars>>

(* A user who is on the staff bans somebody: admin_ban is on both records.  *)
BansSomebody ==
    /\ IF duty THEN LogBan ELSE perms = "Allowed" /\ UNCHANGED audit
    /\ duty' = ~duty
    /\ UNCHANGED <<perms, flagged, check, held, userVars, banning, sweepVars>>

(* updatePerms of the admin service, to anything but 'Banned'.              *)
SetPerms ==
    /\ perms' = "Allowed"
    /\ held' = FALSE /\ sweep' = [sweep EXCEPT !.deliberate = FALSE]
    /\ UNCHANGED <<flagged, check, audit, userVars, staffVars, faults>>

-----------------------------------------------------------------------------
(* The user connects an account.  A red one is a ban, without an entry in   *)
(* the log; whatever throws on the way is caught and the account connected, *)
(* without its id if that is not known.                                     *)

Connect(a) ==
    /\ connecting.stage = "idle"
    /\ connecting' = [stage |-> "me", id |-> a]
    /\ UNCHANGED <<perms, flagged, check, audit, held, linked, staffVars, sweepVars>>

ConnectChecks ==
    /\ connecting.stage = "me"
    /\ \/ connecting.id \in flagged /\ perms' = "Banned" /\ connecting' = Now("idle")
       \/ /\ connecting.id \in flagged => perms' \in {perms, "Banned"}
          /\ connecting.id \notin flagged => perms' = perms
          /\ \E id \in {connecting.id, NoAccount} :
                connecting' = [stage |-> "save", id |-> id]
    /\ UNCHANGED <<flagged, check, audit, held, linked, staffVars, sweepVars>>

ConnectSaves ==
    /\ connecting.stage = "save"
    /\ linked' = IF connecting.id = NoAccount THEN linked ELSE connecting.id
    /\ connecting' = Now("idle")
    /\ UNCHANGED <<perms, flagged, check, audit, held, staffVars, sweepVars>>

(* Hackatime flags an account, or clears it.                                *)
Hackatime(a) ==
    /\ flagged' = IF a \in flagged THEN flagged \ {a} ELSE flagged \cup {a}
    /\ UNCHANGED <<perms, check, audit, held, userVars, staffVars, sweepVars>>

-----------------------------------------------------------------------------
(* The daily sweep.                                                         *)

Sweep(stage) == sweep' = [sweep EXCEPT !.stage = stage]
SweepAlone == UNCHANGED <<flagged, check, audit, held, userVars, staffVars>>

(* findUsersWithOwnershipFailLabels, then the user's row.                   *)
SweepStart ==
    /\ sweep.stage = "asleep"
    /\ audit.failed /\ linked # NoAccount
    /\ sweep' = [stage |-> "perms", id |-> linked, deliberate |-> held]
    /\ UNCHANGED <<perms, faults>> /\ SweepAlone

SweepReadsPerms ==
    /\ sweep.stage = "perms"
    /\ IF perms = "Banned" THEN Sweep("audit") ELSE sweep' = Asleep
    /\ UNCHANGED <<perms, faults>> /\ SweepAlone

hasManualBanAfterOwnershipFail ==
    audit.manual /\ (audit.failed => audit.last = "ban")

SweepReadsAudit ==
    /\ sweep.stage = "audit"
    /\ IF hasManualBanAfterOwnershipFail THEN sweep' = Asleep ELSE Sweep("lookups")
    /\ UNCHANGED <<perms, faults>> /\ SweepAlone

(* evaluateOwnership, on both lookups; or without the second, whose failure *)
(* is taken for an account without flags or emails.                         *)
SweepJudges ==
    /\ sweep.stage = "lookups"
    /\ IF sweep.id \in Own \ flagged THEN Sweep("clear") ELSE sweep' = Asleep
    /\ UNCHANGED <<perms, faults>> /\ SweepAlone

SweepJudgesBlindly ==
    /\ sweep.stage = "lookups" /\ sweep.id \in Primary
    /\ Sweep("clear")
    /\ UNCHANGED <<perms, faults>> /\ SweepAlone

SweepClears ==
    /\ sweep.stage = "clear"
    /\ perms' = "Allowed" /\ sweep' = Asleep
    /\ UNCHANGED faults /\ SweepAlone

(* A call fails, or the backend restarts.                                   *)
SweepFails ==
    /\ sweep.stage # "asleep" /\ faults < MaxFaults
    /\ sweep' = Asleep /\ faults' = faults + 1
    /\ UNCHANGED perms /\ SweepAlone

SweepStep == SweepReadsPerms \/ SweepReadsAudit \/ SweepJudges \/ SweepClears

PermsNext ==
    \/ CheckStart \/ CheckVerdict \/ CheckLog \/ CheckBans
    \/ BanBegins \/ BanWrites \/ BanThrows \/ BanLogs \/ BansSomebody
    \/ SetPerms
    \/ \E a \in Accounts : Connect(a) \/ Hackatime(a)
    \/ ConnectChecks \/ ConnectSaves
    \/ SweepStart \/ SweepStep \/ SweepJudgesBlindly \/ SweepFails

PermsSpec == PermsInit /\ [][PermsNext]_permsVars

(* The cron runs every day and comes to the end of what it started.         *)
PermsFairness == WF_permsVars(SweepStart) /\ WF_permsVars(SweepStep)

-----------------------------------------------------------------------------

(* dailyOwnershipRecoverySweep lets a user back in: once the failure is the *)
(* latest verdict on record and one account of theirs stays linked and      *)
(* clean, they are not banned for good, whoever bans or connects meanwhile.  *)
ClearedComeBack == \A a \in Own :
    <>[](audit.last = "fail" /\ linked = a /\ a \notin flagged) => []<>(perms # "Banned")

(* hasManualBanAfterOwnershipFail: no sweep reverses a ban by the staff     *)
(* that was carried through before it came to the user, unless the staff    *)
(* lifted it or the account failed once more.  (A ban that threw before its *)
(* last step left no entry, and one that came during the sweep is missed.)  *)
ManualBanHeld == [][SweepClears => ~sweep.deliberate]_permsVars

(* The sweep is just: it lets back in whom it should, and nobody else.      *)
SweepIsJust == ClearedComeBack /\ ManualBanHeld
=============================================================================
