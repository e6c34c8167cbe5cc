------------------------------- MODULE Devlogs -------------------------------
(* DevlogsService and LookoutService: a builder's devlogs, the timelapse    *)
(* sessions recorded for a project and attached to one devlog each, and the *)
(* export that mirrors their videos.  Rows are read, then saved whole after *)
(* calls to Lookout and the CDN; foreign keys and a unique index are all    *)
(* that orders requests which overlap.                                      *)
EXTENDS OneProcess, Naturals

CONSTANTS
    DevlogProjects,  \* projects of one builder
    DevlogIds, SessionIds,
    ApprovedHours,   \* hours a reviewer may give a devlog
    Unborn, Deleted  \* an id not used yet, and one whose row is gone

Devlog == [project: DevlogProjects \cup {None}, approved: BOOLEAN,
           hours: ApprovedHours \cup {0, None}]

(* cdn: the video is mirrored; old: created more than seven days ago.       *)
Session == [project: DevlogProjects, devlog: DevlogIds \cup {None},
            cdn: BOOLEAN, old: BOOLEAN]

ASSUME DevlogsAssumption ==
    /\ ApprovedHours \subseteq Nat
    /\ Unborn # Deleted
    /\ {Unborn, Deleted} \cap (Devlog \cup Session) = {}
    /\ None \notin Devlog \cup Session \cup Nat

VARIABLES
    projectRows,     \* the projects that exist
    devlogs, lookoutSessions,
    job              \* each request, with the session row it read

devlogVars == <<projectRows, devlogs, lookoutSessions, job>>

JobStages == {"idle", "uploading", "attach", "attaching", "opening", "listed", "mirroring"}
NoJob == [stage |-> "idle", project |-> None, session |-> None, devlog |-> None, row |-> None]

DevlogRows  == {d \in DevlogIds : devlogs[d] \notin {Unborn, Deleted}}
SessionRows == {s \in SessionIds : lookoutSessions[s] \notin {Unborn, Deleted}}

DevlogsTypeOK ==
    /\ projectRows \subseteq DevlogProjects
    /\ devlogs \in [DevlogIds -> Devlog \cup {Unborn, Deleted}]
    /\ \A d \in DevlogRows : devlogs[d].approved = (devlogs[d].hours # None)
    /\ lookoutSessions \in [SessionIds -> Session \cup {Unborn, Deleted}]
    /\ job \in [Requests -> [stage: JobStages, project: DevlogProjects \cup {None},
                             session: SessionIds \cup {None},
                             devlog: DevlogIds \cup {None}, row: Session \cup {None}]]

DevlogsInit ==
    /\ projectRows = DevlogProjects
    /\ devlogs = [d \in DevlogIds |-> Unborn]
    /\ lookoutSessions = [s \in SessionIds |-> Unborn]
    /\ job = [r \in Requests |-> NoJob]

StartJob(r, state) == job[r] = NoJob /\ job' = Turn(job, r, state)
EndJob(r) == job' = Turn(job, r, NoJob)

-----------------------------------------------------------------------------
(* save(session): an UPDATE of every column that differs from the entity,   *)
(* or an INSERT if the row is gone.  The keys may refuse it.                *)
KeysHold(s, row) ==
    /\ row.project \in projectRows
    /\ row.devlog # None =>
        /\ row.devlog \in DevlogRows
        /\ \A t \in SessionRows \ {s} : lookoutSessions[t].devlog # row.devlog

Save(s, row) ==
    lookoutSessions' = IF KeysHold(s, row)
                       THEN [lookoutSessions EXCEPT ![s] = row] ELSE lookoutSessions

-----------------------------------------------------------------------------
(* DevlogsService.create.                                                   *)

CreateDevlog(r, p, s) ==
    /\ p \in projectRows
    /\ StartJob(r, [NoJob EXCEPT !.stage = "uploading", !.project = p, !.session = s])
    /\ UNCHANGED <<projectRows, devlogs, lookoutSessions>>

(* uploadImages throws; nothing was written.                                *)
UploadFails(r) ==
    /\ job[r].stage = "uploading"
    /\ EndJob(r)
    /\ UNCHANGED <<projectRows, devlogs, lookoutSessions>>

SaveDevlog(r, d) ==
    /\ job[r].stage = "uploading" /\ devlogs[d] = Unborn
    /\ IF job[r].project \in projectRows
       THEN /\ devlogs' = [devlogs EXCEPT ![d] =
                    [project |-> job[r].project, approved |-> FALSE, hours |-> None]]
            /\ IF job[r].session = None THEN EndJob(r)
               ELSE job' = [job EXCEPT ![r].stage = "attach", ![r].devlog = d]
       ELSE EndJob(r) /\ UNCHANGED devlogs
    /\ UNCHANGED <<projectRows, lookoutSessions>>

-----------------------------------------------------------------------------
(* LookoutService.attachToDevlog.                                           *)

ReadFreeSession(r) ==
    LET s == job[r].session IN
    /\ job[r].stage = "attach"
    /\ IF /\ s \in SessionRows
          /\ lookoutSessions[s].project = job[r].project /\ lookoutSessions[s].devlog = None
       THEN job' = [job EXCEPT ![r].stage = "attaching", ![r].row = lookoutSessions[s]]
       ELSE EndJob(r)
    /\ UNCHANGED <<projectRows, devlogs, lookoutSessions>>

Attach(r) ==
    /\ job[r].stage = "attaching"
    /\ Save(job[r].session, [job[r].row EXCEPT !.devlog = job[r].devlog])
    /\ EndJob(r)
    /\ UNCHANGED <<projectRows, devlogs>>

-----------------------------------------------------------------------------
(* Recording: LookoutController.createSession, the list and its pruning.    *)

OpenSession(r, p) ==
    /\ p \in projectRows
    /\ StartJob(r, [NoJob EXCEPT !.stage = "opening", !.project = p])
    /\ UNCHANGED <<projectRows, devlogs, lookoutSessions>>

(* Lookout answers or does not; the project may be gone when it has.        *)
SaveLookout(r, s) ==
    /\ job[r].stage = "opening" /\ lookoutSessions[s] = Unborn
    /\ \/ Save(s, [project |-> job[r].project, devlog |-> None, cdn |-> FALSE, old |-> FALSE])
       \/ UNCHANGED lookoutSessions
    /\ EndJob(r)
    /\ UNCHANGED <<projectRows, devlogs>>

Age(s) ==
    /\ s \in SessionRows /\ ~lookoutSessions[s].old
    /\ lookoutSessions' = [lookoutSessions EXCEPT ![s].old = TRUE]
    /\ job' = [r \in Requests |->
        IF job[r].session = s /\ job[r].row # None THEN [job[r] EXCEPT !.row.old = TRUE]
        ELSE job[r]]
    /\ UNCHANGED <<projectRows, devlogs>>

Stale(s) == s \in SessionRows /\ lookoutSessions[s].old /\ lookoutSessions[s].devlog = None

PruneAllOld ==                                     \* mutant: attached ones too
    /\ \E s \in SessionRows : lookoutSessions[s].old
    /\ lookoutSessions' = [s \in SessionIds |->
        IF s \in SessionRows /\ lookoutSessions[s].old THEN Deleted ELSE lookoutSessions[s]]
    /\ UNCHANGED <<projectRows, devlogs, job>>

(* pruneStaleUnattached, whenever the picker is listed.                     *)
Prune ==
    /\ \E s \in SessionIds : Stale(s)
    /\ lookoutSessions' = [s \in SessionIds |->
        IF Stale(s) THEN Deleted ELSE lookoutSessions[s]]
    /\ UNCHANGED <<projectRows, devlogs, job>>

-----------------------------------------------------------------------------
(* buildDevlogsExport and mirrorSessionToCdn.                               *)

Export(r, s) ==
    /\ s \in SessionRows /\ lookoutSessions[s].devlog # None
    /\ StartJob(r, [NoJob EXCEPT !.stage = "listed", !.session = s])
    /\ UNCHANGED <<projectRows, devlogs, lookoutSessions>>

(* The row is read again; it may be gone, or mirrored already.              *)
ReadForMirror(r) ==
    LET s == job[r].session IN
    /\ job[r].stage = "listed"
    /\ IF s \in SessionRows /\ ~lookoutSessions[s].cdn
       THEN job' = [job EXCEPT ![r].stage = "mirroring", ![r].row = lookoutSessions[s]]
       ELSE EndJob(r)
    /\ UNCHANGED <<projectRows, devlogs, lookoutSessions>>

(* No video yet, or one of three calls fails.                               *)
MirrorFails(r) ==
    /\ job[r].stage = "mirroring"
    /\ EndJob(r)
    /\ UNCHANGED <<projectRows, devlogs, lookoutSessions>>

Mirrored(r) ==
    /\ job[r].stage = "mirroring"
    /\ Save(job[r].session, [job[r].row EXCEPT !.cdn = TRUE])
    /\ EndJob(r)
    /\ UNCHANGED <<projectRows, devlogs>>

-----------------------------------------------------------------------------
(* Deletions, with what the keys do to the rows that refer to the deleted,  *)
(* and the review of a devlog.                                              *)

DeleteOwn(d) ==
    /\ d \in DevlogRows
    /\ devlogs' = [devlogs EXCEPT ![d] = Deleted]
    /\ lookoutSessions' = [s \in SessionIds |->
        IF s \in SessionRows /\ lookoutSessions[s].devlog = d
        THEN [lookoutSessions[s] EXCEPT !.devlog = None] ELSE lookoutSessions[s]]
    /\ UNCHANGED <<projectRows, job>>

DeleteProject(p) ==
    /\ p \in projectRows
    /\ projectRows' = projectRows \ {p}
    /\ devlogs' = [d \in DevlogIds |->
        IF d \in DevlogRows /\ devlogs[d].project = p
        THEN [devlogs[d] EXCEPT !.project = None] ELSE devlogs[d]]
    /\ lookoutSessions' = [s \in SessionIds |->
        IF s \in SessionRows /\ lookoutSessions[s].project = p THEN Deleted
        ELSE lookoutSessions[s]]
    /\ UNCHANGED job

(* One transaction that locks the devlog; a verdict may be given again.     *)
ReviewDevlog(d, approved, h) ==
    /\ d \in DevlogRows /\ devlogs[d].project # None
    /\ devlogs' = [devlogs EXCEPT ![d].approved = approved,
                                  ![d].hours = IF approved THEN h ELSE None]
    /\ UNCHANGED <<projectRows, lookoutSessions, job>>

DevlogsCrash ==
    /\ \E r \in Requests : job[r] # NoJob
    /\ job' = [r \in Requests |-> NoJob]
    /\ UNCHANGED <<projectRows, devlogs, lookoutSessions>>

-----------------------------------------------------------------------------
Proceed(r) ==
    \/ UploadFails(r)
    \/ \E d \in DevlogIds : SaveDevlog(r, d)
    \/ ReadFreeSession(r)
    \/ Attach(r)
    \/ \E s \in SessionIds : SaveLookout(r, s)
    \/ ReadForMirror(r)
    \/ MirrorFails(r)
    \/ Mirrored(r)

DevlogsNext ==
    \/ \E r \in Requests :
        \/ \E p \in DevlogProjects :
            \/ \E s \in SessionIds \cup {None} : CreateDevlog(r, p, s)
            \/ OpenSession(r, p)
        \/ \E s \in SessionIds : Export(r, s)
        \/ Proceed(r)
    \/ \E s \in SessionIds : Age(s)
    \/ Prune
    \/ \E d \in DevlogIds :
        \/ DeleteOwn(d)
        \/ \E approved \in BOOLEAN, h \in ApprovedHours \cup {0} : ReviewDevlog(d, approved, h)
    \/ \E p \in DevlogProjects : DeleteProject(p)
    \/ DevlogsCrash

DevlogsSpec == DevlogsInit /\ [][DevlogsNext]_devlogVars

-----------------------------------------------------------------------------
(* Properties.                                                              *)

(* A timelapse is evidence for the project it was recorded on: the devlog   *)
(* it is attached to exists and belongs to that project, whichever stale    *)
(* row was saved over it, and no devlog has two.                            *)
EvidenceBelongs ==
    \A s \in SessionRows :
        LET row == lookoutSessions[s] IN
        /\ row.project \in projectRows
        /\ row.devlog # None =>
            /\ row.devlog \in DevlogRows
            /\ devlogs[row.devlog].project = row.project
            /\ \A t \in SessionRows : lookoutSessions[t].devlog = row.devlog => t = s

KeepsEvidence(s) ==
    LET row == lookoutSessions[s] IN
    row.devlog # None =>
        \/ lookoutSessions'[s] \notin {Unborn, Deleted}
            /\ lookoutSessions'[s].devlog = row.devlog
            /\ (row.cdn => lookoutSessions'[s].cdn)
        \/ devlogs'[row.devlog] = Deleted
        \/ row.project \notin projectRows'
        \/ \E r \in Requests : job[r].session = s /\ job[r].row # None /\ job[r].row # row

(* An attached timelapse is never pruned, and stays with its devlog and     *)
(* mirrored until a devlog or a project is deleted, or until a request      *)
(* saves a row it had read before the timelapse was attached or mirrored.   *)
EvidenceKept == [][\A s \in SessionRows : KeepsEvidence(s)]_devlogVars

(* Evidence stands where it was recorded, for as long as it is wanted.      *)
EvidenceStands == []EvidenceBelongs /\ EvidenceKept
=============================================================================
