---------------------------- MODULE Publication ----------------------------
(* The publication of a graph build: scripts/rebuild_all.sh drives           *)
(* workspace/build_publish.py through recover, begin, the collectors,        *)
(* prepare and publish, one rename, removal or journal write at a time.      *)
(*                                                                           *)
(* Builds are numbered in the order of their `begin`.  A report directory    *)
(* (workspace or raw) is represented by the build whose reports it holds:    *)
(* 0 when --discover-only wrote it before any build was published, Absent    *)
(* when the directory does not exist.                                        *)
EXTENDS Integers, FiniteSets

CONSTANTS
  MaxBuilds,   \* bound on the builds that may begin
  MaxFaults,   \* bound on the faults of a behaviour
  Faults,      \* the kinds of fault that may strike
  KeepModes    \* the values --keep-failed-db may take

FaultKinds == {"call_error", "restore_error", "interrupt", "kill", "power",
               "hangup", "unreadable"}

ASSUME MaxBuildsAssumption == MaxBuilds \in Nat
ASSUME MaxFaultsAssumption == MaxFaults \in Nat
ASSUME FaultsAssumption == Faults \subseteq FaultKinds
ASSUME KeepModesAssumption == KeepModes \subseteq BOOLEAN /\ KeepModes # {}

Names == {"workspace", "raw"}     \* for name in ("workspace", "raw")
First(todo) == IF "workspace" \in todo THEN "workspace" ELSE "raw"

Builds == 1..MaxBuilds
Absent == -1
Owner == {Absent} \cup 0..MaxBuilds
Phases == {"prepared", "old_reports_backed_up", "new_reports_published",
           "database_committed"}
NoJournal == [build |-> 0, phase |-> "none"]

VARIABLES
  live,       \* data/workspace and data/raw: the owner of each
  liveDb,     \* the GRAPH_BUILD of data/android_context.db, 0 for no database
  stage,      \* data/staging/<build>/: the owner of each report directory
  stageDb,    \* data/staging/<build>/android_context.db
  backup,     \* data/rollback/<build>/: the owner of each directory
  journal,    \* data/.publish-journal.json
  begun,      \* how many builds have begun
  shell,      \* where rebuild_all.sh is; "off" when it does not run
  mode,       \* MODE: rebuild, or discover for --discover-only and --plan-only
  keep,       \* KEEP_FAILED
  pc,         \* where the publish or recover process is; "off" when none runs
  cur,        \* the batch that process, or the shell's STAGING, names
  todo,       \* the names its current loop has still to visit
  backedUp,   \* backed_up_names
  published,  \* published_names
  faults,     \* faults so far
  prior       \* auxiliary: the live reports when the journal was written

disk == <<live, liveDb, stage, stageDb, backup, journal>>
driver == <<begun, mode, keep, cur>>
locals == <<todo, backedUp, published>>
vars == <<disk, driver, shell, pc, locals, faults, prior>>

ShellSteps == {"off", "recover", "discover", "begin", "collect", "prepare",
               "publish", "trap"}
PublishSteps == {"p_check", "p_journal", "p_try", "p_backup", "p_note_backup",
                 "p_phase2", "p_place", "p_note_place", "p_phase3", "p_commit",
                 "p_note_commit", "p_phase4"}
CleanupSteps == {"c_rollback", "c_staging", "c_unlink"}
RestoreSteps == {"x_published", "x_backups", "x_rollback", "x_unlink"}
RecoverSteps == {"r_journal", "r_read", "r_live", "r_backup", "r_rollback",
                 "r_unlink"}
Steps == PublishSteps \cup CleanupSteps \cup RestoreSteps \cup RecoverSteps

TypeOK ==
  /\ live \in [Names -> Owner]
  /\ liveDb \in 0..MaxBuilds
  /\ stage \in [Builds -> [Names -> Owner]]
  /\ stageDb \in [Builds -> {"none", "graph", "verified"}]
  /\ backup \in [Builds -> [Names -> Owner]]
  /\ journal \in {NoJournal} \cup [build : Builds, phase : Phases]
  /\ begun \in 0..MaxBuilds
  /\ shell \in ShellSteps
  /\ mode \in {"rebuild", "discover"}
  /\ keep \in BOOLEAN
  /\ pc \in Steps \cup {"off"}
  /\ cur \in 0..MaxBuilds
  /\ todo \subseteq Names
  /\ backedUp \subseteq Names
  /\ published \subseteq Names
  /\ faults \in 0..MaxFaults
  /\ prior \in [Names -> Owner]

Nothing == [n \in Names |-> Absent]

Init ==
  /\ live = Nothing
  /\ liveDb = 0
  /\ stage = [b \in Builds |-> Nothing]
  /\ stageDb = [b \in Builds |-> "none"]
  /\ backup = [b \in Builds |-> Nothing]
  /\ journal = NoJournal
  /\ begun = 0
  /\ shell = "off"
  /\ mode = "rebuild"
  /\ keep \in KeepModes
  /\ pc = "off"
  /\ cur = 0
  /\ todo = {} /\ backedUp = {} /\ published = {}
  /\ faults = 0
  /\ prior = Nothing

-----------------------------------------------------------------------------
(* The end of the python process.  The shell goes on, or under set -e leaves *)
(* through its EXIT trap, which is only set once recovery is over.           *)
Return(ok) ==
  /\ pc' = "off"
  /\ shell' = CASE shell = "off" -> "off"
                [] shell = "recover" /\ ok ->
                     IF mode = "discover" THEN "discover" ELSE "begin"
                [] shell = "publish" /\ ~ok -> "trap"
                [] OTHER -> "off"
  /\ todo' = {} /\ backedUp' = {} /\ published' = {}

Goto(step) == pc' = step /\ UNCHANGED shell

(* except BaseException, before the database is committed. *)
Raise ==
  /\ Goto("x_published")
  /\ todo' = published
  /\ UNCHANGED <<backedUp, published>>

(* Mutant of WriteJournal: a phase outside PUBLISH_PHASES. *)
WriteJournalTypo(phase) ==
  journal' = [build |-> cur,
              phase |-> IF phase = "prepared" THEN "published" ELSE phase]

WriteJournal(phase) == journal' = [build |-> cur, phase |-> phase]

-----------------------------------------------------------------------------
(* rebuild_all.sh.  flock -n on data/.rebuild.lock: descriptor 9 is inherited *)
(* by every child, so the lock is free only when no process of an earlier     *)
(* invocation is left.                                                        *)
LockFree == shell = "off" /\ pc = "off"

Start ==
  /\ LockFree
  /\ mode' \in {"rebuild", "discover"}
  /\ keep' \in KeepModes
  /\ shell' = "recover"
  /\ pc' = "r_journal"
  /\ UNCHANGED <<disk, begun, cur, locals, faults, prior>>

(* --discover-only and --plan-only write their reports into the live         *)
(* workspace; a build-manifest.json already there stays.                     *)
Discover ==
  /\ shell = "discover" /\ pc = "off"
  /\ live' \in {live, [live EXCEPT !["workspace"] = IF @ = Absent THEN 0 ELSE @]}
  /\ shell' = "off"
  /\ UNCHANGED <<liveDb, stage, stageDb, backup, journal, driver, pc, locals,
                 faults, prior>>

Begin ==
  /\ shell = "begin" /\ pc = "off"
  /\ begun < MaxBuilds
  /\ begun' = begun + 1
  /\ cur' = begun + 1
  /\ stage' = [stage EXCEPT ![begun + 1] = [n \in Names |-> begun + 1]]
  /\ shell' = "collect"
  /\ UNCHANGED <<live, liveDb, stageDb, backup, journal, mode, keep, pc, locals,
                 faults, prior>>

BeginFails ==
  /\ shell = "begin" /\ pc = "off"
  /\ shell' = "off"
  /\ UNCHANGED <<disk, driver, pc, locals, faults, prior>>

(* The planner, the collectors and the validators fill the staging batch;    *)
(* any of them may fail.                                                     *)
Collect ==
  /\ shell = "collect" /\ pc = "off"
  /\ stageDb' = [stageDb EXCEPT ![cur] = "graph"]
  /\ shell' \in {"prepare", "trap"}
  /\ UNCHANGED <<live, liveDb, stage, backup, journal, driver, pc, locals,
                 faults, prior>>

(* record_graph_build, write_build_manifest, prepare_staged_database.  One   *)
(* that fails part-way may have written the build identity already.          *)
Prepare ==
  /\ shell = "prepare" /\ pc = "off"
  /\ stageDb' = [stageDb EXCEPT ![cur] = "verified"]
  /\ \/ shell' = "publish" /\ pc' = "p_check"
     \/ shell' = "trap" /\ UNCHANGED pc
  /\ UNCHANGED <<live, liveDb, stage, backup, journal, driver, locals, faults,
                 prior>>

PrepareFails ==
  /\ shell = "prepare" /\ pc = "off"
  /\ shell' = "trap"
  /\ UNCHANGED <<disk, driver, pc, locals, faults, prior>>

(* rmtree of a directory that holds reports and perhaps a database: one      *)
(* entry at a time, in the order the directory lists them.                   *)
StageEmpty(b) == stage[b] = Nothing /\ stageDb[b] = "none"

RemoveStaged(b) ==
  /\ \/ \E n \in Names : /\ stage[b][n] # Absent
                         /\ stage' = [stage EXCEPT ![b][n] = Absent]
                         /\ UNCHANGED stageDb
     \/ /\ stageDb[b] # "none"
        /\ stageDb' = [stageDb EXCEPT ![b] = "none"]
        /\ UNCHANGED stage
  /\ UNCHANGED <<live, liveDb, backup, journal>>

(* cleanup_failed_batch: build_publish fail, with --keep or without; its own *)
(* failure is ignored (|| true).                                             *)
(* Mutant of TrapRemoves: --keep is lost. *)
TrapRemovesKept ==
  /\ shell = "trap" /\ pc = "off"
  /\ RemoveStaged(cur)
  /\ UNCHANGED <<driver, shell, pc, locals, faults, prior>>

TrapRemoves ==
  /\ shell = "trap" /\ pc = "off"
  /\ ~keep
  /\ RemoveStaged(cur)
  /\ UNCHANGED <<driver, shell, pc, locals, faults, prior>>

TrapExits ==
  /\ shell = "trap" /\ pc = "off"
  /\ shell' = "off"
  /\ UNCHANGED <<disk, driver, pc, locals, faults, prior>>

-----------------------------------------------------------------------------
(* publish_build *)

(* The build identity in the staged database and manifest, sidecars, the     *)
(* quiescence of the live database, and no journal; a reader that keeps the  *)
(* live database busy refuses publication.                                   *)
Check ==
  /\ pc = "p_check"
  /\ \/ /\ stageDb[cur] = "verified" /\ stage[cur]["workspace"] = cur
        /\ journal = NoJournal
        /\ Goto("p_journal")
        /\ UNCHANGED locals
     \/ Return(FALSE)
  /\ UNCHANGED <<disk, driver, faults, prior>>

(* Mutant of Journal: the prepared phase is not written. *)
JournalSkipped ==
  /\ pc = "p_journal"
  /\ prior' = live
  /\ Goto("p_try")
  /\ UNCHANGED <<disk, driver, locals, faults>>

Journal ==
  /\ pc = "p_journal"
  /\ WriteJournal("prepared")
  /\ prior' = live
  /\ Goto("p_try")
  /\ UNCHANGED <<live, liveDb, stage, stageDb, backup, driver, locals, faults>>

EnterTry ==
  /\ pc = "p_try"
  /\ Goto("p_backup")
  /\ todo' = Names
  /\ UNCHANGED <<disk, driver, backedUp, published, faults, prior>>

BackUp ==
  /\ pc = "p_backup" /\ todo # {}
  /\ LET n == First(todo) IN
     IF live[n] = Absent
       THEN /\ Goto("p_backup")
            /\ todo' = todo \ {n}
            /\ UNCHANGED <<live, backup>>
       ELSE /\ backup' = [backup EXCEPT ![cur][n] = live[n]]
            /\ live' = [live EXCEPT ![n] = Absent]
            /\ Goto("p_note_backup")
            /\ UNCHANGED todo
  /\ UNCHANGED <<liveDb, stage, stageDb, journal, driver, backedUp, published,
                 faults, prior>>

(* Mutant of NoteBackUp: only the last name is remembered. *)
NoteBackUpForgets ==
  /\ pc = "p_note_backup"
  /\ backedUp' = {First(todo)}
  /\ todo' = todo \ {First(todo)}
  /\ Goto("p_backup")
  /\ UNCHANGED <<disk, driver, published, faults, prior>>

NoteBackUp ==
  /\ pc = "p_note_backup"
  /\ backedUp' = backedUp \cup {First(todo)}
  /\ todo' = todo \ {First(todo)}
  /\ Goto("p_backup")
  /\ UNCHANGED <<disk, driver, published, faults, prior>>

BackUpDone ==
  /\ pc = "p_backup" /\ todo = {}
  /\ Goto("p_phase2")
  /\ UNCHANGED <<disk, driver, locals, faults, prior>>

BackedUpPhase ==
  /\ pc = "p_phase2"
  /\ WriteJournal("old_reports_backed_up")
  /\ Goto("p_place")
  /\ todo' = Names
  /\ UNCHANGED <<live, liveDb, stage, stageDb, backup, driver, backedUp,
                 published, faults, prior>>

Place ==
  /\ pc = "p_place" /\ todo # {}
  /\ LET n == First(todo) IN
     IF stage[cur][n] = Absent
       THEN Raise /\ UNCHANGED <<live, stage>>
       ELSE /\ live' = [live EXCEPT ![n] = stage[cur][n]]
            /\ stage' = [stage EXCEPT ![cur][n] = Absent]
            /\ Goto("p_note_place")
            /\ UNCHANGED locals
  /\ UNCHANGED <<liveDb, stageDb, backup, journal, driver, faults, prior>>

NotePlace ==
  /\ pc = "p_note_place"
  /\ published' = published \cup {First(todo)}
  /\ todo' = todo \ {First(todo)}
  /\ Goto("p_place")
  /\ UNCHANGED <<disk, driver, backedUp, faults, prior>>

PlaceDone ==
  /\ pc = "p_place" /\ todo = {}
  /\ Goto("p_phase3")
  /\ UNCHANGED <<disk, driver, locals, faults, prior>>

PublishedPhase ==
  /\ pc = "p_phase3"
  /\ WriteJournal("new_reports_published")
  /\ Goto("p_commit")
  /\ UNCHANGED <<live, liveDb, stage, stageDb, backup, driver, locals, faults,
                 prior>>

(* replace_database: os.replace, the commit point. *)
Commit ==
  /\ pc = "p_commit"
  /\ liveDb' = cur
  /\ stageDb' = [stageDb EXCEPT ![cur] = "none"]
  /\ Goto("p_note_commit")
  /\ UNCHANGED <<live, stage, backup, journal, driver, locals, faults, prior>>

(* database_committed = True *)
NoteCommit ==
  /\ pc = "p_note_commit"
  /\ Goto("p_phase4")
  /\ UNCHANGED <<disk, driver, locals, faults, prior>>

CommittedPhase ==
  /\ pc = "p_phase4"
  /\ WriteJournal("database_committed")
  /\ Goto("c_rollback")
  /\ UNCHANGED <<live, liveDb, stage, stageDb, backup, driver, locals, faults,
                 prior>>

(* rmtree of data/rollback/<build>, at the end of publish_build, of          *)
(* recover_publication and of _restore_precommit_reports.                    *)
AfterRollback == [c_rollback |-> "c_staging", x_rollback |-> "x_unlink",
                  r_rollback |-> "r_unlink"]

RemoveRollback ==
  /\ pc \in DOMAIN AfterRollback
  /\ \/ /\ backup[cur] = Nothing
        /\ Goto(AfterRollback[pc])
        /\ UNCHANGED backup
     \/ /\ \E n \in Names : /\ backup[cur][n] # Absent
                            /\ backup' = [backup EXCEPT ![cur][n] = Absent]
        /\ UNCHANGED <<pc, shell>>
  /\ UNCHANGED <<live, liveDb, stage, stageDb, journal, driver, locals, faults,
                 prior>>

RemoveStaging ==
  /\ pc = "c_staging"
  /\ \/ StageEmpty(cur) /\ Goto("c_unlink") /\ UNCHANGED disk
     \/ RemoveStaged(cur) /\ UNCHANGED <<pc, shell>>
  /\ UNCHANGED <<driver, locals, faults, prior>>

(* journal.unlink(); after a restoration the exception is raised again. *)
Unlink ==
  /\ pc \in {"c_unlink", "x_unlink", "r_unlink"}
  /\ journal' = NoJournal
  /\ Return(pc # "x_unlink")
  /\ UNCHANGED <<live, liveDb, stage, stageDb, backup, driver, faults, prior>>

-----------------------------------------------------------------------------
(* _restore_precommit_reports *)

(* Mutant of RestorePublished: the rollback directory goes before its        *)
(* directories are moved back.                                               *)
RestorePublishedSwapped ==
  /\ pc = "x_published"
  /\ \/ /\ todo = {}
        /\ Goto("x_rollback")
        /\ UNCHANGED <<live, stage, locals>>
     \/ \E n \in todo :
          /\ live' = [live EXCEPT ![n] = Absent]
          /\ stage' = [stage EXCEPT ![cur][n] = live[n]]
          /\ todo' = todo \ {n}
          /\ UNCHANGED <<pc, shell, backedUp, published>>
  /\ UNCHANGED <<liveDb, stageDb, backup, journal, driver, faults, prior>>

RestorePublished ==
  /\ pc = "x_published"
  /\ \/ /\ todo = {}
        /\ Goto("x_backups")
        /\ todo' = backedUp
        /\ UNCHANGED <<live, stage, backedUp, published>>
     \/ \E n \in todo :
          IF live[n] # Absent /\ stage[cur][n] # Absent
            THEN Return(FALSE) /\ UNCHANGED <<live, stage>>
            ELSE /\ live' = [live EXCEPT ![n] = Absent]
                 /\ stage' = [stage EXCEPT ![cur][n] =
                                IF live[n] = Absent THEN @ ELSE live[n]]
                 /\ todo' = todo \ {n}
                 /\ UNCHANGED <<pc, shell, backedUp, published>>
  /\ UNCHANGED <<liveDb, stageDb, backup, journal, driver, faults, prior>>

RestoreBackups ==
  /\ pc = "x_backups"
  /\ \/ /\ todo = {}
        /\ Goto("x_rollback")
        /\ UNCHANGED <<live, backup, locals>>
     \/ \E n \in todo :
          IF backup[cur][n] # Absent /\ live[n] # Absent
            THEN Return(FALSE) /\ UNCHANGED <<live, backup>>
            ELSE /\ live' = [live EXCEPT ![n] =
                               IF backup[cur][n] = Absent THEN @ ELSE backup[cur][n]]
                 /\ backup' = [backup EXCEPT ![cur][n] = Absent]
                 /\ todo' = todo \ {n}
                 /\ UNCHANGED <<pc, shell, backedUp, published>>
  /\ UNCHANGED <<liveDb, stage, stageDb, journal, driver, faults, prior>>

-----------------------------------------------------------------------------
(* recover_publication *)

ReadJournal ==
  /\ pc = "r_journal"
  /\ IF journal = NoJournal
       THEN Return(TRUE) /\ UNCHANGED cur
       ELSE /\ cur' = journal.build
            /\ Goto("r_read")
            /\ UNCHANGED locals
  /\ UNCHANGED <<disk, begun, mode, keep, faults, prior>>

(* Mutant of ReadDatabase: recovery trusts the phase of the journal. *)
ReadDatabaseTrusts ==
  /\ pc = "r_read"
  /\ IF journal.phase = "database_committed"
       THEN Goto("c_rollback") /\ UNCHANGED todo
       ELSE Goto("r_live") /\ todo' = Names
  /\ UNCHANGED <<disk, driver, backedUp, published, faults, prior>>

(* Mutant of ReadDatabase: a committed publication is left as it is. *)
ReadDatabaseLeaves ==
  /\ pc = "r_read"
  /\ IF liveDb = cur
       THEN Return(TRUE)
       ELSE Goto("r_live") /\ todo' = Names /\ UNCHANGED <<backedUp, published>>
  /\ UNCHANGED <<disk, driver, faults, prior>>

(* read_graph_build_id(live_database) == batch.build_id *)
ReadDatabase ==
  /\ pc = "r_read"
  /\ IF liveDb = cur
       THEN Goto("c_rollback") /\ UNCHANGED todo
       ELSE Goto("r_live") /\ todo' = Names
  /\ UNCHANGED <<disk, driver, backedUp, published, faults, prior>>

(* Mutant of RecoverLive: the published reports stay where they are. *)
RecoverLiveStays ==
  /\ pc = "r_live" /\ todo # {}
  /\ Goto("r_backup")
  /\ UNCHANGED <<disk, driver, locals, faults, prior>>

RecoverLive ==
  /\ pc = "r_live" /\ todo # {}
  /\ LET n == First(todo) IN
     IF live[n] # Absent /\ stage[cur][n] = Absent
       THEN /\ stage' = [stage EXCEPT ![cur][n] = live[n]]
            /\ live' = [live EXCEPT ![n] = Absent]
       ELSE UNCHANGED <<live, stage>>
  /\ Goto("r_backup")
  /\ UNCHANGED <<liveDb, stageDb, backup, journal, driver, locals, faults, prior>>

(* Mutant of RecoverBackup: the rollback directory is not moved back. *)
RecoverBackupSkips ==
  /\ pc = "r_backup"
  /\ todo' = todo \ {First(todo)}
  /\ Goto("r_live")
  /\ UNCHANGED <<disk, driver, backedUp, published, faults, prior>>

RecoverBackup ==
  /\ pc = "r_backup"
  /\ LET n == First(todo) IN
     IF backup[cur][n] # Absent /\ live[n] # Absent
       THEN Return(FALSE) /\ UNCHANGED <<live, backup>>
       ELSE /\ live' = [live EXCEPT ![n] =
                          IF backup[cur][n] = Absent THEN @ ELSE backup[cur][n]]
            /\ backup' = [backup EXCEPT ![cur][n] = Absent]
            /\ todo' = todo \ {n}
            /\ Goto("r_live")
            /\ UNCHANGED <<backedUp, published>>
  /\ UNCHANGED <<liveDb, stage, stageDb, journal, driver, faults, prior>>

RecoverDone ==
  /\ pc = "r_live" /\ todo = {}
  /\ Goto("r_rollback")
  /\ UNCHANGED <<disk, driver, locals, faults, prior>>

-----------------------------------------------------------------------------
(* What may strike. *)
Strikes(kind) ==
  /\ kind \in Faults
  /\ faults < MaxFaults
  /\ faults' = faults + 1
  /\ UNCHANGED <<driver, prior>>

(* A call of the python process raises before it has an effect: inside the   *)
(* try of publish_build and before the commit it reaches the handler.        *)
CallError ==
  /\ Strikes("call_error")
  /\ \/ /\ pc \in {"p_backup", "p_phase2", "p_place", "p_phase3", "p_commit"}
        /\ Raise
     \/ /\ pc \in {"p_journal", "p_phase4"} \cup CleanupSteps \cup RecoverSteps
        /\ Return(FALSE)
  /\ UNCHANGED disk

(* A call of the handler itself raises. *)
RestoreError ==
  /\ Strikes("restore_error")
  /\ pc \in RestoreSteps
  /\ Return(FALSE)
  /\ UNCHANGED disk

(* KeyboardInterrupt is raised between a call and the statement that records *)
(* it: journal written but try not entered, a rename done but its name not   *)
(* added, the database replaced but database_committed still False.          *)
Interrupt ==
  /\ Strikes("interrupt")
  /\ \/ pc = "p_try" /\ Return(FALSE)
     \/ pc \in {"p_note_backup", "p_note_place", "p_note_commit"} /\ Raise
  /\ UNCHANGED disk

(* The python process is killed; the shell sees it fail. *)
Kill ==
  /\ Strikes("kill")
  /\ pc # "off"
  /\ Return(FALSE)
  /\ UNCHANGED disk

(* The whole process group, or the machine, stops. *)
PowerCut ==
  /\ Strikes("power")
  /\ ~LockFree
  /\ shell' = "off" /\ pc' = "off"
  /\ todo' = {} /\ backedUp' = {} /\ published' = {}
  /\ UNCHANGED disk

(* The shell alone is killed: the python process goes on as an orphan. *)
Hangup ==
  /\ Strikes("hangup")
  /\ shell # "off"
  /\ shell' = "off"
  /\ UNCHANGED <<disk, pc, locals>>

(* read_graph_build_id turns every sqlite3.Error into None. *)
Unreadable ==
  /\ Strikes("unreadable")
  /\ pc = "r_read"
  /\ Goto("r_live")
  /\ todo' = Names
  /\ UNCHANGED <<disk, backedUp, published>>

-----------------------------------------------------------------------------
Shell == \/ Discover \/ Begin \/ BeginFails \/ Collect \/ Prepare
         \/ PrepareFails \/ TrapRemoves \/ TrapExits

Publish == \/ Check \/ Journal \/ EnterTry \/ BackUp \/ NoteBackUp \/ BackUpDone
           \/ BackedUpPhase \/ Place \/ NotePlace \/ PlaceDone \/ PublishedPhase
           \/ Commit \/ NoteCommit \/ CommittedPhase \/ RemoveRollback
           \/ RemoveStaging \/ Unlink \/ RestorePublished \/ RestoreBackups

Recover == \/ ReadJournal \/ ReadDatabase \/ RecoverLive \/ RecoverBackup
           \/ RecoverDone

Strike == \/ CallError \/ RestoreError \/ Interrupt \/ Kill \/ PowerCut
          \/ Hangup \/ Unreadable

Next == Start \/ Shell \/ Publish \/ Recover \/ Strike

Spec == Init /\ [][Next]_vars

(* The operating system runs the processes on; the operator runs the tool    *)
(* again after it has ended.                                                 *)
FairSpec == Spec /\ WF_vars(Shell \/ Publish \/ Recover) /\ WF_vars(Start)

-----------------------------------------------------------------------------
(* Without a journal the published reports are those of the published        *)
(* database (design, goal: a failed step must not "leave its published       *)
(* reports inconsistent with it").                                           *)
ReportsMatchDatabase ==
  journal = NoJournal =>
    \A n \in Names : live[n] = liveDb \/ (liveDb = 0 /\ live[n] = Absent)

(* Until the database is replaced, every report directory that was live when *)
(* the journal was written is live or in the rollback directory the journal  *)
(* names: no step destroys the last copy.                                    *)
PriorReportsKept ==
  (journal # NoJournal /\ liveDb # journal.build) =>
    \A n \in Names : prior[n] = Absent \/ live[n] = prior[n]
                                       \/ backup[journal.build][n] = prior[n]

(* Once the database is the journal's build, that build's reports stay live: *)
(* a committed publication is finished, never rolled back.                   *)
CommittedReportsLive ==
  (journal # NoJournal /\ liveDb = journal.build) =>
    \A n \in Names : live[n] = liveDb

(* Recovery never meets a report directory that is both live and in the      *)
(* rollback directory: the branch that would stop every later rebuild.       *)
RecoveryNeverBlocked ==
  pc = "r_backup" =>
    LET n == First(todo) IN backup[cur][n] = Absent \/ live[n] = Absent

(* A verified batch that is neither published nor removed keeps all of its   *)
(* parts, for --keep-failed-db promises the complete failed batch.           *)
KeptBatchComplete ==
  \A b \in Builds :
    (stageDb[b] = "verified" /\ journal.build # b) =>
      \A n \in Names : stage[b][n] = b

(* A publication that ends without its database leaves the reports exactly   *)
(* as it found them.                                                         *)
FailureRestoresReports ==
  [][(journal # NoJournal /\ journal' = NoJournal /\ liveDb # journal.build)
       => live' = prior]_vars

(* An interrupted publication is always settled by a later run. *)
InterruptionSettled == journal # NoJournal ~> journal = NoJournal

(* Everything above implements the atomic replacement of one build by a      *)
(* later one, for a reader who waits while there is a journal.               *)
ViewedReports ==
  IF journal = NoJournal /\ ~ReportsMatchDatabase THEN Absent ELSE liveDb
Atomic == INSTANCE AtomicPublication WITH database <- liveDb,
                                          reports <- ViewedReports
AtomicSpec == Atomic!Spec
=============================================================================
