----------------------- MODULE PublicationInvariant ------------------------
(* The inductive invariant behind the properties of Publication.  It holds   *)
(* under the faults of SoundFaults, which excludes those the code does not   *)
(* survive.                                                                  *)
EXTENDS Publication

SoundFaults ==
  /\ "interrupt" \notin Faults /\ "unreadable" \notin Faults
  /\ \/ KeepModes = {TRUE}
     \/ "kill" \notin Faults /\ "restore_error" \notin Faults

Pending == journal # NoJournal /\ liveDb # journal.build
Target == journal.build

(* Where a name stands while a publication is pending: untouched, moved to   *)
(* the rollback directory, or replaced by the staged one.                    *)
Untouched(n) == /\ live[n] = prior[n] /\ stage[Target][n] = Target
                /\ backup[Target][n] = Absent
Moved(n) == /\ live[n] = Absent /\ stage[Target][n] = Target
            /\ backup[Target][n] = prior[n]
Placed(n) == /\ live[n] = Target /\ stage[Target][n] = Absent
             /\ backup[Target][n] = prior[n]

TrySteps == {"p_try", "p_backup", "p_note_backup", "p_phase2", "p_place",
             "p_note_place", "p_phase3", "p_commit"}
PendingSteps == TrySteps \cup RestoreSteps
                \cup {"r_live", "r_backup", "r_rollback", "r_unlink"}
CommittedSteps == {"p_note_commit", "p_phase4"} \cup CleanupSteps

(* Who runs what: recovery belongs to the recover step of the shell, all     *)
(* else to its publish step; an orphan has no shell.                         *)
ProcessInv ==
  /\ keep \in KeepModes
  /\ pc \in PublishSteps \cup RestoreSteps => shell \in {"publish", "off"}
  /\ pc \in RecoverSteps => shell \in {"recover", "off"}
  /\ pc \in CleanupSteps => shell \in {"publish", "recover", "off"}
  /\ shell \in {"publish", "recover"} => pc # "off"

(* Builds that have not begun own nothing; the one being built is the last   *)
(* and is not published.                                                     *)
FreshInv ==
  /\ liveDb <= begun /\ cur <= begun /\ journal.build <= begun
  /\ \A b \in Builds : b > begun => \A n \in Names : backup[b][n] = Absent
  /\ (shell \in {"collect", "prepare"} \/ pc \in {"p_check", "p_journal"}) =>
       /\ cur = begun /\ cur > liveDb
       /\ \A n \in Names : backup[cur][n] = Absent /\ stage[cur][n] = cur

(* When there is a journal, and whose it is. *)
JournalInv ==
  /\ (shell \in {"discover", "begin", "collect", "prepare"}
        \/ pc \in {"p_check", "p_journal"}) => journal = NoJournal
  /\ pc \in PendingSteps => Pending /\ cur = Target
  /\ pc \in CommittedSteps => journal # NoJournal /\ liveDb = Target /\ cur = Target
  /\ pc = "r_read" => journal # NoJournal /\ cur = Target
  /\ (shell = "trap" /\ Pending) => keep

PendingInv ==
  Pending =>
    /\ Target > liveDb
    /\ \A n \in Names : prior[n] = liveDb \/ (liveDb = 0 /\ prior[n] = Absent)
    /\ \A n \in Names : Untouched(n) \/ Moved(n) \/ Placed(n)

(* How far publish_build has come, name by name. *)
TryInv ==
  /\ pc \in {"off", "p_check", "p_journal"} => published = {} /\ backedUp = {}
  /\ pc = "p_try" => published = {} /\ backedUp = {} /\ \A n \in Names : Untouched(n)
  /\ pc \in {"p_backup", "p_note_backup"} =>
       /\ published = {}
       /\ \A n \in Names \ todo : Moved(n) /\ (prior[n] = Absent \/ n \in backedUp)
       /\ \A n \in todo : Untouched(n) \/ (pc = "p_note_backup" /\ n = First(todo))
  /\ pc = "p_note_backup" => todo # {} /\ Moved(First(todo))
  /\ pc \in {"p_phase2", "p_place", "p_note_place", "p_phase3", "p_commit"} =>
       \A n \in Names : prior[n] = Absent \/ n \in backedUp
  /\ pc = "p_phase2" => published = {} /\ \A n \in Names : Moved(n)
  /\ pc \in {"p_place", "p_note_place"} =>
       /\ published = Names \ todo
       /\ \A n \in Names \ todo : Placed(n)
       /\ \A n \in todo : Moved(n) \/ (pc = "p_note_place" /\ n = First(todo))
  /\ pc = "p_note_place" => todo # {} /\ Placed(First(todo))
  /\ pc \in {"p_phase3", "p_commit"} =>
       published = Names /\ \A n \in Names : Placed(n)

(* How far the restoration has come. *)
RestoreInv ==
  /\ pc = "x_published" =>
       \A n \in Names : /\ n \in todo <=> Placed(n)
                        /\ Untouched(n) \/ prior[n] = Absent \/ n \in backedUp
  /\ pc = "x_backups" =>
       \A n \in Names : Untouched(n) \/ (Moved(n) /\ n \in todo)
  /\ pc \in {"x_rollback", "x_unlink"} => \A n \in Names : Untouched(n)

(* How far recovery has come. *)
RecoverInv ==
  /\ pc \in {"r_live", "r_backup"} => \A n \in Names \ todo : Untouched(n)
  /\ pc = "r_backup" => todo # {} /\ ~Placed(First(todo))
  /\ pc \in {"r_rollback", "r_unlink"} => \A n \in Names : Untouched(n)

IInv ==
  /\ TypeOK
  /\ ProcessInv
  /\ FreshInv
  /\ JournalInv
  /\ ReportsMatchDatabase
  /\ CommittedReportsLive
  /\ PendingInv
  /\ TryInv
  /\ RestoreInv
  /\ RecoverInv
=============================================================================
