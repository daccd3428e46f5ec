------------------------------ MODULE Install ------------------------------
(* scripts/install_project.py: a fresh installation or an upgrade builds a   *)
(* verified payload beside the target and swaps it in by renames; the data   *)
(* and .venv directories of the old tree move into the new one.  An upgrade  *)
(* whose promotion fails puts the old tree back.                             *)
(*                                                                           *)
(* A run is one invocation; its staging and rollback paths carry a uuid of   *)
(* its own, so they are indexed by the run.  A tree is represented by the    *)
(* run that made its payload (0 for the payload installed before), the       *)
(* runtime directories it holds, and whether it has the local configuration. *)
(* A rename moves a tree in one step; a removal takes it apart entry by      *)
(* entry, and keeps hold of it wherever another run renames it to.           *)
EXTENDS Integers, FiniteSets

CONSTANTS
  MaxRuns,      \* bound on the invocations
  MaxAtOnce,    \* bound on the invocations at work at the same time
  MaxFaults,    \* bound on the calls that fail, ...
  MaxFaultsAtOnce   \* ... and on those where invocations overlap

ASSUME MaxRunsAssumption == MaxRuns \in Nat
ASSUME MaxAtOnceAssumption == MaxAtOnce \in Nat
ASSUME MaxFaultsAssumption == MaxFaults \in Nat /\ MaxFaultsAtOnce \in Nat

Runs == 1..MaxRuns
RuntimeDirs == {"data", ".venv"}     \* PRESERVED_RUNTIME_DIRECTORIES

NoPayload == -1                      \* nothing of a payload
Part == -2                           \* what a removal has left of one
Whole(tree) == tree.payload \in Runs \cup {0}

EmptyDir == [payload |-> NoPayload, dirs |-> {}, local |-> FALSE]
NoTree == [payload |-> -3, dirs |-> {}, local |-> FALSE]

VARIABLES
  target,     \* the installed project
  stage,      \* .install-staging-<target>-<uuid> of each run
  rollback,   \* .install-rollback-<target>-<uuid> of each run
  pc,         \* where each run is
  todo,       \* the runtime directories a run's loop has still to visit
  promoted,   \* the local variable of install_upgrade
  opened,     \* the tree that the removal of each run is at, by its path now
  overlap,    \* may an invocation start while another runs? No lock is taken
  faults,     \* failed calls so far
  before      \* auxiliary: the target when the run started

vars ==
  <<target, stage, rollback, pc, todo, promoted, opened, overlap, faults, before>>

Ended == {"installed", "failed", "unrestored", "crashed"}

Exists(tree) == tree # NoTree

\* os.replace puts a directory in the place of nothing, or of an empty one.
Free(tree) == tree \in {NoTree, EmptyDir}

\* A tree with one more runtime directory; mkdir makes what is missing.
With(tree, d) == [(IF Exists(tree) THEN tree ELSE EmptyDir) EXCEPT !.dirs = @ \cup {d}]
Without(tree, d) == [tree EXCEPT !.dirs = @ \ {d}]

\* Paths of trees, and those of a removal that has none to work on.
Target == <<"target", 0>>
Rollback(r) == <<"rollback", r>>
Trees == {Target} \cup ({"stage", "rollback"} \X Runs)
NotOpen == <<"none", 0>>
At(t) == CASE t[1] = "target" -> target
           [] t[1] = "stage" -> stage[t[2]]
           [] t[1] = "rollback" -> rollback[t[2]]
Renamed(from, to) == [r \in Runs |-> IF opened[r] = from THEN to ELSE opened[r]]

Init ==
  /\ target \in {NoTree} \cup
       [payload : {0}, dirs : SUBSET RuntimeDirs, local : BOOLEAN]
  /\ stage = [r \in Runs |-> NoTree]
  /\ rollback = [r \in Runs |-> NoTree]
  /\ pc = [r \in Runs |-> "new"]
  /\ todo = [r \in Runs |-> {}]
  /\ promoted = [r \in Runs |-> FALSE]
  /\ opened = [r \in Runs |-> NotOpen]
  /\ overlap \in BOOLEAN
  /\ faults = 0
  /\ before = [r \in Runs |-> NoTree]

Goto(r, step) == pc' = [pc EXCEPT ![r] = step]

-----------------------------------------------------------------------------
(* No lock is taken.  The runs are numbered in the order in which they start. *)
MayStart(r) ==
  /\ pc[r] = "new" /\ \A q \in 1..(r - 1) : pc[q] # "new"
  /\ overlap \/ \A q \in Runs : pc[q] \in Ended \cup {"new"}
  /\ Cardinality({q \in Runs : pc[q] \notin Ended \cup {"new"}}) < MaxAtOnce

(* --fresh refuses a target that exists, --upgrade one that does not. *)
StartFresh(r) ==
  /\ MayStart(r)
  /\ Goto(r, IF Exists(target) THEN "failed" ELSE "f_stage")
  /\ before' = [before EXCEPT ![r] = target]
  /\ UNCHANGED <<target, stage, rollback, todo, promoted, opened, overlap, faults>>

StartUpgrade(r) ==
  /\ MayStart(r)
  /\ Goto(r, IF Exists(target) THEN "u_stage" ELSE "failed")
  /\ before' = [before EXCEPT ![r] = target]
  /\ UNCHANGED <<target, stage, rollback, todo, promoted, opened, overlap, faults>>

(* _create_verified_stage up to the comparison with the source; the          *)
(* manifest and its verification come after the local files.                 *)
Stage(r) ==
  /\ pc[r] \in {"f_stage", "u_stage"}
  /\ stage' = [stage EXCEPT ![r] = [payload |-> r, dirs |-> {}, local |-> FALSE]]
  /\ Goto(r, IF pc[r] = "f_stage" THEN "f_promote" ELSE "u_preserve")
  /\ UNCHANGED <<target, rollback, todo, promoted, opened, overlap, faults, before>>

(* Mutant of Preserve: the local configuration is left behind. *)
PreserveForgets(r) ==
  /\ pc[r] = "u_preserve"
  /\ Goto(r, "u_away")
  /\ UNCHANGED <<target, stage, rollback, todo, promoted, opened, overlap, faults, before>>

(* _copy_preserved_local_files: what is not there is skipped.  A staged      *)
(* configuration that does not validate aborts the upgrade.                  *)
Preserve(r) ==
  /\ pc[r] = "u_preserve"
  /\ \/ /\ stage' = [stage EXCEPT ![r].local = target.local]
        /\ Goto(r, "u_away")
     \/ /\ stage' = [stage EXCEPT ![r] = NoTree]
        /\ Goto(r, "failed")
  /\ UNCHANGED <<target, rollback, todo, promoted, opened, overlap, faults, before>>

(* _replace(stage, target) of a fresh installation: a rename onto a          *)
(* directory that is not empty fails, and the stage is removed.              *)
PromoteFresh(r) ==
  /\ pc[r] = "f_promote"
  /\ stage' = [stage EXCEPT ![r] = NoTree]
  /\ IF Free(target)
       THEN /\ target' = stage[r]
            /\ opened' = Renamed(Target, NotOpen)
            /\ Goto(r, "f_local")
       ELSE Goto(r, "failed") /\ UNCHANGED <<target, opened>>
  /\ UNCHANGED <<rollback, todo, promoted, overlap, faults, before>>

(* setup.sh writes the local configuration of a fresh installation. *)
WriteLocal(r) ==
  /\ pc[r] = "f_local"
  /\ IF Exists(target)
       THEN target' = [target EXCEPT !.local = TRUE] /\ Goto(r, "installed")
       ELSE UNCHANGED target /\ Goto(r, "failed")
  /\ UNCHANGED <<stage, rollback, todo, promoted, opened, overlap, faults, before>>

-----------------------------------------------------------------------------
(* Mutant of Handler: the new tree is removed with what was moved into it. *)
HandlerRemovesFirst(r) ==
  /\ Goto(r, "x_remove")
  /\ todo' = [todo EXCEPT ![r] = {}]

(* install_upgrade.  except Exception: *)
Handler(r) ==
  /\ Goto(r, "x_return")
  /\ todo' = [todo EXCEPT ![r] = IF promoted[r] /\ Exists(target)
                                   THEN RuntimeDirs ELSE {}]

(* Mutant of MoveAway: the new tree is not put in the place of the old. *)
MoveAwaySkips(r) ==
  /\ pc[r] = "u_away" /\ Exists(target)
  /\ rollback' = [rollback EXCEPT ![r] = target]
  /\ target' = NoTree
  /\ opened' = Renamed(Target, Rollback(r))
  /\ Goto(r, "u_note")
  /\ UNCHANGED <<stage, todo, promoted, overlap, faults, before>>

MoveAway(r) ==
  /\ pc[r] = "u_away"
  /\ IF Exists(target)
       THEN /\ rollback' = [rollback EXCEPT ![r] = target]
            /\ target' = NoTree
            /\ opened' = Renamed(Target, Rollback(r))
            /\ Goto(r, "u_promote")
            /\ UNCHANGED todo
       ELSE Handler(r) /\ UNCHANGED <<target, rollback, opened>>
  /\ UNCHANGED <<stage, promoted, overlap, faults, before>>

Promote(r) ==
  /\ pc[r] = "u_promote"
  /\ IF Free(target)
       THEN /\ target' = stage[r]
            /\ stage' = [stage EXCEPT ![r] = NoTree]
            /\ opened' = Renamed(Target, NotOpen)
            /\ Goto(r, "u_note")
            /\ UNCHANGED todo
       ELSE Handler(r) /\ UNCHANGED <<target, stage, opened>>
  /\ UNCHANGED <<rollback, promoted, overlap, faults, before>>

NotePromoted(r) ==
  /\ pc[r] = "u_note"
  /\ promoted' = [promoted EXCEPT ![r] = TRUE]
  /\ todo' = [todo EXCEPT ![r] = RuntimeDirs]
  /\ Goto(r, "u_move")
  /\ UNCHANGED <<target, stage, rollback, opened, overlap, faults, before>>

FirstDir(dirs) == IF "data" \in dirs THEN "data" ELSE ".venv"

(* _move_runtime_directories: whatever stands at the destination is removed, *)
(* and the target directory is made when it is missing.                      *)
MoveRuntime(r) ==
  /\ pc[r] = "u_move" /\ todo[r] # {}
  /\ LET d == FirstDir(todo[r]) IN
     /\ IF d \in rollback[r].dirs
          THEN /\ target' = With(target, d)
               /\ rollback' = [rollback EXCEPT ![r] = Without(@, d)]
          ELSE UNCHANGED <<target, rollback>>
     /\ todo' = [todo EXCEPT ![r] = @ \ {d}]
  /\ UNCHANGED <<stage, pc, promoted, opened, overlap, faults, before>>

(* Mutant of Finish: the rollback tree is removed. *)
FinishCleans(r) ==
  /\ pc[r] = "u_move" /\ todo[r] = {}
  /\ rollback' = [rollback EXCEPT ![r] = NoTree]
  /\ Goto(r, "installed")
  /\ UNCHANGED <<target, stage, todo, promoted, opened, overlap, faults, before>>

Finish(r) ==
  /\ pc[r] = "u_move" /\ todo[r] = {}
  /\ Goto(r, "installed")
  /\ UNCHANGED <<target, stage, rollback, todo, promoted, opened, overlap, faults, before>>

(* _return_runtime_directories(target, rollback) *)
ReturnRuntime(r) ==
  /\ pc[r] = "x_return" /\ todo[r] # {}
  /\ LET d == FirstDir(todo[r]) IN
     /\ IF d \in target.dirs /\ d \notin rollback[r].dirs
          THEN /\ target' = Without(target, d)
               /\ rollback' = [rollback EXCEPT ![r] = With(@, d)]
          ELSE UNCHANGED <<target, rollback>>
     /\ todo' = [todo EXCEPT ![r] = @ \ {d}]
     /\ Goto(r, IF todo[r] = {d} THEN "x_remove" ELSE "x_return")
  /\ UNCHANGED <<stage, promoted, opened, overlap, faults, before>>

NothingToReturn(r) ==
  /\ pc[r] = "x_return" /\ todo[r] = {}
  /\ Goto(r, "x_replace")
  /\ UNCHANGED <<target, stage, rollback, todo, promoted, opened, overlap, faults, before>>

(* _remove_path(target): shutil.rmtree opens what is there, ...             *)
OpenTarget(r) ==
  /\ pc[r] = "x_remove"
  /\ IF Exists(target)
       THEN opened' = [opened EXCEPT ![r] = Target] /\ Goto(r, "x_clear")
       ELSE Goto(r, "x_replace") /\ UNCHANGED opened
  /\ UNCHANGED <<target, stage, rollback, todo, promoted, overlap, faults, before>>

(* What is left of a tree when one more of its entries has been removed.     *)
Less(tree) ==
  {[tree EXCEPT !.payload = Part] : whole \in {TRUE} \cap {Whole(tree)}}
  \cup {[tree EXCEPT !.payload = NoPayload] : part \in {Part} \cap {tree.payload}}
  \cup {[tree EXCEPT !.local = FALSE] : local \in {TRUE} \cap {tree.local}}
  \cup {Without(tree, d) : d \in tree.dirs}

(* ... removes its entries in any order, wherever the directory is now, ...  *)
RemoveEntry(r) ==
  /\ pc[r] = "x_clear"
  /\ \/ /\ opened[r] = Target
        /\ target' \in Less(target)
        /\ UNCHANGED rollback
     \/ \E q \in Runs :
          /\ opened[r] = Rollback(q)
          /\ \E rest \in Less(rollback[q]) : rollback' = [rollback EXCEPT ![q] = rest]
          /\ UNCHANGED target
  /\ UNCHANGED <<stage, pc, todo, promoted, opened, overlap, faults, before>>

(* ... and at last the directory, which it finds by its path.                *)
RemoveTarget(r) ==
  /\ pc[r] = "x_clear" /\ opened[r] = Target /\ target = EmptyDir
  /\ target' = NoTree
  /\ opened' = Renamed(Target, NotOpen)
  /\ Goto(r, "x_replace")
  /\ UNCHANGED <<stage, rollback, todo, promoted, overlap, faults, before>>

(* Mutant of PutBack: the old tree stays in the rollback directory. *)
PutBackSkips(r) ==
  /\ pc[r] = "x_replace"
  /\ Goto(r, "x_stage")
  /\ UNCHANGED <<target, stage, rollback, todo, promoted, opened, overlap, faults, before>>

(* if rollback.exists() and not target.exists() *)
PutBack(r) ==
  /\ pc[r] = "x_replace"
  /\ IF Exists(rollback[r]) /\ ~Exists(target)
       THEN /\ target' = rollback[r]
            /\ rollback' = [rollback EXCEPT ![r] = NoTree]
            /\ opened' = Renamed(Rollback(r), Target)
       ELSE UNCHANGED <<target, rollback, opened>>
  /\ Goto(r, "x_stage")
  /\ UNCHANGED <<stage, todo, promoted, overlap, faults, before>>

(* finally: _remove_path(stage) *)
RemoveStage(r) ==
  /\ pc[r] = "x_stage"
  /\ stage' = [stage EXCEPT ![r] = NoTree]
  /\ Goto(r, "failed")
  /\ UNCHANGED <<target, rollback, todo, promoted, opened, overlap, faults, before>>

-----------------------------------------------------------------------------
Strikes ==
  /\ faults < IF overlap THEN MaxFaultsAtOnce ELSE MaxFaults
  /\ faults' = faults + 1
  /\ UNCHANGED overlap

(* A call raises an Exception before it has an effect; one of the calls that *)
(* move a directory also because another run has renamed the target meanwhile. *)
CallFails(r) ==
  /\ Strikes
  /\ \/ /\ pc[r] \in {"f_stage", "f_promote", "u_stage", "u_preserve"}
        /\ stage' = [stage EXCEPT ![r] = NoTree]
        /\ Goto(r, "failed")
        /\ UNCHANGED todo
     \/ /\ pc[r] \in {"u_away", "u_promote", "u_move"}
        /\ Handler(r)
        /\ UNCHANGED stage
  /\ UNCHANGED <<target, rollback, promoted, opened, before>>

(* A call of the handler raises, a removal in the middle too: the rest of the *)
(* restoration is skipped.  What other runs do makes such calls fail as well: *)
(* a removal finds entries gone, added, or its directory moved.               *)
RestorationFails(r) ==
  /\ Strikes \/ (overlap /\ UNCHANGED <<overlap, faults>>)
  /\ pc[r] \in {"x_return", "x_remove", "x_clear", "x_replace"}
  /\ stage' = [stage EXCEPT ![r] = NoTree]
  /\ opened' = [opened EXCEPT ![r] = NotOpen]
  /\ Goto(r, "unrestored")
  /\ UNCHANGED <<target, rollback, todo, promoted, before>>

(* The installer dies. *)
Crash(r) ==
  /\ Strikes
  /\ pc[r] \notin Ended \cup {"new"}
  /\ opened' = [opened EXCEPT ![r] = NotOpen]
  /\ Goto(r, "crashed")
  /\ UNCHANGED <<target, stage, rollback, todo, promoted, before>>

Fresh(r) == StartFresh(r) \/ PromoteFresh(r) \/ WriteLocal(r)
Upgrade(r) == \/ StartUpgrade(r) \/ Preserve(r) \/ MoveAway(r) \/ Promote(r)
              \/ NotePromoted(r) \/ MoveRuntime(r) \/ Finish(r)
Restore(r) == \/ ReturnRuntime(r) \/ NothingToReturn(r) \/ OpenTarget(r) \/ RemoveEntry(r)
              \/ RemoveTarget(r) \/ PutBack(r) \/ RemoveStage(r)
Fault(r) == CallFails(r) \/ RestorationFails(r) \/ Crash(r)

Next == \E r \in Runs : \/ Stage(r) \/ Fresh(r) \/ Upgrade(r) \/ Restore(r)
                        \/ Fault(r)

Spec == Init /\ [][Next]_vars

-----------------------------------------------------------------------------
Holders(d) == {t \in Trees : d \in At(t).dirs}

(* No step destroys the graph data or the virtual environment, or makes a    *)
(* second copy of them: of any number of overlapping runs while no call has  *)
(* failed, and of any run that fails, restores or is cut off where none      *)
(* overlap.  Only where runs overlap and a call has failed the handler of    *)
(* one can remove what another has just moved into the target.               *)
RuntimeKept ==
  [][\A d \in RuntimeDirs :
       \/ Cardinality(Holders(d)') = Cardinality(Holders(d))
       \/ /\ overlap /\ faults > 0 /\ \E r \in Runs : pc[r] = "x_clear"
          /\ Holders(d)' = {}]_vars

(* Where invocations do not overlap, an upgrade that fails and whose          *)
(* restoration does not fail as well leaves the target it found.             *)
FailedUpgradeUndone ==
  [][~overlap => \A r \in Runs :
       pc'[r] = "failed" /\ pc[r] \notin {"failed", "new"} /\ Exists(before[r])
                      => target' = before[r]]_vars

(* ... and one that ends well has carried everything local over.             *)
UpgradeCarriesLocal ==
  [][~overlap => \A r \in Runs :
       pc'[r] = "installed" /\ pc[r] # "installed" /\ Exists(before[r])
                      => /\ target'.payload = r
                         /\ target'.dirs = before[r].dirs
                         /\ target'.local = before[r].local]_vars

(* Where invocations do not overlap, the target is missing or whole, but for *)
(* what a removal in the handler has left of it, which may be cut off; then  *)
(* the rollback directory of a run has all that this run found, and that was *)
(* whole.                                                                    *)
TargetWhole ==
  ~overlap /\ Exists(target) =>
    \/ Whole(target)
    \/ \E r \in Runs : /\ pc[r] \in {"x_clear", "unrestored", "crashed"}
                        /\ rollback[r] = before[r] /\ Whole(before[r])

(* Unless an upgrade has failed and been undone, the payload it found whole is *)
(* kept: in the target or in a rollback directory; without overlapping runs.  *)
OldPayloadKept ==
  ~overlap => \A r \in Runs :
    (pc[r] \notin {"new", "failed"} /\ Whole(before[r])) =>
      \E t \in Trees : At(t).payload = before[r].payload
=============================================================================
