---------------------------- MODULE InstallProofs ----------------------------
(* The graph data and the virtual environment survive any number of runs of   *)
(* the installer that overlap or fail, but for runs that do both.  What has   *)
(* to be known is that each directory is in one tree at most, that a stage    *)
(* holds none, that nothing is moved over a rollback tree, that a call has    *)
(* failed before a handler removes anything, and that a handler on its own    *)
(* removes a target only when it has given everything back.  Where runs do    *)
(* not overlap, the target is whole or its predecessor saved, a failed        *)
(* upgrade is undone and one that succeeds carries everything local over.     *)
EXTENDS Install, FiniteSetTheorems, TLAPS

TreeSet == [payload : Int, dirs : SUBSET RuntimeDirs, local : BOOLEAN]
Before == {"new", "f_stage", "f_promote", "f_local", "u_stage", "u_preserve", "u_away"}
Handling == {"x_return", "x_remove", "x_clear", "x_replace", "x_stage"}
Steps == Before \cup {"u_promote", "u_note", "u_move"} \cup Handling \cup Ended

TypeInv ==
  /\ target \in TreeSet
  /\ stage \in [Runs -> TreeSet]
  /\ rollback \in [Runs -> TreeSet]
  /\ pc \in [Runs -> Steps]
  /\ todo \in [Runs -> SUBSET RuntimeDirs]
  /\ promoted \in [Runs -> BOOLEAN]
  /\ overlap \in BOOLEAN
  /\ faults \in Nat

(* A runtime directory is in one tree at most. *)
OneTreeInv ==
  /\ \A r \in Runs : stage[r].dirs = {} /\ rollback[r].dirs \cap target.dirs = {}
  /\ \A r, q \in Runs : r # q => rollback[r].dirs \cap rollback[q].dirs = {}

RollbackInv == \A r \in Runs : pc[r] \in Before => rollback[r].dirs = {}

(* Only a run that has promoted its payload, and whose call has failed,      *)
(* returns directories, or removes what has none left unless runs overlap.   *)
Removing == {"x_remove", "x_clear"}
HandlerInv ==
  \A r \in Runs :
    /\ promoted[r] => pc[r] \in {"u_move"} \cup Handling \cup Ended
    /\ pc[r] \in Removing => faults > 0 /\ (overlap \/ target.dirs = {})
    /\ pc[r] = "x_return" /\ todo[r] # {} =>
          faults > 0 /\ (overlap \/ target.dirs \subseteq todo[r])

Running(r) == pc[r] \notin Ended \cup {"new"}

SerialInv == ~overlap => \A r, q \in Runs : Running(r) /\ Running(q) => r = q

IInv == TypeInv /\ OneTreeInv /\ RollbackInv /\ HandlerInv /\ SerialInv

-----------------------------------------------------------------------------
(* A move of directories from a tree to one that has none of them leaves as  *)
(* many trees with each directory as before.                                 *)
LEMMA TreesFinite == IsFiniteSet(Trees)
  <1>1. IsFiniteSet(Runs) BY MaxRunsAssumption, FS_Interval DEF Runs
  <1>2. IsFiniteSet({"stage", "rollback"})
    <2>1. IsFiniteSet({"stage"} \cup {"rollback"}) BY FS_Singleton, FS_Union
    <2> QED BY <2>1
  <1>3. IsFiniteSet({"stage", "rollback"} \X Runs) BY <1>1, <1>2, FS_Product
  <1>4. IsFiniteSet({<<"target", 0>>}) BY FS_Singleton
  <1> QED BY <1>3, <1>4, FS_Union DEF Trees, Target

LEMMA SwapElement ==
  ASSUME NEW S, IsFiniteSet(S), NEW x \in S, NEW y, y \notin S
  PROVE  Cardinality((S \ {x}) \cup {y}) = Cardinality(S)
  <1>1. /\ IsFiniteSet(S \ {x}) /\ Cardinality(S \ {x}) = Cardinality(S) - 1
        /\ Cardinality(S) \in Nat
    BY FS_RemoveElement, FS_CardinalityType
  <1>2. Cardinality((S \ {x}) \cup {y}) = Cardinality(S \ {x}) + 1
    BY <1>1, FS_AddElement
  <1> QED BY <1>1, <1>2

(* The trees by name. *)
LEMMA Named ==
  /\ <<"target", 0>> \in Trees /\ At(<<"target", 0>>) = target
  /\ \A r \in Runs : <<"stage", r>> \in Trees /\ At(<<"stage", r>>) = stage[r]
  /\ \A r \in Runs : <<"rollback", r>> \in Trees /\ At(<<"rollback", r>>) = rollback[r]
  /\ \A t \in Trees : \/ t = <<"target", 0>>
                      \/ \E r \in Runs : t = <<"stage", r>> \/ t = <<"rollback", r>>
  BY DEF Trees, At, Target
Same == \A d \in RuntimeDirs : Cardinality(Holders(d)') = Cardinality(Holders(d))

LEMMA Moved ==
  ASSUME NEW x \in Trees, NEW y \in Trees, x # y, NEW moved,
         moved \subseteq At(x).dirs, moved \cap At(y).dirs = {},
         At(x)'.dirs = At(x).dirs \ moved, At(y)'.dirs = At(y).dirs \cup moved,
         \A t \in Trees \ {x, y} : At(t)'.dirs = At(t).dirs
  PROVE  Same
  <1> SUFFICES ASSUME NEW d \in RuntimeDirs
               PROVE  Cardinality(Holders(d)') = Cardinality(Holders(d))
    BY DEF Same
  <1>1. Holders(d) = {t \in Trees : d \in At(t).dirs} BY DEF Holders
  <1>2. Holders(d)' = {t \in Trees : d \in At(t)'.dirs} BY DEF Holders, Trees, Runs
  <1>3. CASE d \in moved
    <2>1. x \in Holders(d) /\ y \notin Holders(d) BY <1>1, <1>3
    <2>2. Holders(d)' = (Holders(d) \ {x}) \cup {y}
      <3>1. ASSUME NEW t \in Trees
            PROVE  t \in Holders(d)' <=> t \in (Holders(d) \ {x}) \cup {y}
        BY <1>1, <1>2, <1>3
      <3>2. Holders(d)' \subseteq Trees /\ Holders(d) \subseteq Trees BY <1>1, <1>2
      <3> QED BY <3>1, <3>2
    <2>3. IsFiniteSet(Holders(d))
      <3>1. Holders(d) \subseteq Trees BY <1>1
      <3> QED BY <3>1, TreesFinite, FS_Subset
    <2> QED BY <2>1, <2>2, <2>3, SwapElement
  <1>4. CASE d \notin moved
    <2>1. \A t \in Trees : d \in At(t)'.dirs <=> d \in At(t).dirs BY <1>4
    <2>2. Holders(d)' = Holders(d) BY <1>1, <1>2, <2>1
    <2> QED BY <2>2
  <1> QED BY <1>3, <1>4

(* The moves of the installer: out of the target, and back into it. *)
LEMMA MovedOut ==
  ASSUME NEW r \in Runs, NEW moved \in SUBSET target.dirs, moved \cap rollback[r].dirs = {},
         target'.dirs = target.dirs \ moved, rollback'[r].dirs = rollback[r].dirs \cup moved,
         \A q \in Runs \ {r} : rollback'[q].dirs = rollback[q].dirs,
         \A q \in Runs : stage'[q].dirs = stage[q].dirs
  PROVE  Same
  <1> DEFINE x == <<"target", 0>>  y == <<"rollback", r>>
  <1>1. x \in Trees /\ y \in Trees /\ x # y BY Named
  <1>2. At(x) = target /\ At(y) = rollback[r] /\ At(x)' = target' /\ At(y)' = rollback'[r]
    BY DEF At
  <1>3. \A t \in Trees \ {x, y} : At(t)'.dirs = At(t).dirs
    BY Named DEF At
  <1> HIDE DEF x, y
  <1> QED BY <1>1, <1>2, <1>3, Moved

LEMMA MovedIn ==
  ASSUME NEW r \in Runs, NEW moved \in SUBSET rollback[r].dirs, moved \cap target.dirs = {},
         target'.dirs = target.dirs \cup moved, rollback'[r].dirs = rollback[r].dirs \ moved,
         \A q \in Runs \ {r} : rollback'[q].dirs = rollback[q].dirs,
         \A q \in Runs : stage'[q].dirs = stage[q].dirs
  PROVE  Same
  <1> DEFINE y == <<"target", 0>>  x == <<"rollback", r>>
  <1>1. x \in Trees /\ y \in Trees /\ x # y BY Named
  <1>2. At(y) = target /\ At(x) = rollback[r] /\ At(y)' = target' /\ At(x)' = rollback'[r]
    BY DEF At
  <1>3. \A t \in Trees \ {x, y} : At(t)'.dirs = At(t).dirs
    BY Named DEF At
  <1> HIDE DEF x, y
  <1> QED BY <1>1, <1>2, <1>3, Moved

LEMMA NotMoved ==
  ASSUME target'.dirs = target.dirs,
         \A q \in Runs : rollback'[q].dirs = rollback[q].dirs /\ stage'[q].dirs = stage[q].dirs
  PROVE  Same
  <1>1. \A t \in Trees : At(t)'.dirs = At(t).dirs BY Named DEF At
  <1>2. \A d : Holders(d)' = Holders(d) BY <1>1 DEF Holders, Trees, Runs
  <1> QED BY <1>2 DEF Same

(* What one removed entry does to a directory that is in one tree at most.   *)
Lost(d) == Cardinality(Holders(d)') = Cardinality(Holders(d)) \/ Holders(d)' = {}

LEMMA Removed ==
  ASSUME NEW x \in Trees, NEW e, e \in At(x).dirs, At(x)'.dirs = At(x).dirs \ {e},
         \A t \in Trees \ {x} : At(t)'.dirs = At(t).dirs /\ At(t).dirs \cap At(x).dirs = {}
  PROVE  \A d \in RuntimeDirs : Lost(d)
  <1> SUFFICES ASSUME NEW d \in RuntimeDirs PROVE Lost(d) OBVIOUS
  <1>1. Holders(d) = {t \in Trees : d \in At(t).dirs} BY DEF Holders
  <1>2. Holders(d)' = {t \in Trees : d \in At(t)'.dirs} BY DEF Holders, Trees, Target, Runs
  <1>3. CASE d = e
    <2>1. \A t \in Trees : d \notin At(t)'.dirs BY <1>3
    <2> QED BY <1>2, <2>1 DEF Lost
  <1>4. CASE d # e
    <2>1. \A t \in Trees : d \in At(t)'.dirs <=> d \in At(t).dirs BY <1>4
    <2>2. Holders(d)' = Holders(d) BY <1>1, <1>2, <2>1
    <2> QED BY <2>2 DEF Lost
  <1> QED BY <1>3, <1>4
-----------------------------------------------------------------------------
LEMMA InitIInv == Init => IInv
  <1> SUFFICES ASSUME Init PROVE IInv OBVIOUS
  <1>1. NoTree \in TreeSet /\ NoTree.dirs = {} BY DEF NoTree, TreeSet
  <1>2. target \in TreeSet BY <1>1 DEF Init, TreeSet
  <1>3. TypeInv BY <1>1, <1>2 DEF Init, TypeInv, Steps, Before
  <1>4. OneTreeInv BY <1>1 DEF Init, OneTreeInv
  <1>5. RollbackInv BY <1>1 DEF Init, RollbackInv
  <1>6. HandlerInv BY DEF Init, HandlerInv, Removing
  <1>7. SerialInv BY DEF Init, SerialInv, Running
  <1> QED BY <1>3, <1>4, <1>5, <1>6, <1>7 DEF IInv

(* Without overlap no other run is in its handler while one is under way.    *)
LEMMA Alone ==
  ASSUME IInv, NEW r \in Runs, Running(r), NEW q \in Runs, q # r, ~overlap
  PROVE  pc[q] \notin Handling
  BY DEF IInv, SerialInv, Running, Ended, Handling

(* What a step of a run may do: the directories stay in the run's two trees. *)
LEMMA StepKeeps ==
  ASSUME IInv, NEW r \in Runs, NEW where \in Steps, pc' = [pc EXCEPT ![r] = where],
         target' \in TreeSet, rollback' \in [Runs -> TreeSet], stage' \in [Runs -> TreeSet],
         todo' \in [Runs -> SUBSET RuntimeDirs], promoted' \in [Runs -> BOOLEAN],
         \A q \in Runs : stage'[q].dirs = {},
         \A q \in Runs \ {r} : /\ rollback'[q] = rollback[q] /\ todo'[q] = todo[q]
                               /\ promoted'[q] = promoted[q],
         target'.dirs \cup rollback'[r].dirs \subseteq target.dirs \cup rollback[r].dirs,
         target'.dirs \cap rollback'[r].dirs = {},
         where \in Before => rollback'[r].dirs = {},
         promoted'[r] => where \in {"u_move"} \cup Handling \cup Ended,
         where \in Removing => faults' > 0 /\ (overlap \/ target'.dirs = {}),
         where = "x_return" /\ todo'[r] # {} =>
           faults' > 0 /\ (overlap \/ target'.dirs \subseteq todo'[r]),
         \/ Running(r)
         \/ UNCHANGED target /\ (overlap \/ \A q \in Runs : ~Running(q)),
         UNCHANGED overlap, faults' \in Nat, faults' >= faults
  PROVE  IInv'
  <1>1. /\ pc' \in [Runs -> Steps] /\ pc'[r] = where
        /\ \A q \in Runs \ {r} : pc'[q] = pc[q]
    BY DEF IInv, TypeInv
  <1>2. TypeInv' BY <1>1 DEF IInv, TypeInv
  <1>3. OneTreeInv'
    <2>1. ASSUME NEW q \in Runs, q # r
          PROVE  /\ rollback'[q].dirs \cap target'.dirs = {}
                 /\ rollback'[q].dirs \cap rollback'[r].dirs = {}
      <3>1. /\ rollback[q].dirs \cap target.dirs = {}
            /\ rollback[q].dirs \cap rollback[r].dirs = {}
        BY <2>1 DEF IInv, OneTreeInv
      <3>2. rollback'[q].dirs = rollback[q].dirs BY <2>1
      <3> QED BY <3>1, <3>2
    <2>2. \A q, p \in Runs \ {r} : q # p => rollback'[q].dirs \cap rollback'[p].dirs = {}
      BY DEF IInv, OneTreeInv
    <2> QED BY <2>1, <2>2 DEF OneTreeInv
  <1>4. RollbackInv' BY <1>1 DEF IInv, RollbackInv
  <1>5. HandlerInv'
    <2> SUFFICES ASSUME NEW q \in Runs, q # r
                 PROVE  /\ promoted'[q] => pc'[q] \in {"u_move"} \cup Handling \cup Ended
                        /\ pc'[q] \in Removing => faults' > 0 /\ (overlap \/ target'.dirs = {})
                        /\ pc'[q] = "x_return" /\ todo'[q] # {} =>
                              faults' > 0 /\ (overlap \/ target'.dirs \subseteq todo'[q])
      BY <1>1 DEF HandlerInv
    <2>1. promoted'[q] => pc'[q] \in {"u_move"} \cup Handling \cup Ended
      BY <1>1 DEF IInv, HandlerInv
    <2>2. pc'[q] \in Removing \/ (pc'[q] = "x_return" /\ todo'[q] # {}) => faults' > 0
      BY <1>1 DEF IInv, TypeInv, HandlerInv
    <2>3. CASE overlap BY <2>1, <2>2, <2>3
    <2>4. CASE Running(r) /\ ~overlap
      BY <1>1, <2>1, <2>4, Alone DEF Removing, Handling
    <2>5. CASE UNCHANGED target BY <1>1, <2>1, <2>2, <2>5 DEF IInv, HandlerInv
    <2> QED BY <2>3, <2>4, <2>5
  <1>6. SerialInv' BY <1>1 DEF IInv, SerialInv, Running
  <1> QED BY <1>2, <1>3, <1>4, <1>5, <1>6 DEF IInv

(* A step that moves nothing. *)
LEMMA QuietStep ==
  ASSUME IInv, NEW r \in Runs, NEW where \in Steps, pc' = [pc EXCEPT ![r] = where],
         target' \in TreeSet, target'.dirs = target.dirs,
         UNCHANGED rollback,
         stage' = stage \/ \E tree \in TreeSet : tree.dirs = {} /\ stage' = [stage EXCEPT ![r] = tree],
         todo' = todo \/ \E dirs \in SUBSET RuntimeDirs : todo' = [todo EXCEPT ![r] = dirs],
         promoted' = promoted \/ promoted' = [promoted EXCEPT ![r] = TRUE],
         where \in Before => pc[r] \in Before,
         promoted'[r] => where \in {"u_move"} \cup Handling \cup Ended,
         where \in Removing => faults' > 0 /\ (overlap \/ target.dirs = {}),
         where = "x_return" /\ todo'[r] # {} =>
           faults' > 0 /\ (overlap \/ target.dirs \subseteq todo'[r]),
         \/ Running(r)
         \/ UNCHANGED target /\ (overlap \/ \A q \in Runs : ~Running(q)),
         UNCHANGED overlap, faults' \in Nat, faults' >= faults
  PROVE  IInv' /\ Same
  <1>1. stage' \in [Runs -> TreeSet] /\ \A q \in Runs : stage'[q].dirs = {}
    BY DEF IInv, TypeInv, OneTreeInv
  <1>2. /\ todo' \in [Runs -> SUBSET RuntimeDirs]
        /\ \A q \in Runs \ {r} : todo'[q] = todo[q]
    BY DEF IInv, TypeInv
  <1>3. /\ promoted' \in [Runs -> BOOLEAN]
        /\ \A q \in Runs \ {r} : promoted'[q] = promoted[q]
    BY DEF IInv, TypeInv
  <1>4. rollback' \in [Runs -> TreeSet] /\ rollback' = rollback BY DEF IInv, TypeInv
  <1>5. target'.dirs \cap rollback'[r].dirs = {} BY <1>4 DEF IInv, OneTreeInv
  <1>6. where \in Before => rollback'[r].dirs = {} BY <1>4 DEF IInv, RollbackInv
  <1>7. IInv' BY <1>1, <1>2, <1>3, <1>4, <1>5, <1>6, StepKeeps
  <1>8. Same
    <2>1. \A q \in Runs : rollback'[q].dirs = rollback[q].dirs /\ stage'[q].dirs = stage[q].dirs
      BY <1>1, <1>4 DEF IInv, OneTreeInv
    <2> QED BY <2>1, NotMoved
  <1> QED BY <1>7, <1>8

-----------------------------------------------------------------------------
(* The steps, one by one. *)
Kept == IInv' /\ Same

LEMMA Empty == NoTree \in TreeSet /\ NoTree.dirs = {}
  BY DEF NoTree, TreeSet

LEMMA FreeDirs == Free(target) => target.dirs = {}
  BY DEF Free, EmptyDir, NoTree

LEMMA SameFaults ==
  ASSUME IInv, UNCHANGED faults
  PROVE  faults' \in Nat /\ faults' >= faults
  BY DEF IInv, TypeInv

LEMMA OneMoreFault ==
  ASSUME IInv, Strikes
  PROVE  faults' \in Nat /\ faults' >= faults /\ faults' > 0 /\ UNCHANGED overlap
  BY DEF IInv, TypeInv, Strikes

(* A tree with one directory more, and with one less. *)
LEMMA WithDir ==
  ASSUME NEW tree \in TreeSet, NEW d \in RuntimeDirs
  PROVE  /\ With(tree, d) \in TreeSet /\ With(tree, d).dirs = tree.dirs \cup {d}
         /\ Without(tree, d) \in TreeSet /\ Without(tree, d).dirs = tree.dirs \ {d}
  <1>1. EmptyDir \in TreeSet /\ EmptyDir.dirs = {} BY DEF EmptyDir, TreeSet, NoPayload
  <1>2. CASE Exists(tree) BY <1>2 DEF With, Without, TreeSet
  <1>3. CASE ~Exists(tree)
    <2>1. tree.dirs = {} BY <1>3, Empty DEF Exists
    <2> QED BY <1>1, <1>3, <2>1 DEF With, Without, TreeSet
  <1> QED BY <1>2, <1>3

LEMMA StartStep ==
  ASSUME IInv, NEW r \in Runs, StartFresh(r) \/ StartUpgrade(r)
  PROVE  Kept
  <1>1. PICK where \in {"failed", "f_stage", "u_stage"} : Goto(r, where)
    BY DEF StartFresh, StartUpgrade
  <1>2. pc[r] = "new" /\ UNCHANGED <<target, stage, rollback, todo, promoted, overlap, faults>>
    BY DEF StartFresh, StartUpgrade, MayStart
  <1>3. overlap \/ \A q \in Runs : ~Running(q)
    BY DEF StartFresh, StartUpgrade, MayStart, Running
  <1>4. ~promoted'[r]
    BY <1>2 DEF IInv, HandlerInv, Ended, Handling
  <1>5. where \in Steps /\ pc' = [pc EXCEPT ![r] = where] /\ where # "x_return" /\ where \notin Removing
    BY <1>1 DEF Goto, Steps, Before, Ended, Removing
  <1>6. where \in Before => pc[r] \in Before BY <1>2 DEF Before
  <1>7. target' \in TreeSet /\ target'.dirs = target.dirs BY <1>2 DEF IInv, TypeInv
  <1> QED BY <1>2, <1>3, <1>4, <1>5, <1>6, <1>7, QuietStep, SameFaults DEF Kept

LEMMA StageStep ==
  ASSUME IInv, NEW r \in Runs, Stage(r) \/ Preserve(r)
  PROVE  Kept
  <1>1. PICK where \in {"f_promote", "u_preserve", "u_away", "failed"} : Goto(r, where)
    BY DEF Stage, Preserve
  <1>2. pc[r] \in {"f_stage", "u_stage", "u_preserve"}
    BY DEF Stage, Preserve
  <1>3. \E tree \in TreeSet : tree.dirs = {} /\ stage' = [stage EXCEPT ![r] = tree]
    <2>1. CASE Stage(r)
      <3>1. [payload |-> r, dirs |-> {}, local |-> FALSE] \in TreeSet BY DEF TreeSet, Runs
      <3> QED BY <2>1, <3>1 DEF Stage
    <2>2. CASE Preserve(r) /\ stage' = [stage EXCEPT ![r] = NoTree] BY <2>2, Empty
    <2>3. CASE Preserve(r) /\ stage' = [stage EXCEPT ![r].local = target.local]
      <3>1. stage[r] \in TreeSet /\ target \in TreeSet /\ stage[r].dirs = {}
        BY DEF IInv, TypeInv, OneTreeInv
      <3>2. [stage[r] EXCEPT !.local = target.local] \in TreeSet
        BY <3>1 DEF TreeSet
      <3>3. [stage[r] EXCEPT !.local = target.local].dirs = {}
        BY <3>1 DEF TreeSet
      <3>4. stage' = [stage EXCEPT ![r] = [stage[r] EXCEPT !.local = target.local]]
        BY <2>3
      <3> QED BY <3>2, <3>3, <3>4
    <2> QED BY <2>1, <2>2, <2>3 DEF Preserve
  <1>4. UNCHANGED <<target, rollback, todo, promoted, overlap, faults>> BY DEF Stage, Preserve
  <1>5. ~promoted'[r]
    BY <1>2, <1>4 DEF IInv, HandlerInv, Ended, Handling
  <1>6. where \in Steps /\ pc' = [pc EXCEPT ![r] = where] /\ where # "x_return" /\ where \notin Removing
    BY <1>1 DEF Goto, Steps, Before, Ended, Removing
  <1>7. pc[r] \in Before /\ Running(r) BY <1>2 DEF Before, Running, Ended
  <1>8. target' \in TreeSet /\ target'.dirs = target.dirs BY <1>4 DEF IInv, TypeInv
  <1> QED BY <1>3, <1>4, <1>5, <1>6, <1>7, <1>8, QuietStep, SameFaults DEF Kept

LEMMA FreshStep ==
  ASSUME IInv, NEW r \in Runs, PromoteFresh(r) \/ WriteLocal(r)
  PROVE  Kept
  <1>1. PICK where \in {"f_local", "installed", "failed"} : Goto(r, where)
    BY DEF PromoteFresh, WriteLocal
  <1>2. pc[r] \in {"f_promote", "f_local"} BY DEF PromoteFresh, WriteLocal
  <1>3. stage' = stage \/ \E tree \in TreeSet : tree.dirs = {} /\ stage' = [stage EXCEPT ![r] = tree]
    BY Empty DEF PromoteFresh, WriteLocal
  <1>4. UNCHANGED <<rollback, todo, promoted, overlap, faults>> BY DEF PromoteFresh, WriteLocal
  <1>5. ~promoted'[r]
    BY <1>2, <1>4 DEF IInv, HandlerInv, Ended, Handling
  <1>6. where \in Steps /\ pc' = [pc EXCEPT ![r] = where] /\ where # "x_return" /\ where \notin Removing
    BY <1>1 DEF Goto, Steps, Before, Ended, Removing
  <1>7. pc[r] \in Before /\ Running(r) BY <1>2 DEF Before, Running, Ended
  <1>8. target \in TreeSet /\ stage[r] \in TreeSet /\ stage[r].dirs = {}
    BY DEF IInv, TypeInv, OneTreeInv
  <1>9. target' \in TreeSet /\ target'.dirs = target.dirs
    <2>1. CASE target' = stage[r] /\ Free(target) BY <1>8, <2>1, FreeDirs
    <2>2. CASE target' = [target EXCEPT !.local = TRUE] BY <1>8, <2>2 DEF TreeSet
    <2>3. CASE UNCHANGED target BY <1>8, <2>3
    <2> QED BY <2>1, <2>2, <2>3 DEF PromoteFresh, WriteLocal
  <1> QED BY <1>3, <1>4, <1>5, <1>6, <1>7, <1>9, QuietStep, SameFaults DEF Kept

(* A run that enters the handler: only one that promoted its payload has      *)
(* directories to give back.                                                 *)
LEMMA HandlerStep ==
  ASSUME IInv, NEW r \in Runs, Handler(r), pc[r] \in {"u_away", "u_promote", "u_move"},
         UNCHANGED <<target, stage, rollback, promoted, overlap>>,
         faults' \in Nat, faults' >= faults, pc[r] = "u_move" => faults' > 0
  PROVE  Kept
  <1>1. pc' = [pc EXCEPT ![r] = "x_return"] /\ "x_return" \in Steps /\ "x_return" \notin Before
    BY DEF Handler, Goto, Steps, Handling, Before
  <1>2. PICK dirs \in SUBSET RuntimeDirs :
          /\ todo' = [todo EXCEPT ![r] = dirs]
          /\ dirs # {} => dirs = RuntimeDirs /\ promoted[r]
    <2>1. CASE promoted[r] /\ Exists(target) BY <2>1 DEF Handler
    <2>2. CASE ~(promoted[r] /\ Exists(target)) BY <2>2 DEF Handler
    <2> QED BY <2>1, <2>2
  <1>3. todo'[r] = dirs BY <1>2 DEF IInv, TypeInv
  <1>4. target \in TreeSet /\ target.dirs \subseteq RuntimeDirs BY DEF IInv, TypeInv, TreeSet
  <1>5. dirs # {} => faults' > 0 /\ target.dirs \subseteq todo'[r]
    BY <1>2, <1>3, <1>4 DEF IInv, HandlerInv, Handling, Ended
  <1>6. Running(r) BY DEF Running, Ended
  <1>7. promoted'[r] => "x_return" \in {"u_move"} \cup Handling \cup Ended BY DEF Handling
  <1>8. "x_return" \notin Removing BY DEF Removing
  <1> QED BY <1>1, <1>2, <1>3, <1>4, <1>5, <1>6, <1>7, <1>8, QuietStep DEF Kept

LEMMA PromoteStep ==
  ASSUME IInv, NEW r \in Runs, Promote(r)
  PROVE  Kept
  <1>1. CASE ~Free(target) BY <1>1, HandlerStep, SameFaults DEF Promote
  <1>2. CASE Free(target)
    <2>1. /\ target.dirs = {} /\ target' = stage[r] /\ pc[r] = "u_promote"
          /\ stage' = [stage EXCEPT ![r] = NoTree] /\ pc' = [pc EXCEPT ![r] = "u_note"]
          /\ UNCHANGED <<rollback, todo, promoted, overlap, faults>>
      BY <1>2, FreeDirs DEF Promote, Goto
    <2>2. target' \in TreeSet /\ target'.dirs = target.dirs
      BY <2>1, Empty DEF IInv, TypeInv, OneTreeInv
    <2>3. /\ "u_note" \in Steps /\ "u_note" \notin Before /\ Running(r) /\ ~promoted'[r]
          /\ "u_note" \notin Removing
      BY <2>1 DEF Steps, Before, Running, Ended, IInv, HandlerInv, Handling, Removing
    <2> QED BY <2>1, <2>2, <2>3, Empty, QuietStep, SameFaults DEF Kept
  <1> QED BY <1>1, <1>2

LEMMA NoteStep ==
  ASSUME IInv, NEW r \in Runs, NotePromoted(r) \/ Finish(r) \/ NothingToReturn(r)
  PROVE  Kept
  <1>1. PICK where \in {"u_move", "installed", "x_replace"} : Goto(r, where)
    BY DEF NotePromoted, Finish, NothingToReturn
  <1>2. pc[r] \in {"u_note", "u_move", "x_return"} BY DEF NotePromoted, Finish, NothingToReturn
  <1>3. todo' = todo \/ todo' = [todo EXCEPT ![r] = RuntimeDirs]
    BY DEF NotePromoted, Finish, NothingToReturn
  <1>4. promoted' = promoted \/ promoted' = [promoted EXCEPT ![r] = TRUE]
    BY DEF NotePromoted, Finish, NothingToReturn
  <1>5. UNCHANGED <<target, stage, rollback, overlap, faults>>
    BY DEF NotePromoted, Finish, NothingToReturn
  <1>6. /\ where \in Steps /\ pc' = [pc EXCEPT ![r] = where] /\ where \notin Before
        /\ where # "x_return" /\ where \notin Removing
        /\ where \in {"u_move"} \cup Handling \cup Ended
    BY <1>1 DEF Goto, Steps, Before, Ended, Handling, Removing
  <1>7. Running(r) BY <1>2 DEF Running, Ended
  <1>8. target' \in TreeSet /\ target'.dirs = target.dirs BY <1>5 DEF IInv, TypeInv
  <1> QED BY <1>3, <1>4, <1>5, <1>6, <1>7, <1>8, QuietStep, SameFaults DEF Kept

(* The removal of the target begins, ends, or is given up. *)
LEMMA OpenStep ==
  ASSUME IInv, NEW r \in Runs, OpenTarget(r)
  PROVE  Kept
  <1>1. PICK where \in {"x_clear", "x_replace"} : pc' = [pc EXCEPT ![r] = where]
    BY DEF OpenTarget, Goto
  <1>2. pc[r] = "x_remove" /\ UNCHANGED <<target, stage, rollback, todo, promoted, overlap, faults>>
    BY DEF OpenTarget
  <1>3. faults > 0 /\ (overlap \/ target.dirs = {})
    BY <1>2 DEF IInv, HandlerInv, Removing
  <1>4. /\ where \in Steps /\ where \notin Before /\ where # "x_return" /\ Running(r)
        /\ where \in {"u_move"} \cup Handling \cup Ended
    BY <1>1, <1>2 DEF Steps, Before, Running, Ended, Handling
  <1>5. target' \in TreeSet /\ target'.dirs = target.dirs BY <1>2 DEF IInv, TypeInv
  <1> QED BY <1>1, <1>2, <1>3, <1>4, <1>5, QuietStep, SameFaults DEF Kept

LEMMA RemoveStep ==
  ASSUME IInv, NEW r \in Runs, RemoveTarget(r) \/ RemoveStage(r) \/ RestorationFails(r) \/ Crash(r)
  PROVE  Kept
  <1>1. PICK where \in {"x_replace", "failed", "unrestored", "crashed"} : Goto(r, where)
    BY DEF RemoveTarget, RemoveStage, RestorationFails, Crash
  <1>2. Running(r)
    BY DEF RemoveTarget, RemoveStage, RestorationFails, Crash, Running, Ended
  <1>3. stage' = stage \/ \E tree \in TreeSet : tree.dirs = {} /\ stage' = [stage EXCEPT ![r] = tree]
    BY Empty DEF RemoveTarget, RemoveStage, RestorationFails, Crash
  <1>4. UNCHANGED <<rollback, todo, promoted>>
    BY DEF RemoveTarget, RemoveStage, RestorationFails, Crash
  <1>5. UNCHANGED overlap /\ faults' \in Nat /\ faults' >= faults
    BY SameFaults, OneMoreFault DEF RemoveTarget, RemoveStage, RestorationFails, Crash
  <1>6. /\ where \in Steps /\ pc' = [pc EXCEPT ![r] = where] /\ where \notin Before
        /\ where # "x_return" /\ where \notin Removing
        /\ where \in {"u_move"} \cup Handling \cup Ended
    BY <1>1 DEF Goto, Steps, Before, Ended, Handling, Removing
  <1>7. target' \in TreeSet /\ target'.dirs = target.dirs
    <2>1. CASE RemoveTarget(r)
      <3>1. target' = NoTree /\ target.dirs = {} BY <2>1 DEF RemoveTarget, EmptyDir
      <3> QED BY <3>1, Empty
    <2>2. CASE ~RemoveTarget(r)
      <3>1. target' = target BY <2>2 DEF RemoveStage, RestorationFails, Crash
      <3> QED BY <3>1 DEF IInv, TypeInv
    <2> QED BY <2>1, <2>2
  <1> QED BY <1>2, <1>3, <1>4, <1>5, <1>6, <1>7, QuietStep DEF Kept

LEMMA FailStep ==
  ASSUME IInv, NEW r \in Runs, CallFails(r)
  PROVE  Kept
  <1>1. /\ UNCHANGED <<target, rollback, promoted, overlap>>
        /\ faults' \in Nat /\ faults' >= faults /\ faults' > 0
    BY OneMoreFault DEF CallFails
  <1>2. CASE /\ pc[r] \in {"f_stage", "f_promote", "u_stage", "u_preserve"}
             /\ stage' = [stage EXCEPT ![r] = NoTree]
             /\ Goto(r, "failed") /\ UNCHANGED todo
    <2>1. /\ "failed" \in Steps /\ "failed" \notin Before /\ Running(r) /\ "failed" \in Ended
          /\ pc' = [pc EXCEPT ![r] = "failed"] /\ "failed" \notin Removing
      BY <1>2 DEF Steps, Before, Running, Ended, Goto, Removing
    <2>2. target' \in TreeSet /\ target'.dirs = target.dirs BY <1>1 DEF IInv, TypeInv
    <2> QED BY <1>1, <1>2, <2>1, <2>2, Empty, QuietStep DEF Kept
  <1>3. CASE pc[r] \in {"u_away", "u_promote", "u_move"} /\ Handler(r) /\ UNCHANGED stage
    BY <1>1, <1>3, HandlerStep
  <1> QED BY <1>2, <1>3 DEF CallFails

-----------------------------------------------------------------------------
(* The steps that move directories. *)
LEMMA MoveAwayStep ==
  ASSUME IInv, NEW r \in Runs, MoveAway(r)
  PROVE  Kept
  <1>1. CASE ~Exists(target) BY <1>1, HandlerStep, SameFaults DEF MoveAway
  <1>2. CASE Exists(target)
    <2>1. /\ pc[r] = "u_away" /\ rollback' = [rollback EXCEPT ![r] = target]
          /\ target' = NoTree /\ pc' = [pc EXCEPT ![r] = "u_promote"]
          /\ UNCHANGED <<stage, todo, promoted, overlap, faults>>
      BY <1>2 DEF MoveAway, Goto
    <2>2. /\ target \in TreeSet /\ rollback \in [Runs -> TreeSet]
          /\ stage \in [Runs -> TreeSet] /\ todo \in [Runs -> SUBSET RuntimeDirs]
          /\ promoted \in [Runs -> BOOLEAN]
      BY DEF IInv, TypeInv
    <2>3. rollback[r].dirs = {} BY <2>1 DEF IInv, RollbackInv, Before
    <2>4. /\ rollback' \in [Runs -> TreeSet] /\ rollback'[r] = target
          /\ \A q \in Runs \ {r} : rollback'[q] = rollback[q]
      BY <2>1, <2>2
    <2>5. /\ "u_promote" \in Steps /\ "u_promote" \notin Before /\ Running(r) /\ ~promoted'[r]
          /\ "u_promote" \notin Removing
      BY <2>1 DEF Steps, Before, Running, Ended, IInv, HandlerInv, Handling, Removing
    <2>6. \A q \in Runs : stage'[q].dirs = {} BY <2>1 DEF IInv, OneTreeInv
    <2>7. IInv'
      BY <2>1, <2>2, <2>3, <2>4, <2>5, <2>6, Empty, StepKeeps, SameFaults
    <2>8. Same
      <3>1. target'.dirs = target.dirs \ target.dirs BY <2>1, Empty
      <3>2. rollback'[r].dirs = rollback[r].dirs \cup target.dirs BY <2>3, <2>4
      <3>3. \A q \in Runs : stage'[q].dirs = stage[q].dirs BY <2>1
      <3>4. target.dirs \cap rollback[r].dirs = {} BY <2>3
      <3> QED BY <2>4, <3>1, <3>2, <3>3, <3>4, MovedOut
    <2> QED BY <2>7, <2>8 DEF Kept
  <1> QED BY <1>1, <1>2

LEMMA PutBackStep ==
  ASSUME IInv, NEW r \in Runs, PutBack(r)
  PROVE  Kept
  <1>1. /\ pc[r] = "x_replace" /\ pc' = [pc EXCEPT ![r] = "x_stage"]
        /\ UNCHANGED <<stage, todo, promoted, overlap, faults>>
    BY DEF PutBack, Goto
  <1>2. /\ "x_stage" \in Steps /\ "x_stage" \notin Before /\ Running(r)
        /\ "x_stage" \in {"u_move"} \cup Handling \cup Ended /\ "x_stage" \notin Removing
    BY <1>1 DEF Steps, Before, Running, Ended, Handling, Removing
  <1>3. /\ target \in TreeSet /\ rollback \in [Runs -> TreeSet]
        /\ stage \in [Runs -> TreeSet] /\ todo \in [Runs -> SUBSET RuntimeDirs]
        /\ promoted \in [Runs -> BOOLEAN]
    BY DEF IInv, TypeInv
  <1>4. CASE UNCHANGED <<target, rollback>>
    BY <1>1, <1>2, <1>3, <1>4, QuietStep, SameFaults DEF Kept
  <1>5. CASE ~UNCHANGED <<target, rollback>>
    <2>1. /\ target = NoTree /\ target' = rollback[r]
          /\ rollback' = [rollback EXCEPT ![r] = NoTree]
      BY <1>5 DEF PutBack, Exists
    <2>2. target.dirs = {} BY <2>1, Empty
    <2>3. /\ rollback' \in [Runs -> TreeSet] /\ rollback'[r] = NoTree /\ target' \in TreeSet
          /\ \A q \in Runs \ {r} : rollback'[q] = rollback[q]
      BY <1>3, <2>1, Empty
    <2>4. \A q \in Runs : stage'[q].dirs = {} BY <1>1 DEF IInv, OneTreeInv
    <2>5. rollback'[r].dirs = {} BY <2>3, Empty
    <2>6. IInv'
      BY <1>1, <1>2, <1>3, <2>1, <2>2, <2>3, <2>4, <2>5, StepKeeps, SameFaults
    <2>7. Same
      <3>1. target'.dirs = target.dirs \cup rollback[r].dirs BY <2>1, <2>2
      <3>2. rollback'[r].dirs = rollback[r].dirs \ rollback[r].dirs BY <2>5
      <3>3. \A q \in Runs : stage'[q].dirs = stage[q].dirs BY <1>1
      <3>4. rollback[r].dirs \cap target.dirs = {} BY <2>2
      <3>5. \A q \in Runs \ {r} : rollback'[q].dirs = rollback[q].dirs BY <2>3
      <3>6. rollback[r].dirs \in SUBSET rollback[r].dirs OBVIOUS
      <3> QED BY <3>1, <3>2, <3>3, <3>4, <3>5, <3>6, MovedIn
    <2> QED BY <2>6, <2>7 DEF Kept
  <1> QED BY <1>4, <1>5

LEMMA MoveRuntimeStep ==
  ASSUME IInv, NEW r \in Runs, MoveRuntime(r)
  PROVE  Kept
  <1> DEFINE d == FirstDir(todo[r])
  <1>1. /\ pc[r] = "u_move" /\ todo' = [todo EXCEPT ![r] = @ \ {d}]
        /\ UNCHANGED <<stage, pc, promoted, overlap, faults>>
    BY DEF MoveRuntime
  <1>2. /\ target \in TreeSet /\ rollback \in [Runs -> TreeSet]
        /\ stage \in [Runs -> TreeSet] /\ todo \in [Runs -> SUBSET RuntimeDirs]
        /\ promoted \in [Runs -> BOOLEAN] /\ pc \in [Runs -> Steps]
    BY DEF IInv, TypeInv
  <1>3. /\ "u_move" \in Steps /\ "u_move" \notin Before /\ Running(r)
        /\ pc' = [pc EXCEPT ![r] = "u_move"] /\ "u_move" \notin Removing
    BY <1>1, <1>2 DEF Steps, Before, Running, Ended, Removing
  <1>4. /\ todo' \in [Runs -> SUBSET RuntimeDirs]
        /\ \A q \in Runs \ {r} : todo'[q] = todo[q]
        /\ \E dirs \in SUBSET RuntimeDirs : todo' = [todo EXCEPT ![r] = dirs]
    BY <1>1, <1>2
  <1>5. \A q \in Runs : stage'[q].dirs = {} BY <1>1 DEF IInv, OneTreeInv
  <1>6. rollback[r].dirs \cap target.dirs = {} BY DEF IInv, OneTreeInv
  <1>7. CASE d \notin rollback[r].dirs
    <2>1. UNCHANGED <<target, rollback>> BY <1>7 DEF MoveRuntime
    <2> HIDE DEF d
    <2> QED BY <1>1, <1>2, <1>3, <1>4, <2>1, QuietStep, SameFaults DEF Kept
  <1>8. CASE d \in rollback[r].dirs
    <2>1. /\ target' = With(target, d)
          /\ rollback' = [rollback EXCEPT ![r] = Without(rollback[r], d)]
      BY <1>8 DEF MoveRuntime
    <2> HIDE DEF d
    <2>2. rollback[r] \in TreeSet /\ d \in RuntimeDirs
      BY <1>2, <1>8 DEF TreeSet
    <2>3. target' \in TreeSet /\ target'.dirs = target.dirs \cup {d}
      BY <1>2, <2>1, <2>2, WithDir
    <2>4. Without(rollback[r], d) \in TreeSet /\ Without(rollback[r], d).dirs = rollback[r].dirs \ {d}
      BY <2>2, WithDir
    <2>6. /\ rollback' \in [Runs -> TreeSet] /\ rollback'[r].dirs = rollback[r].dirs \ {d}
          /\ \A q \in Runs \ {r} : rollback'[q] = rollback[q]
      BY <1>2, <2>1, <2>4
    <2>7. /\ target'.dirs \cup rollback'[r].dirs \subseteq target.dirs \cup rollback[r].dirs
          /\ target'.dirs \cap rollback'[r].dirs = {}
      BY <1>6, <1>8, <2>3, <2>6
    <2>8. IInv'
      BY <1>1, <1>2, <1>3, <1>4, <1>5, <2>3, <2>6, <2>7, StepKeeps, SameFaults
    <2>9. Same
      <3>1. {d} \in SUBSET rollback[r].dirs /\ {d} \cap target.dirs = {} BY <1>6, <1>8
      <3>2. \A q \in Runs : stage'[q].dirs = stage[q].dirs BY <1>1
      <3> QED BY <2>3, <2>6, <3>1, <3>2, MovedIn
    <2> QED BY <2>8, <2>9 DEF Kept
  <1> QED BY <1>7, <1>8

LEMMA ReturnStep ==
  ASSUME IInv, NEW r \in Runs, ReturnRuntime(r)
  PROVE  Kept
  <1> DEFINE d == FirstDir(todo[r])
             where == IF todo[r] = {d} THEN "x_remove" ELSE "x_return"
  <1>1. /\ pc[r] = "x_return" /\ todo[r] # {} /\ todo' = [todo EXCEPT ![r] = @ \ {d}]
        /\ pc' = [pc EXCEPT ![r] = where]
        /\ UNCHANGED <<stage, promoted, overlap, faults>>
    BY DEF ReturnRuntime, Goto
  <1>2. /\ target \in TreeSet /\ rollback \in [Runs -> TreeSet]
        /\ stage \in [Runs -> TreeSet] /\ todo \in [Runs -> SUBSET RuntimeDirs]
        /\ promoted \in [Runs -> BOOLEAN]
    BY DEF IInv, TypeInv
  <1>3. d \in todo[r] /\ d \in RuntimeDirs
    BY <1>1, <1>2 DEF FirstDir, RuntimeDirs
  <1>4. faults > 0 /\ (overlap \/ target.dirs \subseteq todo[r])
    BY <1>1 DEF IInv, HandlerInv
  <1>5. rollback[r].dirs \cap target.dirs = {} BY DEF IInv, OneTreeInv
  <1>6. \/ d \in target.dirs /\ target' = Without(target, d)
           /\ rollback' = [rollback EXCEPT ![r] = With(rollback[r], d)]
        \/ d \notin target.dirs /\ UNCHANGED <<target, rollback>>
    <2>1. CASE d \in target.dirs
      <3>1. d \notin rollback[r].dirs BY <1>5, <2>1
      <3> QED BY <2>1, <3>1 DEF ReturnRuntime
    <2>2. CASE d \notin target.dirs BY <2>2 DEF ReturnRuntime
    <2> QED BY <2>1, <2>2
  <1>7. /\ where \in Steps /\ where \notin Before /\ Running(r)
        /\ where \in {"u_move"} \cup Handling \cup Ended
    BY <1>1 DEF Steps, Before, Running, Ended, Handling
  <1>8. where \in Removing => todo[r] = {d} BY DEF Removing
  <1> HIDE DEF d, where
  <1>9. /\ todo' \in [Runs -> SUBSET RuntimeDirs] /\ todo'[r] = todo[r] \ {d}
        /\ \A q \in Runs \ {r} : todo'[q] = todo[q]
        /\ \E dirs \in SUBSET RuntimeDirs : todo' = [todo EXCEPT ![r] = dirs]
    BY <1>1, <1>2
  <1>10. \A q \in Runs : stage'[q].dirs = {} BY <1>1 DEF IInv, OneTreeInv
  <1>11. CASE d \notin target.dirs /\ UNCHANGED <<target, rollback>>
    <2>1. overlap \/ target.dirs \subseteq todo'[r] BY <1>4, <1>9, <1>11
    <2>2. where \in Removing => overlap \/ target.dirs = {} BY <1>4, <1>8, <1>11
    <2> QED BY <1>1, <1>2, <1>4, <1>7, <1>9, <1>11, <2>1, <2>2, QuietStep, SameFaults DEF Kept
  <1>12. CASE d \in target.dirs /\ target' = Without(target, d)
              /\ rollback' = [rollback EXCEPT ![r] = With(rollback[r], d)]
    <2>1. target' \in TreeSet /\ target'.dirs = target.dirs \ {d}
      BY <1>2, <1>3, <1>12, WithDir
    <2>2. With(rollback[r], d) \in TreeSet /\ With(rollback[r], d).dirs = rollback[r].dirs \cup {d}
      BY <1>2, <1>3, WithDir
    <2>4. /\ rollback' \in [Runs -> TreeSet] /\ rollback'[r].dirs = rollback[r].dirs \cup {d}
          /\ \A q \in Runs \ {r} : rollback'[q] = rollback[q]
      BY <1>2, <1>12, <2>2
    <2>5. /\ target'.dirs \cup rollback'[r].dirs \subseteq target.dirs \cup rollback[r].dirs
          /\ target'.dirs \cap rollback'[r].dirs = {}
      BY <1>5, <1>12, <2>1, <2>4
    <2>6. overlap \/ target'.dirs \subseteq todo'[r] BY <1>4, <1>9, <2>1
    <2>7. where \in Removing => overlap \/ target'.dirs = {} BY <1>4, <1>8, <2>1
    <2>8. IInv'
      BY <1>1, <1>2, <1>4, <1>7, <1>9, <1>10, <2>1, <2>4, <2>5, <2>6, <2>7, StepKeeps, SameFaults
    <2>9. Same
      <3>1. {d} \in SUBSET target.dirs /\ {d} \cap rollback[r].dirs = {} BY <1>5, <1>12
      <3>2. \A q \in Runs : stage'[q].dirs = stage[q].dirs BY <1>1
      <3> QED BY <2>1, <2>4, <3>1, <3>2, MovedOut
    <2> QED BY <2>8, <2>9 DEF Kept
  <1> QED BY <1>6, <1>11, <1>12

-----------------------------------------------------------------------------
(* Where a removal can hold a tree. *)
Places == {NotOpen, Target} \cup {Rollback(q) : q \in Runs}

(* A run that removes nothing holds no tree open; alone, none but the target. *)
OpenedInv ==
  /\ opened \in [Runs -> Places]
  /\ \A r \in Runs : /\ opened[r] # NotOpen => pc[r] = "x_clear"
                     /\ ~overlap => opened[r] \in {NotOpen, Target}

LEMMA LessDirs ==
  ASSUME NEW tree \in TreeSet, NEW rest \in Less(tree)
  PROVE  /\ rest \in TreeSet
         /\ rest.dirs = tree.dirs \/ \E e \in tree.dirs : rest.dirs = tree.dirs \ {e}
  <1>1. CASE rest = [tree EXCEPT !.payload = Part] \/ rest = [tree EXCEPT !.payload = NoPayload]
    BY <1>1 DEF TreeSet, Part, NoPayload
  <1>2. CASE rest = [tree EXCEPT !.local = FALSE] BY <1>2 DEF TreeSet
  <1>3. CASE \E e \in tree.dirs : rest = Without(tree, e)
    <2>1. PICK e \in tree.dirs : rest = Without(tree, e) BY <1>3
    <2>2. e \in RuntimeDirs BY DEF TreeSet
    <2> QED BY <2>1, <2>2, WithDir
  <1> QED BY <1>1, <1>2, <1>3 DEF Less

(* An entry less in a tree: everything stays in order. *)
LEMMA EntryStep ==
  ASSUME IInv, NEW r \in Runs, RemoveEntry(r)
  PROVE  IInv'
  <1>1. UNCHANGED <<stage, pc, todo, promoted, overlap, faults>> BY DEF RemoveEntry
  <1>2. target \in TreeSet /\ rollback \in [Runs -> TreeSet] BY DEF IInv, TypeInv
  <1>3. /\ target' \in TreeSet /\ target'.dirs \subseteq target.dirs
        /\ rollback' \in [Runs -> TreeSet]
        /\ \A q \in Runs : rollback'[q].dirs \subseteq rollback[q].dirs
    <2>1. CASE target' \in Less(target) /\ UNCHANGED rollback BY <1>2, <2>1, LessDirs
    <2>2. CASE UNCHANGED target /\ \E q \in Runs : \E rest \in Less(rollback[q]) :
                                     rollback' = [rollback EXCEPT ![q] = rest]
      <3>1. PICK q \in Runs : \E rest \in Less(rollback[q]) : rollback' = [rollback EXCEPT ![q] = rest]
        BY <2>2
      <3>3. PICK rest \in Less(rollback[q]) : rollback' = [rollback EXCEPT ![q] = rest] BY <3>1
      <3>2. rest \in TreeSet /\ rest.dirs \subseteq rollback[q].dirs BY <1>2, LessDirs
      <3> QED BY <1>2, <2>2, <3>2, <3>3
    <2> QED BY <2>1, <2>2 DEF RemoveEntry
  <1>4. TypeInv' BY <1>1, <1>3 DEF IInv, TypeInv
  <1>5. OneTreeInv'
    <2>1. \A q \in Runs : rollback'[q].dirs \cap target'.dirs = {} BY <1>3 DEF IInv, OneTreeInv
    <2>2. \A q, s \in Runs : (q # s) => rollback'[q].dirs \cap rollback'[s].dirs = {}
      BY <1>3 DEF IInv, OneTreeInv
    <2> QED BY <1>1, <2>1, <2>2 DEF IInv, OneTreeInv
  <1>6. RollbackInv' BY <1>1, <1>3 DEF IInv, RollbackInv
  <1>7. HandlerInv' BY <1>1, <1>3 DEF IInv, HandlerInv
  <1>8. SerialInv' BY <1>1 DEF IInv, SerialInv, Running
  <1> QED BY <1>4, <1>5, <1>6, <1>7, <1>8 DEF IInv

LEMMA NextStep ==
  ASSUME IInv, [Next]_vars
  PROVE  Kept \/ (IInv' /\ \E r \in Runs : RemoveEntry(r))
  <1>1. ASSUME NEW r \in Runs, ~RemoveEntry(r),
               Stage(r) \/ Fresh(r) \/ Upgrade(r) \/ Restore(r) \/ Fault(r)
        PROVE  Kept
    <2>1. CASE Stage(r) BY <2>1, StageStep
    <2>2. CASE Fresh(r) BY <2>2, StartStep, FreshStep DEF Fresh
    <2>3. CASE Upgrade(r)
      BY <2>3, StartStep, StageStep, MoveAwayStep, PromoteStep, NoteStep, MoveRuntimeStep
      DEF Upgrade
    <2>4. CASE Restore(r)
      BY <1>1, <2>4, ReturnStep, NoteStep, OpenStep, RemoveStep, PutBackStep DEF Restore
    <2>5. CASE Fault(r) BY <2>5, FailStep, RemoveStep DEF Fault
    <2> QED BY <1>1, <2>1, <2>2, <2>3, <2>4, <2>5
  <1>2. CASE UNCHANGED vars
    <2>1. UNCHANGED <<target, stage, rollback, pc, todo, promoted, overlap, faults>>
      BY <1>2 DEF vars
    <2>2. IInv'
      BY <2>1 DEF IInv, TypeInv, OneTreeInv, RollbackInv, HandlerInv, SerialInv, Running
    <2> QED BY <2>1, <2>2, NotMoved DEF Kept
  <1> QED BY <1>1, <1>2, EntryStep DEF Next

(* The inductive invariant of the installer: each runtime directory is in one *)
(* tree at most, and a handler on its own removes a target once it is emptied. *)
THEOREM InstallInvariant == Spec => []IInv
  <1>1. IInv /\ [Next]_vars => IInv' BY NextStep DEF Kept
  <1> QED BY <1>1, InitIInv, PTL DEF Spec

(* A removal keeps its hold on a tree while other runs rename it.            *)
LEMMA PlacesApart ==
  /\ NotOpen \in Places /\ Target \in Places /\ Target # NotOpen
  /\ \A q \in Runs : /\ Rollback(q) \in Places
                     /\ Rollback(q) # NotOpen /\ Rollback(q) # Target
  BY DEF Places, NotOpen, Target, Rollback

LEMMA InitOpened == Init => OpenedInv
  BY PlacesApart DEF Init, OpenedInv

LEMMA OpenedStep ==
  ASSUME IInv, OpenedInv, [Next]_vars
  PROVE  OpenedInv'
  <1>1. CASE UNCHANGED <<opened, pc, overlap>> BY <1>1 DEF OpenedInv
  <1>2. ASSUME NEW r \in Runs, NEW where, pc[r] # "x_clear", pc' = [pc EXCEPT ![r] = where],
               UNCHANGED <<opened, overlap>>
        PROVE  OpenedInv'
    BY <1>2 DEF OpenedInv, IInv, TypeInv
  <1>3. ASSUME NEW r \in Runs, NEW where, pc' = [pc EXCEPT ![r] = where],
               opened' = [opened EXCEPT ![r] = NotOpen], UNCHANGED overlap
        PROVE  OpenedInv'
    BY <1>3, PlacesApart DEF OpenedInv, IInv, TypeInv
  <1>4. ASSUME NEW r \in Runs, NEW where, pc[r] # "x_clear", pc' = [pc EXCEPT ![r] = where],
               UNCHANGED overlap, Running(r), NEW from \in Places \ {NotOpen}, NEW to \in Places,
               opened' = Renamed(from, to)
        PROVE  OpenedInv'
    <2>1. opened' \in [Runs -> Places]
      BY <1>4 DEF OpenedInv, Renamed
    <2>2. \A q \in Runs : opened'[q] # NotOpen => opened[q] # NotOpen
      BY <1>4 DEF Renamed
    <2>3. \A q \in Runs : opened'[q] # NotOpen => pc'[q] = "x_clear"
      BY <1>4, <2>2 DEF OpenedInv, IInv, TypeInv
    <2>4. ASSUME ~overlap, NEW q \in Runs PROVE opened'[q] = NotOpen
      <3>1. CASE q = r BY <1>4, <2>2, <3>1 DEF OpenedInv
      <3>2. CASE q # r
        <4>1. pc[q] # "x_clear" BY <1>4, <2>4, <3>2, Alone DEF Handling
        <4> QED BY <2>2, <4>1 DEF OpenedInv
      <3> QED BY <3>1, <3>2
    <2> QED BY <1>4, <2>1, <2>3, <2>4 DEF OpenedInv
  <1>5. ASSUME NEW r \in Runs, RemoveTarget(r) PROVE OpenedInv'
    <2>1. /\ pc' = [pc EXCEPT ![r] = "x_replace"] /\ opened' = Renamed(Target, NotOpen)
          /\ opened[r] = Target /\ UNCHANGED overlap
      BY <1>5 DEF RemoveTarget, Goto
    <2>2. opened' \in [Runs -> Places] /\ opened'[r] = NotOpen
      BY <2>1, PlacesApart DEF OpenedInv, Renamed
    <2>3. \A q \in Runs : opened'[q] \in {NotOpen, opened[q]} BY <2>1 DEF Renamed
    <2> QED BY <2>1, <2>2, <2>3 DEF OpenedInv, IInv, TypeInv
  <1>6. ASSUME NEW r \in Runs, OpenTarget(r) PROVE OpenedInv'
    <2>1. CASE opened' = [opened EXCEPT ![r] = Target] /\ pc' = [pc EXCEPT ![r] = "x_clear"]
      BY <1>6, <2>1, PlacesApart DEF OpenedInv, IInv, TypeInv, OpenTarget
    <2>2. CASE UNCHANGED opened /\ pc' = [pc EXCEPT ![r] = "x_replace"]
      BY <1>2, <1>6, <2>2 DEF OpenTarget
    <2> QED BY <1>6, <2>1, <2>2 DEF OpenTarget, Goto
  <1>7. ASSUME NEW r \in Runs, Stage(r) \/ Fresh(r) PROVE OpenedInv'
    <2>1. CASE UNCHANGED <<opened, overlap>> /\ pc[r] # "x_clear"
      <3>1. PICK where : pc' = [pc EXCEPT ![r] = where]
        BY <1>7, <2>1 DEF Stage, Fresh, StartFresh, PromoteFresh, WriteLocal, Goto
      <3> QED BY <1>2, <2>1, <3>1
    <2>2. CASE /\ opened' = Renamed(Target, NotOpen) /\ pc' = [pc EXCEPT ![r] = "f_local"]
               /\ pc[r] = "f_promote" /\ UNCHANGED overlap
      BY <1>4, <2>2, PlacesApart DEF Running, Ended
    <2> QED
      BY <1>7, <2>1, <2>2 DEF Stage, Fresh, StartFresh, PromoteFresh, WriteLocal, Goto, MayStart
  <1>8. ASSUME NEW r \in Runs, Upgrade(r) PROVE OpenedInv'
    <2>1. CASE UNCHANGED <<opened, overlap>> /\ pc[r] # "x_clear" /\ ~UNCHANGED pc
      <3>1. PICK where : pc' = [pc EXCEPT ![r] = where]
        BY <1>8, <2>1 DEF Upgrade, StartUpgrade, Preserve, MoveAway, Promote, NotePromoted,
           MoveRuntime, Finish, Handler, Goto
      <3> QED BY <1>2, <2>1, <3>1
    <2>2. CASE MoveAway(r) /\ opened' = Renamed(Target, Rollback(r))
      BY <1>4, <2>2, PlacesApart DEF MoveAway, Goto, Handler, Running, Ended
    <2>3. CASE Promote(r) /\ opened' = Renamed(Target, NotOpen)
      BY <1>4, <2>3, PlacesApart DEF Promote, Goto, Handler, Running, Ended
    <2>4. CASE UNCHANGED <<opened, overlap, pc>> BY <1>1, <2>4
    <2> QED
      BY <1>8, <2>1, <2>2, <2>3, <2>4
      DEF Upgrade, StartUpgrade, Preserve, MoveAway, Promote, NotePromoted, MoveRuntime, Finish,
          MayStart
  <1>9. ASSUME NEW r \in Runs, Restore(r), ~OpenTarget(r), ~RemoveTarget(r) PROVE OpenedInv'
    <2>1. CASE RemoveEntry(r) BY <1>1, <2>1 DEF RemoveEntry
    <2>2. CASE PutBack(r) /\ opened' = Renamed(Rollback(r), Target)
      BY <1>4, <2>2, PlacesApart DEF PutBack, Goto, Running, Ended
    <2>3. CASE UNCHANGED <<opened, overlap>> /\ pc[r] # "x_clear"
      <3>1. PICK where : pc' = [pc EXCEPT ![r] = where]
        BY <1>9, <2>3 DEF Restore, ReturnRuntime, NothingToReturn, PutBack, RemoveStage,
           RemoveEntry, Goto
      <3> QED BY <1>2, <2>3, <3>1
    <2> QED
      BY <1>9, <2>1, <2>2, <2>3
      DEF Restore, ReturnRuntime, NothingToReturn, PutBack, RemoveStage
  <1>10. ASSUME NEW r \in Runs, Fault(r) PROVE OpenedInv'
    <2>1. UNCHANGED overlap
      BY <1>10, OneMoreFault DEF Fault, CallFails, RestorationFails, Crash
    <2>2. CASE CallFails(r)
      <3>1. PICK where : pc' = [pc EXCEPT ![r] = where] BY <2>2 DEF CallFails, Handler, Goto
      <3> QED BY <1>2, <2>1, <2>2, <3>1 DEF CallFails
    <2>3. CASE RestorationFails(r) \/ Crash(r)
      <3>1. PICK where : pc' = [pc EXCEPT ![r] = where] BY <2>3 DEF RestorationFails, Crash, Goto
      <3> QED BY <1>3, <2>1, <2>3, <3>1 DEF RestorationFails, Crash
    <2> QED BY <1>10, <2>2, <2>3 DEF Fault
  <1>11. CASE UNCHANGED vars BY <1>1, <1>11 DEF vars
  <1> QED BY <1>5, <1>6, <1>7, <1>8, <1>9, <1>10, <1>11 DEF Next

LEMMA OpenedFollows == Spec => []OpenedInv
  <1> QED BY InitOpened, OpenedStep, InstallInvariant, PTL DEF Spec

(* What a removal takes away it takes from runs that overlap, after a failure. *)
LEMMA EntryLost ==
  ASSUME IInv, OpenedInv, NEW r \in Runs, RemoveEntry(r)
  PROVE  \/ Same
         \/ overlap /\ faults > 0 /\ pc[r] = "x_clear" /\ \A d \in RuntimeDirs : Lost(d)
  <1>1. /\ pc[r] = "x_clear" /\ UNCHANGED stage /\ target \in TreeSet
        /\ rollback \in [Runs -> TreeSet] /\ faults > 0 /\ (overlap \/ target.dirs = {})
    BY DEF RemoveEntry, IInv, TypeInv, HandlerInv, Removing
  <1>2. CASE opened[r] = Target /\ target' \in Less(target) /\ UNCHANGED rollback
    <2>1. CASE target'.dirs = target.dirs BY <1>1, <1>2, <2>1, NotMoved
    <2>2. CASE \E e \in target.dirs : target'.dirs = target.dirs \ {e}
      <3>1. PICK e \in target.dirs : target'.dirs = target.dirs \ {e} BY <2>2
      <3> DEFINE x == <<"target", 0>>
      <3>2. x \in Trees /\ At(x) = target /\ At(x)' = target' BY Named DEF At
      <3>3. \A t \in Trees \ {x} : At(t)'.dirs = At(t).dirs /\ At(t).dirs \cap target.dirs = {}
        BY <1>1, <1>2, Named DEF At, IInv, OneTreeInv
      <3> HIDE DEF x
      <3>4. \A d \in RuntimeDirs : Lost(d) BY <3>1, <3>2, <3>3, Removed
      <3> QED BY <1>1, <3>1, <3>4
    <2> QED BY <1>1, <1>2, <2>1, <2>2, LessDirs
  <1>3. ASSUME NEW q \in Runs, opened[r] = Rollback(q), UNCHANGED target,
               NEW rest \in Less(rollback[q]), rollback' = [rollback EXCEPT ![q] = rest]
        PROVE  Same \/ (overlap /\ \A d \in RuntimeDirs : Lost(d))
    <2>1. overlap BY <1>3, PlacesApart DEF OpenedInv
    <2>2. rollback'[q] = rest /\ \A s \in Runs \ {q} : rollback'[s] = rollback[s] BY <1>1, <1>3
    <2>3. CASE rest.dirs = rollback[q].dirs BY <1>1, <1>3, <2>2, <2>3, NotMoved
    <2>4. CASE \E e \in rollback[q].dirs : rest.dirs = rollback[q].dirs \ {e}
      <3>1. PICK e \in rollback[q].dirs : rest.dirs = rollback[q].dirs \ {e} BY <2>4
      <3> DEFINE x == <<"rollback", q>>
      <3>2. x \in Trees /\ At(x) = rollback[q] /\ At(x)' = rollback'[q] BY Named DEF At
      <3>3. \A t \in Trees \ {x} : /\ At(t)'.dirs = At(t).dirs
                                   /\ At(t).dirs \cap rollback[q].dirs = {}
        BY <1>1, <1>3, <2>2, Named DEF At, IInv, OneTreeInv
      <3> HIDE DEF x
      <3>4. \A d \in RuntimeDirs : Lost(d) BY <2>2, <3>1, <3>2, <3>3, Removed
      <3> QED BY <2>1, <3>4
    <2> QED BY <1>1, <2>3, <2>4, LessDirs
  <1> QED BY <1>1, <1>2, <1>3 DEF RemoveEntry

(* The graph data and the virtual environment stay in as many trees as they   *)
(* were in, wherever a run fails or is cut off, and however runs overlap; but *)
(* where runs overlap and a call has failed, a handler's removal may take     *)
(* what another run has moved into the target.                               *)
THEOREM RuntimeSurvives == Spec => RuntimeKept
  <1>1. IInv /\ OpenedInv /\ [Next]_vars =>
          [\A d \in RuntimeDirs :
             \/ Cardinality(Holders(d)') = Cardinality(Holders(d))
             \/ /\ overlap /\ faults > 0 /\ \E r \in Runs : pc[r] = "x_clear"
                /\ Holders(d)' = {}]_vars
    <2> SUFFICES ASSUME IInv, OpenedInv, [Next]_vars, NEW d \in RuntimeDirs
                 PROVE  \/ Cardinality(Holders(d)') = Cardinality(Holders(d))
                        \/ /\ overlap /\ faults > 0 /\ \E r \in Runs : pc[r] = "x_clear"
                           /\ Holders(d)' = {}
      OBVIOUS
    <2>1. CASE Kept BY <2>1 DEF Kept, Same
    <2>2. ASSUME NEW r \in Runs, RemoveEntry(r)
          PROVE  \/ Cardinality(Holders(d)') = Cardinality(Holders(d))
                 \/ /\ overlap /\ faults > 0 /\ \E q \in Runs : pc[q] = "x_clear"
                    /\ Holders(d)' = {}
      BY <2>2, EntryLost DEF Same, Lost
    <2> QED BY <2>1, <2>2, NextStep
  <1> QED BY <1>1, InstallInvariant, OpenedFollows, PTL DEF Spec, RuntimeKept

-----------------------------------------------------------------------------
(* Where runs do not overlap, the target and the rollback tree of the one run *)
(* under way follow from where it is: the old tree is in its place, set       *)
(* aside, or split between the rollback tree and the promoted payload.        *)
Unmoved(r) == target = before[r] /\ rollback[r] = NoTree
Swapped(r) == target = NoTree /\ rollback[r] = before[r]
Split(r) ==
  /\ rollback[r].dirs \subseteq before[r].dirs
  /\ rollback[r] = [before[r] EXCEPT !.dirs = rollback[r].dirs]
  /\ target = [payload |-> r, dirs |-> before[r].dirs \ rollback[r].dirs,
               local |-> before[r].local]

FreshRun(r) ==
  /\ pc[r] \in {"f_stage", "f_promote"} => target = NoTree
  /\ pc[r] = "f_promote" => stage[r].payload = r
  /\ pc[r] = "f_local" => target.payload = r
  /\ pc[r] \in {"f_stage", "f_promote", "f_local"} => before[r] = NoTree

UpgradeRun(r) ==
  /\ pc[r] \in {"u_stage", "u_preserve", "u_away"} => Unmoved(r)
  /\ pc[r] = "u_preserve" => stage[r] = [payload |-> r, dirs |-> {}, local |-> FALSE]
  /\ pc[r] \in {"u_away", "u_promote"} =>
       stage[r] = [payload |-> r, dirs |-> {}, local |-> before[r].local]
  /\ pc[r] = "u_promote" => Swapped(r)
  /\ pc[r] = "u_note" => Split(r) /\ rollback[r] = before[r]
  /\ pc[r] = "u_move" => Split(r) /\ rollback[r].dirs \subseteq todo[r] /\ promoted[r]

HandlerRun(r) ==
  /\ pc[r] = "x_return" /\ todo[r] # {} => Split(r)
  /\ pc[r] = "x_remove" => Split(r)
  /\ pc[r] = "x_clear" =>
       /\ rollback[r] = before[r] /\ target.dirs = {}
       /\ target.payload \in {r, Part, NoPayload}
  /\ (pc[r] = "x_return" /\ todo[r] = {}) \/ pc[r] = "x_replace" => Unmoved(r) \/ Swapped(r)
  /\ pc[r] = "x_stage" => target = before[r]

Progress(r) ==
  /\ pc[r] \in Before => rollback[r] = NoTree
  /\ pc[r] \notin {"new", "f_stage", "f_promote", "f_local"} \cup Ended => Exists(before[r])
  /\ FreshRun(r) /\ UpgradeRun(r) /\ HandlerRun(r)

Somewhere(p) == target.payload = p \/ \E q \in Runs : rollback[q].payload = p

(* A run that did not undo its upgrade has a whole tree in its rollback      *)
(* directory; until there is one, runs find whole trees only.                *)
Saved(q) == rollback[q] = before[q] /\ Whole(before[q])

WholeInv ==
  \/ \E q \in Runs : pc[q] \in {"unrestored", "crashed"} /\ Saved(q)
  \/ /\ \A r \in Runs : Exists(before[r]) => Whole(before[r])
     /\ Exists(target) => Whole(target) \/ \E r \in Runs : pc[r] = "x_clear"

(* A payload that a run has found belongs to a run that has ended, so that no *)
(* later run removes it for its own.                                         *)
PayloadInv ==
  /\ target.payload = NoTree.payload => target = NoTree
  /\ \A r \in Runs : before[r].payload = NoTree.payload => before[r] = NoTree
  /\ \A r \in Runs : target.payload = r => pc[r] # "new"
  /\ \A q, r \in Runs : before[q].payload = r => pc[r] \in Ended
  /\ \A r \in Runs : Whole(before[r]) /\ pc[r] \notin {"new", "failed"} =>
                        Somewhere(before[r].payload)

(* The payloads are apart. *)
LEMMA Payloads ==
  /\ \A r \in Runs : r \in Int /\ r > 0
  /\ NoPayload = -1 /\ Part = -2 /\ NoTree.payload = -3
  /\ \A tree : Whole(tree) => tree # NoTree /\ tree # EmptyDir
  /\ \A tree : Whole(tree) <=> tree.payload \in Runs \cup {0}
  BY MaxRunsAssumption DEF Runs, NoPayload, Part, NoTree, EmptyDir, Whole

SInv ==
  /\ before \in [Runs -> TreeSet]
  /\ ~overlap => PayloadInv /\ WholeInv /\ \A r \in Runs : Progress(r)

LEMMA InitSInv == Init => SInv
  <1> SUFFICES ASSUME Init PROVE SInv OBVIOUS
  <1>1. before \in [Runs -> TreeSet] BY Empty DEF Init
  <1>2. /\ \A r \in Runs : before[r] = NoTree /\ pc[r] = "new"
        /\ target = NoTree \/ target.payload = 0
    BY DEF Init
  <1>3. target.payload = NoTree.payload => target = NoTree BY <1>2, Payloads
  <1>4. PayloadInv
    <2>1. \A r \in Runs : target.payload # r BY <1>2, Payloads
    <2> QED BY <1>2, <1>3, <2>1, Payloads DEF PayloadInv
  <1>5. WholeInv BY <1>2, Payloads DEF WholeInv, Exists
  <1>7. \A r \in Runs : Progress(r)
    BY DEF Init, Progress, FreshRun, UpgradeRun, HandlerRun, Ended
  <1> QED BY <1>1, <1>4, <1>5, <1>7 DEF SInv

(* What a step leaves as the target, or of it. *)
WholeKept(r, where) ==
  \/ Whole(target') \/ target' = NoTree
  \/ where = "x_clear" /\ target'.payload # NoTree.payload
  \/ target' = before[r] /\ Exists(before[r])
  \/ UNCHANGED target /\ pc[r] # "x_clear"
  \/ /\ UNCHANGED target /\ where \in {"unrestored", "crashed"}
     /\ rollback'[r] = before[r] /\ Exists(before[r])

(* A step of the run under way keeps the invariant when it leaves the run in  *)
(* good order, and removes no payload but the run's own.                     *)
LEMMA SerialStep ==
  ASSUME IInv, SInv, ~overlap, NEW r \in Runs, Running(r),
         NEW where \in Steps, where # "new", pc' = [pc EXCEPT ![r] = where],
         UNCHANGED <<before, overlap>>, \A q \in Runs \ {r} : rollback'[q] = rollback[q],
         Progress(r)', WholeKept(r, where),
         Whole(target') => target'.payload \in {target.payload, r, before[r].payload},
         \A p \in Runs \cup {0} : p # r /\ Somewhere(p) => Somewhere(p)'
  PROVE  SInv'
  <1>1. /\ pc'[r] = where /\ \A q \in Runs \ {r} : pc'[q] = pc[q]
        /\ \A q \in Runs \ {r} : pc[q] \in Ended \cup {"new"}
    BY DEF IInv, TypeInv, SerialInv, Running
  <1>2. \A q \in Runs : Progress(q)'
    <2> SUFFICES ASSUME NEW q \in Runs \ {r} PROVE Progress(q)' OBVIOUS
    <2>1. pc'[q] \in Ended \cup {"new"} /\ rollback'[q] = rollback[q] BY <1>1
    <2>2. pc'[q] \in Before => rollback'[q] = NoTree
      BY <1>1, <2>1 DEF SInv, Progress
    <2> QED
      BY <2>1, <2>2 DEF Progress, FreshRun, UpgradeRun, HandlerRun, Ended
  <1>3. \A q, p \in Runs : before[q].payload = p => p # r /\ pc'[p] \in Ended
    BY <1>1 DEF SInv, PayloadInv, Running
  <1>4. \A q \in Runs : target'.payload = q => pc'[q] # "new"
    <2> SUFFICES ASSUME NEW q \in Runs, q # r, target'.payload = q PROVE pc'[q] # "new"
      BY <1>1
    <2>1. target'.payload = target.payload \/ target'.payload = before[r].payload
      BY Payloads
    <2>2. CASE target.payload = q BY <1>1, <2>2 DEF SInv, PayloadInv
    <2>3. CASE before[r].payload = q BY <1>3, <2>3 DEF Ended
    <2> QED BY <2>1, <2>2, <2>3
  <1>5. ASSUME NEW q \in Runs, Whole(before[q]), pc'[q] \notin {"new", "failed"}
        PROVE  Somewhere(before[q].payload)'
    <2>1. pc[q] \notin {"new", "failed"} BY <1>1, <1>5 DEF Running, Ended
    <2>2. Somewhere(before[q].payload) /\ before[q].payload \in Runs \cup {0}
      BY <1>5, <2>1, Payloads DEF SInv, PayloadInv
    <2>3. before[q].payload # r BY <1>3
    <2> QED BY <2>2, <2>3
  <1>6. target'.payload = NoTree.payload => target' = NoTree
    BY Payloads DEF SInv, PayloadInv, WholeKept
  <1>7. PayloadInv'
    <2>1. \A q \in Runs : Whole(before[q])' <=> Whole(before[q]) BY DEF Whole, Runs
    <2>2. NoTree.payload' = NoTree.payload /\ NoTree' = NoTree BY DEF NoTree
    <2> QED BY <1>3, <1>4, <1>5, <1>6, <2>1, <2>2 DEF SInv, PayloadInv
  <1>8. WholeInv'
    <2>1. CASE \E q \in Runs : pc[q] \in {"unrestored", "crashed"} /\ Saved(q)
      <3>1. PICK q \in Runs : pc[q] \in {"unrestored", "crashed"} /\ Saved(q) BY <2>1
      <3>2. q # r BY <3>1 DEF Running, Ended
      <3> QED BY <1>1, <3>1, <3>2 DEF WholeInv, Saved, Whole, Runs
    <2>2. CASE /\ \A q \in Runs : Exists(before[q]) => Whole(before[q])
               /\ Exists(target) => Whole(target) \/ \E q \in Runs : pc[q] = "x_clear"
      <3>1. \A q \in Runs : Exists(before[q])' => Whole(before[q])'
        BY <2>2 DEF Exists, Whole, Runs, NoTree
      <3>2. \A q \in Runs \ {r} : pc[q] # "x_clear" BY <1>1 DEF Ended
      <3>3. CASE Whole(target') \/ target' = NoTree BY <3>1, <3>3 DEF WholeInv, Exists, Whole, Runs, NoTree
      <3>4. CASE where = "x_clear" BY <1>1, <3>1, <3>4 DEF WholeInv
      <3>5. CASE target' = before[r] /\ Exists(before[r])
        BY <2>2, <3>1, <3>5 DEF WholeInv, Exists, Whole, Runs, NoTree
      <3>6. CASE UNCHANGED target /\ pc[r] # "x_clear"
        BY <2>2, <3>1, <3>2, <3>6 DEF WholeInv, Exists, Whole, Runs, NoTree
      <3>7. CASE /\ UNCHANGED target /\ where \in {"unrestored", "crashed"}
                 /\ rollback'[r] = before[r] /\ Exists(before[r])
        BY <1>1, <2>2, <3>7 DEF WholeInv, Saved, Whole, Runs
      <3> QED BY <3>3, <3>4, <3>5, <3>6, <3>7 DEF WholeKept
    <2> QED BY <2>1, <2>2 DEF SInv, WholeInv
  <1> QED BY <1>2, <1>7, <1>8 DEF SInv

(* Where runs overlap nothing but the type is claimed. *)
LEMMA OverlapStep ==
  ASSUME IInv, SInv, overlap, [Next]_vars
  PROVE  SInv'
  <1>1. overlap' = overlap
    BY DEF Next, vars, Stage, Fresh, Upgrade, Restore, Fault, StartFresh, PromoteFresh,
       WriteLocal, StartUpgrade, Preserve, MoveAway, Promote, NotePromoted, MoveRuntime, Finish,
       ReturnRuntime, NothingToReturn, OpenTarget, RemoveEntry, RemoveTarget, PutBack,
       RemoveStage, CallFails, RestorationFails, Crash, Strikes
  <1>2. before' = before \/ \E r \in Runs : before' = [before EXCEPT ![r] = target]
    BY DEF Next, vars, Stage, Fresh, Upgrade, Restore, Fault, StartFresh, PromoteFresh,
       WriteLocal, StartUpgrade, Preserve, MoveAway, Promote, NotePromoted, MoveRuntime, Finish,
       ReturnRuntime, NothingToReturn, OpenTarget, RemoveEntry, RemoveTarget, PutBack,
       RemoveStage, CallFails, RestorationFails, Crash, Strikes
  <1> QED BY <1>1, <1>2 DEF SInv, IInv, TypeInv

(* The trees left alone: only the order of the run under way has to be shown. *)
LEMMA StillStep ==
  ASSUME IInv, SInv, ~overlap, NEW r \in Runs, Running(r),
         NEW where \in Steps, where # "new", pc' = [pc EXCEPT ![r] = where],
         UNCHANGED <<target, rollback, before, overlap>>, Progress(r)',
         pc[r] = "x_clear" => where \in {"unrestored", "crashed"}
  PROVE  SInv'
  <1>1. WholeKept(r, where)
    <2>1. pc[r] = "x_clear" => rollback[r] = before[r] /\ Exists(before[r])
      BY DEF SInv, Progress, HandlerRun, Ended
    <2> QED BY <2>1 DEF WholeKept
  <1>2. \A p : Somewhere(p) => Somewhere(p)' BY DEF Somewhere
  <1> QED BY <1>1, <1>2, SerialStep

LEMMA StartSerial ==
  ASSUME IInv, SInv, ~overlap, NEW r \in Runs, StartFresh(r) \/ StartUpgrade(r)
  PROVE  SInv'
  <1>1. PICK where \in {"failed", "f_stage", "u_stage"} :
          /\ pc' = [pc EXCEPT ![r] = where]
          /\ where = "f_stage" => target = NoTree
          /\ where = "u_stage" => Exists(target)
    BY DEF StartFresh, StartUpgrade, Goto, Exists
  <1>2. /\ pc[r] = "new" /\ before' = [before EXCEPT ![r] = target]
        /\ UNCHANGED <<target, stage, rollback, todo, promoted, overlap>>
        /\ \A q \in Runs : pc[q] \in Ended \cup {"new"}
    BY DEF StartFresh, StartUpgrade, MayStart
  <1>3. /\ pc'[r] = where /\ \A q \in Runs \ {r} : pc'[q] = pc[q]
    BY <1>1 DEF IInv, TypeInv
  <1>4. /\ before' \in [Runs -> TreeSet] /\ before'[r] = target
        /\ \A q \in Runs \ {r} : before'[q] = before[q]
    BY <1>2 DEF SInv, IInv, TypeInv
  <1>5. Progress(r)'
    <2>1. rollback[r] = NoTree BY <1>2 DEF SInv, Progress, Before
    <2> QED
      BY <1>1, <1>2, <1>3, <1>4, <2>1
      DEF Progress, FreshRun, UpgradeRun, HandlerRun, Unmoved, Ended, Exists
  <1>6. \A q \in Runs \ {r} : Progress(q)'
    <2> SUFFICES ASSUME NEW q \in Runs \ {r} PROVE Progress(q)' OBVIOUS
    <2>1. pc'[q] \in Ended \cup {"new"} /\ (pc'[q] \in Before => rollback'[q] = NoTree)
      BY <1>2, <1>3 DEF SInv, Progress
    <2> QED BY <2>1 DEF Progress, FreshRun, UpgradeRun, HandlerRun, Ended
  <1>7. PayloadInv'
    <2>1. \A q, p \in Runs : before'[q].payload = p => pc'[p] \in Ended
      <3>1. \A p \in Runs : target.payload = p => p # r /\ pc[p] \in Ended
        BY <1>2 DEF SInv, PayloadInv
      <3>2. \A q, p \in Runs : before[q].payload = p => p # r /\ pc[p] \in Ended
        BY <1>2 DEF SInv, PayloadInv, Ended
      <3> QED BY <1>3, <1>4, <3>1, <3>2
    <2>2. \A q \in Runs : target'.payload = q => pc'[q] # "new"
      BY <1>1, <1>2, <1>3 DEF SInv, PayloadInv
    <2>3. \A q \in Runs : Whole(before[q])' /\ pc'[q] \notin {"new", "failed"}
                             => Somewhere(before[q].payload)'
      <3>1. \A s : Somewhere(s)' <=> Somewhere(s) BY <1>2 DEF Somewhere
      <3>2. Somewhere(target.payload) BY DEF Somewhere
      <3>3. \A q \in Runs \ {r} : Whole(before[q]) /\ pc[q] \notin {"new", "failed"}
                                    => Somewhere(before[q].payload)
        BY DEF SInv, PayloadInv
      <3>4. ASSUME NEW q \in Runs, Whole(before[q])', pc'[q] \notin {"new", "failed"}
            PROVE  Somewhere(before[q].payload)'
        <4>1. CASE q = r BY <1>4, <3>1, <3>2, <4>1
        <4>2. CASE q # r
          <5>1. before'[q] = before[q] /\ pc'[q] = pc[q] BY <1>3, <1>4, <4>2
          <5>2. Whole(before[q]) BY <3>4, <5>1 DEF Whole, Runs
          <5> QED BY <3>1, <3>3, <3>4, <4>2, <5>1, <5>2
        <4> QED BY <4>1, <4>2
      <3> QED BY <3>4
    <2>4. /\ \A q \in Runs : before'[q].payload = NoTree.payload => before'[q] = NoTree
          /\ target'.payload = NoTree.payload => target' = NoTree
      <3>1. \A q \in Runs : before'[q] = target \/ before'[q] = before[q] BY <1>4
      <3> QED BY <1>2, <3>1 DEF SInv, PayloadInv
    <2>5. NoTree.payload' = NoTree.payload /\ NoTree' = NoTree BY DEF NoTree
    <2> QED BY <2>1, <2>2, <2>3, <2>4, <2>5 DEF PayloadInv
  <1>8. WholeInv'
    <2>1. CASE \E q \in Runs : pc[q] \in {"unrestored", "crashed"} /\ Saved(q)
      <3>1. PICK q \in Runs : pc[q] \in {"unrestored", "crashed"} /\ Saved(q) BY <2>1
      <3>2. q # r BY <1>2, <3>1
      <3> QED BY <1>2, <1>3, <1>4, <3>1, <3>2 DEF WholeInv, Saved, Whole, Runs
    <2>2. CASE /\ \A q \in Runs : Exists(before[q]) => Whole(before[q])
               /\ Exists(target) => Whole(target) \/ \E q \in Runs : pc[q] = "x_clear"
      <3>1. Exists(target) => Whole(target) BY <1>2, <2>2 DEF Ended
      <3>2. \A q \in Runs : before'[q] = target \/ before'[q] = before[q] BY <1>4
      <3> QED BY <1>2, <2>2, <3>1, <3>2 DEF WholeInv, Exists, Whole, Runs, NoTree
    <2> QED BY <2>1, <2>2 DEF SInv, WholeInv
  <1> QED BY <1>4, <1>5, <1>6, <1>7, <1>8 DEF SInv

LEMMA StageSerial ==
  ASSUME IInv, SInv, ~overlap, NEW r \in Runs, Stage(r)
  PROVE  SInv'
  <1>1. PICK where \in {"f_promote", "u_preserve"} :
          /\ pc' = [pc EXCEPT ![r] = where]
          /\ where = "f_promote" => pc[r] = "f_stage"
          /\ where = "u_preserve" => pc[r] = "u_stage"
    BY DEF Stage, Goto
  <1>2. /\ stage'[r] = [payload |-> r, dirs |-> {}, local |-> FALSE]
        /\ UNCHANGED <<target, rollback, todo, promoted, overlap, before>>
        /\ pc[r] \in {"f_stage", "u_stage"}
    BY DEF Stage, IInv, TypeInv
  <1>3. pc'[r] = where /\ Running(r) /\ where \in Steps /\ where # "new"
    BY <1>1, <1>2 DEF IInv, TypeInv, Running, Ended, Steps, Before
  <1>4. Progress(r) BY DEF SInv
  <1>5. Progress(r)'
    BY <1>1, <1>2, <1>3, <1>4
    DEF Progress, FreshRun, UpgradeRun, HandlerRun, Unmoved, Before, Ended, Exists
  <1> QED BY <1>1, <1>2, <1>3, <1>5, StillStep

LEMMA PreserveSerial ==
  ASSUME IInv, SInv, ~overlap, NEW r \in Runs, Preserve(r)
  PROVE  SInv'
  <1>1. /\ pc[r] = "u_preserve" /\ UNCHANGED <<target, rollback, todo, promoted, overlap, before>>
        /\ Running(r)
    BY DEF Preserve, Running, Ended
  <1>2. Progress(r) BY DEF SInv
  <1>3. CASE Goto(r, "failed")
    <2>1. pc' = [pc EXCEPT ![r] = "failed"] /\ pc'[r] = "failed" /\ "failed" \in Steps
      BY <1>3 DEF IInv, TypeInv, Goto, Steps, Ended
    <2>2. Progress(r)'
      BY <2>1 DEF Progress, FreshRun, UpgradeRun, HandlerRun, Before, Ended
    <2> QED BY <1>1, <2>1, <2>2, StillStep
  <1>4. CASE Goto(r, "u_away") /\ stage' = [stage EXCEPT ![r].local = target.local]
    <2>1. pc' = [pc EXCEPT ![r] = "u_away"] /\ pc'[r] = "u_away" /\ "u_away" \in Steps
      BY <1>4 DEF IInv, TypeInv, Goto, Steps, Before
    <2>2. stage[r] = [payload |-> r, dirs |-> {}, local |-> FALSE] /\ Unmoved(r)
      BY <1>1, <1>2 DEF Progress, UpgradeRun
    <2>3. stage'[r] = [payload |-> r, dirs |-> {}, local |-> before[r].local]
      <3>1. stage'[r] = [stage[r] EXCEPT !.local = target.local] BY <1>4 DEF IInv, TypeInv
      <3> QED BY <2>2, <3>1 DEF Unmoved
    <2>4. Progress(r)'
      BY <1>1, <1>2, <2>1, <2>2, <2>3
      DEF Progress, FreshRun, UpgradeRun, HandlerRun, Unmoved, Before, Ended, Exists
    <2> QED BY <1>1, <2>1, <2>4, StillStep
  <1> QED BY <1>3, <1>4 DEF Preserve

LEMMA FreshSerial ==
  ASSUME IInv, SInv, ~overlap, NEW r \in Runs, PromoteFresh(r) \/ WriteLocal(r)
  PROVE  SInv'
  <1>1. PICK where \in {"f_local", "installed", "failed"} : Goto(r, where)
    BY DEF PromoteFresh, WriteLocal
  <1>2. /\ pc' = [pc EXCEPT ![r] = where] /\ pc'[r] = where /\ where \in Steps /\ where # "new"
        /\ UNCHANGED <<rollback, before, overlap>>
    BY <1>1 DEF IInv, TypeInv, Goto, Steps, Before, Ended, PromoteFresh, WriteLocal
  <1>3. pc[r] \in {"f_promote", "f_local"} /\ Running(r)
    BY DEF PromoteFresh, WriteLocal, Running, Ended
  <1>4. before[r] = NoTree /\ rollback[r] = NoTree
    BY <1>3 DEF SInv, Progress, FreshRun, Before
  <1>5. CASE UNCHANGED target /\ where = "failed"
    <2>1. Progress(r)'
      BY <1>2, <1>5 DEF Progress, FreshRun, UpgradeRun, HandlerRun, Before, Ended
    <2> QED BY <1>2, <1>3, <1>5, <2>1, StillStep
  <1>6. CASE target' = stage[r] /\ target = NoTree /\ pc[r] = "f_promote" /\ where = "f_local"
    <2>1. stage[r].payload = r BY <1>6 DEF SInv, Progress, FreshRun
    <2>2. Progress(r)'
      BY <1>2, <1>4, <1>6, <2>1
      DEF Progress, FreshRun, UpgradeRun, HandlerRun, Before, Ended
    <2>3. WholeKept(r, where) BY <1>6, <2>1, Payloads DEF WholeKept, Whole, Runs
    <2>4. \A p \in Runs \cup {0} : Somewhere(p) => Somewhere(p)'
      BY <1>2, <1>6, Payloads DEF Somewhere
    <2> QED BY <1>2, <1>3, <1>6, <2>1, <2>2, <2>3, <2>4, SerialStep
  <1>7. CASE target' = [target EXCEPT !.local = TRUE] /\ Exists(target) /\ pc[r] = "f_local"
             /\ where = "installed"
    <2>1. target \in TreeSet /\ target.payload = r
      BY <1>7 DEF IInv, TypeInv, SInv, Progress, FreshRun
    <2>2. target'.payload = r BY <1>7, <2>1 DEF TreeSet
    <2>3. Progress(r)'
      BY <1>2, <1>7 DEF Progress, FreshRun, UpgradeRun, HandlerRun, Before, Ended
    <2>4. WholeKept(r, where) BY <2>2 DEF WholeKept, Whole
    <2>5. \A p : Somewhere(p) => Somewhere(p)'
      BY <1>2, <2>1, <2>2 DEF Somewhere
    <2> QED BY <1>2, <1>3, <2>2, <2>3, <2>4, <2>5, SerialStep
  <1>8. where = "failed" \/ where = "f_local" \/ where = "installed" OBVIOUS
  <1>9. pc'[r] = where BY <1>2
  <1>10. \/ UNCHANGED target /\ pc'[r] = "failed"
         \/ target' = stage[r] /\ pc[r] = "f_promote" /\ pc'[r] = "f_local"
         \/ target' = [target EXCEPT !.local = TRUE] /\ Exists(target) /\ pc[r] = "f_local"
            /\ pc'[r] = "installed"
    BY DEF PromoteFresh, WriteLocal, Exists, Goto, IInv, TypeInv
  <1>11. pc[r] = "f_promote" => target = NoTree BY DEF SInv, Progress, FreshRun
  <1> QED BY <1>5, <1>6, <1>7, <1>9, <1>10, <1>11

(* A run that gives up before it has promoted its payload has nothing to give *)
(* back; one that fails after it returns what it had moved.                  *)
LEMMA HandlerSerial ==
  ASSUME IInv, SInv, ~overlap, NEW r \in Runs, Handler(r),
         pc[r] \in {"u_away", "u_promote", "u_move"},
         UNCHANGED <<target, rollback, before, promoted, overlap>>
  PROVE  SInv'
  <1>1. /\ pc' = [pc EXCEPT ![r] = "x_return"] /\ pc'[r] = "x_return" /\ "x_return" \in Steps
        /\ Running(r)
    BY DEF Handler, Goto, IInv, TypeInv, Steps, Handling, Running, Ended
  <1>2. Progress(r) BY DEF SInv
  <1>3. Exists(before[r]) BY <1>2 DEF Progress, Ended
  <1>4. CASE pc[r] \in {"u_away", "u_promote"}
    <2>1. ~promoted[r] BY <1>4 DEF IInv, HandlerInv, Handling, Ended
    <2>2. todo'[r] = {} BY <2>1 DEF Handler, IInv, TypeInv
    <2>3. Unmoved(r) \/ Swapped(r) BY <1>2, <1>4 DEF Progress, UpgradeRun
    <2>4. Progress(r)'
      BY <1>1, <1>3, <2>2, <2>3
      DEF Progress, FreshRun, UpgradeRun, HandlerRun, Unmoved, Swapped, Before, Exists
    <2> QED BY <1>1, <2>4, StillStep
  <1>5. CASE pc[r] = "u_move"
    <2>1. Split(r) /\ promoted[r] BY <1>2, <1>5 DEF Progress, UpgradeRun
    <2>2. Exists(target)
      <3>1. target.payload = r BY <2>1 DEF Split
      <3> QED BY <3>1, Payloads DEF Exists
    <2>3. todo'[r] # {} BY <2>1, <2>2 DEF Handler, IInv, TypeInv, RuntimeDirs
    <2>4. Progress(r)'
      BY <1>1, <1>3, <2>1, <2>3
      DEF Progress, FreshRun, UpgradeRun, HandlerRun, Split, Before, Exists
    <2> QED BY <1>1, <2>4, StillStep
  <1> QED BY <1>4, <1>5

LEMMA MoveAwaySerial ==
  ASSUME IInv, SInv, ~overlap, NEW r \in Runs, MoveAway(r)
  PROVE  SInv'
  <1>1. CASE ~Exists(target)
    BY <1>1, HandlerSerial DEF MoveAway
  <1>2. CASE Exists(target)
    <2>1. /\ pc[r] = "u_away" /\ rollback' = [rollback EXCEPT ![r] = target]
          /\ target' = NoTree /\ pc' = [pc EXCEPT ![r] = "u_promote"]
          /\ UNCHANGED <<stage, todo, promoted, overlap, before>>
      BY <1>2 DEF MoveAway, Goto
    <2>2. /\ pc'[r] = "u_promote" /\ "u_promote" \in Steps /\ Running(r)
          /\ rollback'[r] = target /\ \A q \in Runs \ {r} : rollback'[q] = rollback[q]
      BY <2>1 DEF IInv, TypeInv, Steps, Running, Ended
    <2>3. Progress(r) BY DEF SInv
    <2>4. /\ Unmoved(r) /\ Exists(before[r])
          /\ stage[r] = [payload |-> r, dirs |-> {}, local |-> before[r].local]
      BY <2>1, <2>3 DEF Progress, UpgradeRun, Ended
    <2>5. Progress(r)'
      BY <2>1, <2>2, <2>4
      DEF Progress, FreshRun, UpgradeRun, HandlerRun, Unmoved, Swapped, Before, Exists
    <2>6. \A p \in Runs \cup {0} : Somewhere(p) => Somewhere(p)'
      <3> SUFFICES ASSUME NEW p \in Runs \cup {0}, Somewhere(p) PROVE Somewhere(p)'
        OBVIOUS
      <3>1. CASE target.payload = p BY <2>2, <3>1 DEF Somewhere
      <3>2. CASE target.payload # p
        <4>1. PICK q \in Runs : rollback[q].payload = p BY <3>2 DEF Somewhere
        <4>2. q # r BY <2>4, <4>1, Payloads DEF Unmoved
        <4> QED BY <2>2, <4>1, <4>2 DEF Somewhere
      <3> QED BY <3>1, <3>2
    <2>7. WholeKept(r, "u_promote") /\ ~Whole(target') BY <2>1, Payloads DEF WholeKept
    <2> QED BY <2>1, <2>2, <2>5, <2>6, <2>7, SerialStep
  <1> QED BY <1>1, <1>2

LEMMA PromoteSerial ==
  ASSUME IInv, SInv, ~overlap, NEW r \in Runs, Promote(r)
  PROVE  SInv'
  <1>1. CASE ~Free(target)
    BY <1>1, HandlerSerial DEF Promote
  <1>2. CASE Free(target)
    <2>1. /\ pc[r] = "u_promote" /\ target' = stage[r]
          /\ pc' = [pc EXCEPT ![r] = "u_note"]
          /\ UNCHANGED <<rollback, todo, promoted, overlap, before>>
      BY <1>2 DEF Promote, Goto
    <2>2. pc'[r] = "u_note" /\ "u_note" \in Steps /\ Running(r)
      BY <2>1 DEF IInv, TypeInv, Steps, Running, Ended
    <2>3. Progress(r) BY DEF SInv
    <2>4. /\ Swapped(r) /\ Exists(before[r])
          /\ target' = [payload |-> r, dirs |-> {}, local |-> before[r].local]
      BY <2>1, <2>3 DEF Progress, UpgradeRun, Ended
    <2>5. before[r] \in TreeSet BY DEF SInv
    <2>6. Split(r)' /\ rollback'[r] = before'[r]
      <3>1. before[r] = [before[r] EXCEPT !.dirs = before[r].dirs] BY <2>5 DEF TreeSet
      <3> QED BY <2>1, <2>4, <3>1 DEF Split, Swapped
    <2>7. Progress(r)'
      BY <2>1, <2>2, <2>4, <2>6
      DEF Progress, FreshRun, UpgradeRun, HandlerRun, Before, Exists
    <2>8. \A p \in Runs \cup {0} : Somewhere(p) => Somewhere(p)'
      BY <2>1, <2>4, Payloads DEF Somewhere, Swapped
    <2>9. target'.payload = r /\ WholeKept(r, "u_note")
      BY <2>4 DEF WholeKept, Whole
    <2> QED BY <2>1, <2>2, <2>7, <2>8, <2>9, SerialStep
  <1> QED BY <1>1, <1>2

LEMMA NoteSerial ==
  ASSUME IInv, SInv, ~overlap, NEW r \in Runs, NotePromoted(r)
  PROVE  SInv'
  <1>1. /\ pc[r] = "u_note" /\ pc' = [pc EXCEPT ![r] = "u_move"]
        /\ promoted' = [promoted EXCEPT ![r] = TRUE] /\ todo' = [todo EXCEPT ![r] = RuntimeDirs]
        /\ UNCHANGED <<target, stage, rollback, overlap, before>>
    BY DEF NotePromoted, Goto
  <1>2. /\ pc'[r] = "u_move" /\ "u_move" \in Steps /\ Running(r)
        /\ promoted'[r] /\ todo'[r] = RuntimeDirs
    BY <1>1 DEF IInv, TypeInv, Steps, Running, Ended
  <1>3. Progress(r) BY DEF SInv
  <1>4. Split(r) /\ Exists(before[r]) BY <1>1, <1>3 DEF Progress, UpgradeRun, Ended
  <1>5. rollback[r].dirs \subseteq RuntimeDirs
    <2>1. rollback[r] \in TreeSet BY DEF IInv, TypeInv
    <2> QED BY <2>1 DEF TreeSet
  <1>6. Progress(r)'
    BY <1>1, <1>2, <1>4, <1>5
    DEF Progress, FreshRun, UpgradeRun, HandlerRun, Split, Before, Exists
  <1> QED BY <1>1, <1>2, <1>6, StillStep

(* The steps that end a run with what it has. *)
LEMMA EndSerial ==
  ASSUME IInv, SInv, ~overlap, NEW r \in Runs,
         Finish(r) \/ RemoveStage(r) \/ RestorationFails(r) \/ Crash(r)
  PROVE  SInv'
  <1>1. PICK where \in Ended : pc' = [pc EXCEPT ![r] = where]
    BY DEF Finish, RemoveStage, RestorationFails, Crash, Goto, Ended
  <1>2. UNCHANGED <<target, rollback, before, overlap>> /\ Running(r)
    BY DEF Finish, RemoveStage, RestorationFails, Crash, Strikes, Running, Ended
  <1>3. pc'[r] = where /\ where \in Steps /\ where # "new"
    BY <1>1 DEF IInv, TypeInv, Steps, Ended
  <1>4. Progress(r)'
    BY <1>3 DEF Progress, FreshRun, UpgradeRun, HandlerRun, Before, Ended
  <1>5. pc[r] = "x_clear" => where \in {"unrestored", "crashed"}
    <2>1. pc[r] = "x_clear" => pc'[r] \in {"unrestored", "crashed"}
      BY DEF Finish, RemoveStage, RestorationFails, Crash, Goto, IInv, TypeInv
    <2> QED BY <1>3, <2>1
  <1> QED BY <1>1, <1>2, <1>3, <1>4, <1>5, StillStep

LEMMA FailSerial ==
  ASSUME IInv, SInv, ~overlap, NEW r \in Runs, CallFails(r)
  PROVE  SInv'
  <1>1. UNCHANGED <<target, rollback, promoted, before, overlap>> BY DEF CallFails, Strikes
  <1>2. CASE Goto(r, "failed") /\ pc[r] \in {"f_stage", "f_promote", "u_stage", "u_preserve"}
    <2>1. /\ pc' = [pc EXCEPT ![r] = "failed"] /\ pc'[r] = "failed" /\ "failed" \in Steps
          /\ Running(r)
      BY <1>2 DEF Goto, IInv, TypeInv, Steps, Ended, Running
    <2>2. Progress(r)'
      BY <2>1 DEF Progress, FreshRun, UpgradeRun, HandlerRun, Before, Ended
    <2>3. pc[r] # "x_clear" BY <1>2
    <2> QED BY <1>1, <2>1, <2>2, <2>3, StillStep
  <1>3. CASE Handler(r) /\ pc[r] \in {"u_away", "u_promote", "u_move"}
    BY <1>1, <1>3, HandlerSerial
  <1> QED BY <1>2, <1>3 DEF CallFails

(* A directory more or less in the rollback tree, and the rest in the target. *)
LEMMA SplitAgain ==
  ASSUME IInv, SInv, NEW r \in Runs, Split(r), NEW dirs \in SUBSET before[r].dirs,
         rollback'[r] = [rollback[r] EXCEPT !.dirs = dirs],
         target' = [target EXCEPT !.dirs = before[r].dirs \ dirs], before' = before
  PROVE  /\ Split(r)' /\ rollback'[r].dirs = dirs
         /\ target'.payload = target.payload /\ rollback'[r].payload = rollback[r].payload
  <1>1. before[r] \in TreeSet /\ rollback[r] \in TreeSet /\ target \in TreeSet
    BY DEF SInv, IInv, TypeInv
  <1>2. rollback'[r].dirs = dirs /\ rollback'[r].payload = rollback[r].payload
    BY <1>1 DEF TreeSet
  <1>3. target'.payload = target.payload BY <1>1 DEF TreeSet
  <1>4. rollback'[r] = [before[r] EXCEPT !.dirs = dirs]
    <2>1. rollback[r] = [before[r] EXCEPT !.dirs = rollback[r].dirs] BY DEF Split
    <2> QED BY <1>1, <2>1 DEF TreeSet
  <1>5. target' = [payload |-> r, dirs |-> before[r].dirs \ dirs, local |-> before[r].local]
    BY <1>1 DEF Split, TreeSet
  <1> QED BY <1>2, <1>3, <1>4, <1>5 DEF Split

(* Both trees of a run that is between them are there. *)
LEMMA SplitExists ==
  ASSUME IInv, SInv, ~overlap, NEW r \in Runs, Split(r), Exists(before[r])
  PROVE  Exists(target) /\ Exists(rollback[r])
  <1>1. target.payload = r BY DEF Split
  <1>2. rollback[r].payload = before[r].payload /\ before[r].payload # NoTree.payload
    BY DEF Split, SInv, PayloadInv, TreeSet, Exists
  <1> QED BY <1>1, <1>2, Payloads DEF Exists

(* The two loops move one directory between the two trees of the run. *)
LEMMA LoopSerial ==
  ASSUME IInv, SInv, ~overlap, NEW r \in Runs, Running(r), Split(r), Exists(before[r]),
         NEW where \in {"u_move", "x_return", "x_remove"}, pc' = [pc EXCEPT ![r] = where],
         NEW dirs \in SUBSET before[r].dirs,
         rollback' = [rollback EXCEPT ![r] = [rollback[r] EXCEPT !.dirs = dirs]],
         target' = [target EXCEPT !.dirs = before[r].dirs \ dirs],
         where = "u_move" => dirs \subseteq todo'[r] /\ promoted'[r],
         where = "x_return" => todo'[r] # {},
         UNCHANGED <<before, overlap>>
  PROVE  SInv'
  <1>1. /\ rollback'[r] = [rollback[r] EXCEPT !.dirs = dirs]
        /\ \A q \in Runs \ {r} : rollback'[q] = rollback[q]
    BY DEF IInv, TypeInv
  <1>2. /\ Split(r)' /\ rollback'[r].dirs = dirs
        /\ target'.payload = target.payload /\ rollback'[r].payload = rollback[r].payload
    BY <1>1, SplitAgain
  <1>3. pc'[r] = where /\ where \in Steps /\ where # "new"
    BY DEF IInv, TypeInv, Steps, Handling
  <1>4. Progress(r)'
    BY <1>2, <1>3 DEF Progress, FreshRun, UpgradeRun, HandlerRun, Before, Exists
  <1>5. \A p : Somewhere(p) => Somewhere(p)'
    <2>1. \A q \in Runs : rollback'[q].payload = rollback[q].payload BY <1>1, <1>2
    <2> QED BY <1>2, <2>1 DEF Somewhere
  <1>6. target'.payload = r /\ WholeKept(r, where)
    BY <1>2 DEF Split, WholeKept, Whole
  <1> QED BY <1>1, <1>3, <1>4, <1>5, <1>6, SerialStep

LEMMA MoveRuntimeSerial ==
  ASSUME IInv, SInv, ~overlap, NEW r \in Runs, MoveRuntime(r)
  PROVE  SInv'
  <1> DEFINE d == FirstDir(todo[r])  dirs == rollback[r].dirs \ {d}
  <1>1. /\ pc[r] = "u_move" /\ todo' = [todo EXCEPT ![r] = @ \ {d}]
        /\ UNCHANGED <<stage, pc, promoted, overlap, before>>
    BY DEF MoveRuntime
  <1>2. Progress(r) BY DEF SInv
  <1>3. /\ Split(r) /\ rollback[r].dirs \subseteq todo[r] /\ promoted[r] /\ Exists(before[r])
    BY <1>1, <1>2 DEF Progress, UpgradeRun, Ended
  <1>4. /\ target \in TreeSet /\ rollback \in [Runs -> TreeSet] /\ pc \in [Runs -> Steps]
        /\ todo \in [Runs -> SUBSET RuntimeDirs]
    BY DEF IInv, TypeInv
  <1>5. Running(r) /\ pc' = [pc EXCEPT ![r] = "u_move"] BY <1>1, <1>4 DEF Running, Ended
  <1>6. todo'[r] = todo[r] \ {d} BY <1>1, <1>4
  <1>7. rollback[r] \in TreeSet /\ target.dirs = before[r].dirs \ rollback[r].dirs
    BY <1>3, <1>4 DEF Split
  <1>8. /\ rollback' = [rollback EXCEPT ![r] = [rollback[r] EXCEPT !.dirs = dirs]]
        /\ target' = [target EXCEPT !.dirs = before[r].dirs \ dirs]
    <2>1. CASE d \in rollback[r].dirs
      <3>1. d \in before[r].dirs BY <1>3, <2>1 DEF Split
      <3>2. before[r].dirs \ dirs = target.dirs \cup {d} BY <1>7, <2>1, <3>1
      <3>3. /\ target' = With(target, d)
            /\ rollback' = [rollback EXCEPT ![r] = Without(rollback[r], d)]
        BY <2>1 DEF MoveRuntime
      <3>4. With(target, d) = [target EXCEPT !.dirs = target.dirs \cup {d}]
        BY <1>3, SplitExists DEF With
      <3>5. Without(rollback[r], d) = [rollback[r] EXCEPT !.dirs = dirs] BY DEF Without
      <3> QED BY <3>2, <3>3, <3>4, <3>5
    <2>2. CASE d \notin rollback[r].dirs
      <3>1. UNCHANGED <<target, rollback>> BY <2>2 DEF MoveRuntime
      <3>2. dirs = rollback[r].dirs /\ target.dirs = before[r].dirs \ dirs BY <1>7, <2>2
      <3> HIDE DEF d, dirs
      <3>3. target = [target EXCEPT !.dirs = before[r].dirs \ dirs]
        BY <1>4, <3>2 DEF TreeSet
      <3>4. rollback[r] = [rollback[r] EXCEPT !.dirs = dirs] BY <1>7, <3>2 DEF TreeSet
      <3>5. rollback = [rollback EXCEPT ![r] = [rollback[r] EXCEPT !.dirs = dirs]]
        BY <1>4, <3>4
      <3> QED BY <3>1, <3>3, <3>5
    <2> QED BY <2>1, <2>2
  <1>9. dirs \in SUBSET before[r].dirs /\ dirs \subseteq todo'[r]
    BY <1>3, <1>6 DEF Split
  <1> HIDE DEF d, dirs
  <1> QED BY <1>1, <1>3, <1>5, <1>8, <1>9, LoopSerial

LEMMA ReturnSerial ==
  ASSUME IInv, SInv, ~overlap, NEW r \in Runs, ReturnRuntime(r)
  PROVE  SInv'
  <1> DEFINE d == FirstDir(todo[r])
             where == IF todo[r] = {d} THEN "x_remove" ELSE "x_return"
             dirs == IF d \in target.dirs THEN rollback[r].dirs \cup {d} ELSE rollback[r].dirs
  <1>1. /\ pc[r] = "x_return" /\ todo[r] # {} /\ todo' = [todo EXCEPT ![r] = @ \ {d}]
        /\ pc' = [pc EXCEPT ![r] = where]
        /\ UNCHANGED <<stage, promoted, overlap, before>>
    BY DEF ReturnRuntime, Goto
  <1>2. Progress(r) BY DEF SInv
  <1>3. Split(r) /\ Exists(before[r]) BY <1>1, <1>2 DEF Progress, HandlerRun, Ended
  <1>4. /\ target \in TreeSet /\ rollback \in [Runs -> TreeSet]
        /\ todo \in [Runs -> SUBSET RuntimeDirs]
    BY DEF IInv, TypeInv
  <1>5. Running(r) BY <1>1 DEF Running, Ended
  <1>6. d \in todo[r] BY <1>1, <1>4 DEF FirstDir, RuntimeDirs
  <1>7. where = "x_return" => todo'[r] # {} BY <1>1, <1>4, <1>6
  <1>8. rollback[r] \in TreeSet /\ target.dirs = before[r].dirs \ rollback[r].dirs
    BY <1>3, <1>4 DEF Split
  <1>9. /\ rollback' = [rollback EXCEPT ![r] = [rollback[r] EXCEPT !.dirs = dirs]]
        /\ target' = [target EXCEPT !.dirs = before[r].dirs \ dirs]
    <2>1. CASE d \in target.dirs
      <3>1. d \notin rollback[r].dirs BY <1>8, <2>1
      <3>2. before[r].dirs \ dirs = target.dirs \ {d} BY <1>8, <2>1
      <3>3. /\ target' = Without(target, d)
            /\ rollback' = [rollback EXCEPT ![r] = With(rollback[r], d)]
        BY <2>1, <3>1 DEF ReturnRuntime
      <3>4. With(rollback[r], d) = [rollback[r] EXCEPT !.dirs = dirs]
        BY <1>3, <2>1, SplitExists DEF With
      <3>5. Without(target, d) = [target EXCEPT !.dirs = before[r].dirs \ dirs]
        BY <3>2 DEF Without
      <3> QED BY <3>3, <3>4, <3>5
    <2>2. CASE d \notin target.dirs
      <3>1. UNCHANGED <<target, rollback>> BY <2>2 DEF ReturnRuntime
      <3>2. dirs = rollback[r].dirs /\ target.dirs = before[r].dirs \ dirs BY <1>8, <2>2
      <3> HIDE DEF d, dirs
      <3>3. target = [target EXCEPT !.dirs = before[r].dirs \ dirs]
        BY <1>4, <3>2 DEF TreeSet
      <3>4. rollback[r] = [rollback[r] EXCEPT !.dirs = dirs] BY <1>8, <3>2 DEF TreeSet
      <3>5. rollback = [rollback EXCEPT ![r] = [rollback[r] EXCEPT !.dirs = dirs]]
        BY <1>4, <3>4
      <3> QED BY <3>1, <3>3, <3>5
    <2> QED BY <2>1, <2>2
  <1>10. dirs \in SUBSET before[r].dirs BY <1>3, <1>8 DEF Split
  <1>11. where \in {"u_move", "x_return", "x_remove"} /\ where # "u_move" OBVIOUS
  <1> HIDE DEF d, dirs, where
  <1> QED BY <1>1, <1>3, <1>5, <1>7, <1>9, <1>10, <1>11, LoopSerial

(* The removal of the target begins when the rollback tree is whole again, ... *)
LEMMA OpenSerial ==
  ASSUME IInv, SInv, ~overlap, NEW r \in Runs, OpenTarget(r)
  PROVE  SInv'
  <1>1. /\ pc[r] = "x_remove" /\ UNCHANGED <<target, rollback, todo, promoted, overlap, before>>
    BY DEF OpenTarget
  <1>2. Split(r) /\ Exists(before[r]) /\ target.dirs = {}
    BY <1>1 DEF SInv, Progress, HandlerRun, IInv, HandlerInv, Removing, Ended
  <1>3. rollback[r] = before[r]
    <2>1. before[r] \in TreeSet BY DEF SInv
    <2>2. rollback[r].dirs = before[r].dirs BY <1>2 DEF Split
    <2>3. rollback[r] = [before[r] EXCEPT !.dirs = before[r].dirs] BY <1>2, <2>2 DEF Split
    <2> QED BY <2>1, <2>3 DEF TreeSet
  <1>4. pc' = [pc EXCEPT ![r] = "x_clear"]
    BY <1>2, SplitExists DEF OpenTarget, Goto
  <1>5. pc'[r] = "x_clear" /\ "x_clear" \in Steps /\ Running(r)
    BY <1>1, <1>4 DEF IInv, TypeInv, Steps, Handling, Running, Ended
  <1>6. target.payload = r BY <1>2 DEF Split
  <1>7. Progress(r)'
    BY <1>1, <1>2, <1>3, <1>5, <1>6
    DEF Progress, FreshRun, UpgradeRun, HandlerRun, Before, Exists
  <1> QED BY <1>1, <1>4, <1>5, <1>7, StillStep

(* ... takes only what is left in the target, ...                            *)
LEMMA EntrySerial ==
  ASSUME IInv, OpenedInv, SInv, ~overlap, NEW r \in Runs, RemoveEntry(r)
  PROVE  SInv'
  <1>1. /\ pc[r] = "x_clear" /\ target' \in Less(target)
        /\ UNCHANGED <<stage, pc, rollback, todo, promoted, overlap, before>>
    BY PlacesApart DEF RemoveEntry, OpenedInv
  <1>2. /\ rollback[r] = before[r] /\ target.dirs = {} /\ target \in TreeSet
        /\ target.payload \in {r, Part, NoPayload} /\ Exists(before[r])
    BY <1>1 DEF SInv, Progress, HandlerRun, IInv, TypeInv, Ended
  <1>3. target'.dirs = {} /\ target'.payload \in {r, Part, NoPayload}
        /\ (Whole(target') => target'.payload = target.payload)
    <2>1. CASE \/ target' = [target EXCEPT !.payload = Part]
               \/ target' = [target EXCEPT !.payload = NoPayload]
      BY <1>2, <2>1, Payloads DEF TreeSet
    <2>2. CASE target' = [target EXCEPT !.local = FALSE] BY <1>2, <2>2 DEF TreeSet
    <2> QED BY <1>1, <1>2, <2>1, <2>2 DEF Less
  <1>4. Running(r) /\ "x_clear" \in Steps /\ pc' = [pc EXCEPT ![r] = "x_clear"]
    BY <1>1 DEF Running, Ended, IInv, TypeInv, Steps, Handling
  <1>5. Progress(r)'
    BY <1>1, <1>2, <1>3
    DEF Progress, FreshRun, UpgradeRun, HandlerRun, Before, Exists
  <1>6. WholeKept(r, "x_clear") BY <1>3, Payloads DEF WholeKept
  <1>7. \A p \in Runs \cup {0} : p # r /\ Somewhere(p) => Somewhere(p)'
    BY <1>1, <1>2, Payloads DEF Somewhere
  <1> QED BY <1>1, <1>3, <1>4, <1>5, <1>6, <1>7, SerialStep

(* ... and ends when there is nothing. *)
LEMMA ReplaceSerial ==
  ASSUME IInv, SInv, ~overlap, NEW r \in Runs, RemoveTarget(r) \/ NothingToReturn(r)
  PROVE  SInv'
  <1>1. /\ pc' = [pc EXCEPT ![r] = "x_replace"] /\ pc[r] \in {"x_clear", "x_return"}
        /\ UNCHANGED <<stage, rollback, todo, promoted, overlap, before>>
    BY DEF RemoveTarget, NothingToReturn, Goto
  <1>2. pc'[r] = "x_replace" /\ "x_replace" \in Steps /\ Running(r)
    BY <1>1 DEF IInv, TypeInv, Steps, Handling, Running, Ended
  <1>3. Progress(r) BY DEF SInv
  <1>4. Exists(before[r]) BY <1>1, <1>3 DEF Progress, Ended
  <1>5. CASE NothingToReturn(r)
    <2>1. UNCHANGED target /\ (Unmoved(r) \/ Swapped(r))
      BY <1>3, <1>5 DEF NothingToReturn, Progress, HandlerRun
    <2>2. Progress(r)'
      BY <1>1, <1>2, <1>4, <2>1
      DEF Progress, FreshRun, UpgradeRun, HandlerRun, Unmoved, Swapped, Before, Exists
    <2> QED BY <1>1, <1>2, <1>5, <2>1, <2>2, StillStep DEF NothingToReturn
  <1>6. CASE RemoveTarget(r)
    <2>1. target' = NoTree /\ rollback[r] = before[r] /\ target.payload = NoPayload
      BY <1>3, <1>6 DEF RemoveTarget, Progress, HandlerRun, EmptyDir
    <2>4. Progress(r)'
      BY <1>1, <1>2, <1>4, <2>1
      DEF Progress, FreshRun, UpgradeRun, HandlerRun, Swapped, Before, Exists
    <2>5. \A p \in Runs \cup {0} : Somewhere(p) => Somewhere(p)'
      BY <1>1, <2>1, Payloads DEF Somewhere
    <2>6. WholeKept(r, "x_replace") /\ ~Whole(target') BY <2>1, Payloads DEF WholeKept
    <2> QED BY <1>1, <1>2, <2>4, <2>5, <2>6, SerialStep
  <1> QED BY <1>5, <1>6

LEMMA PutBackSerial ==
  ASSUME IInv, SInv, ~overlap, NEW r \in Runs, PutBack(r)
  PROVE  SInv'
  <1>1. /\ pc[r] = "x_replace" /\ pc' = [pc EXCEPT ![r] = "x_stage"]
        /\ UNCHANGED <<stage, todo, promoted, overlap, before>>
    BY DEF PutBack, Goto
  <1>2. pc'[r] = "x_stage" /\ "x_stage" \in Steps /\ Running(r)
    BY <1>1 DEF IInv, TypeInv, Steps, Handling, Running, Ended
  <1>3. Progress(r) BY DEF SInv
  <1>4. Exists(before[r]) /\ (Unmoved(r) \/ Swapped(r))
    BY <1>1, <1>3 DEF Progress, HandlerRun, Ended
  <1>5. CASE Unmoved(r)
    <2>1. UNCHANGED <<target, rollback>> BY <1>4, <1>5 DEF PutBack, Unmoved, Exists
    <2>2. Progress(r)'
      BY <1>1, <1>2, <1>4, <1>5, <2>1
      DEF Progress, FreshRun, UpgradeRun, HandlerRun, Unmoved, Before, Exists
    <2> QED BY <1>1, <1>2, <2>1, <2>2, StillStep
  <1>6. CASE Swapped(r)
    <2>1. /\ target = NoTree /\ target' = before[r]
          /\ rollback' = [rollback EXCEPT ![r] = NoTree]
      BY <1>4, <1>6 DEF PutBack, Swapped, Exists
    <2>2. /\ rollback'[r] = NoTree /\ \A q \in Runs \ {r} : rollback'[q] = rollback[q]
      BY <2>1 DEF IInv, TypeInv
    <2>3. Progress(r)'
      BY <1>1, <1>2, <1>4, <2>1
      DEF Progress, FreshRun, UpgradeRun, HandlerRun, Before, Exists
    <2>4. \A p \in Runs \cup {0} : Somewhere(p) => Somewhere(p)'
      <3> SUFFICES ASSUME NEW p \in Runs \cup {0}, Somewhere(p) PROVE Somewhere(p)'
        OBVIOUS
      <3>1. PICK q \in Runs : rollback[q].payload = p BY <2>1, Payloads DEF Somewhere
      <3>2. CASE q = r BY <1>6, <2>1, <3>1, <3>2 DEF Somewhere, Swapped
      <3>3. CASE q # r BY <2>2, <3>1, <3>3 DEF Somewhere
      <3> QED BY <3>2, <3>3
    <2>5. WholeKept(r, "x_stage") BY <1>4, <2>1 DEF WholeKept
    <2> QED BY <1>1, <1>2, <2>1, <2>2, <2>3, <2>4, <2>5, SerialStep
  <1> QED BY <1>4, <1>5, <1>6

LEMMA NextSInv == IInv /\ OpenedInv /\ SInv /\ [Next]_vars => SInv'
  <1> SUFFICES ASSUME IInv, OpenedInv, SInv, [Next]_vars PROVE SInv' OBVIOUS
  <1>1. CASE overlap BY <1>1, OverlapStep
  <1>2. ASSUME ~overlap, NEW r \in Runs,
               Stage(r) \/ Fresh(r) \/ Upgrade(r) \/ Restore(r) \/ Fault(r)
        PROVE  SInv'
    <2>1. CASE Stage(r) BY <1>2, <2>1, StageSerial
    <2>2. CASE Fresh(r) BY <1>2, <2>2, StartSerial, FreshSerial DEF Fresh
    <2>3. CASE Upgrade(r)
      BY <1>2, <2>3, StartSerial, PreserveSerial, MoveAwaySerial, PromoteSerial, NoteSerial,
         MoveRuntimeSerial, EndSerial
      DEF Upgrade
    <2>4. CASE Restore(r)
      BY <1>2, <2>4, ReturnSerial, OpenSerial, EntrySerial, ReplaceSerial, PutBackSerial,
         EndSerial
      DEF Restore
    <2>5. CASE Fault(r) BY <1>2, <2>5, FailSerial, EndSerial DEF Fault
    <2> QED BY <1>2, <2>1, <2>2, <2>3, <2>4, <2>5
  <1>3. CASE UNCHANGED vars
    <2>1. UNCHANGED <<target, stage, rollback, pc, todo, promoted, overlap, before>>
      BY <1>3 DEF vars
    <2>2. \A r \in Runs : Progress(r)' <=> Progress(r)
      BY <2>1 DEF Progress, FreshRun, UpgradeRun, HandlerRun, Unmoved, Swapped, Split, Exists
    <2>3. PayloadInv' <=> PayloadInv
      BY <2>1 DEF PayloadInv, Somewhere, Whole, Runs, NoTree
    <2>4. WholeInv' <=> WholeInv
      BY <2>1 DEF WholeInv, Saved, Exists, Whole, Runs, NoTree
    <2> QED BY <2>1, <2>2, <2>3, <2>4 DEF SInv
  <1> QED BY <1>1, <1>2, <1>3 DEF Next

(* Where runs do not overlap, the one under way accounts for the old tree at  *)
(* every step, and payloads that were found belong to runs that have ended.   *)
THEOREM SerialInvariant == Spec => []SInv
  <1> QED BY InitSInv, NextSInv, InstallInvariant, OpenedFollows, PTL DEF Spec

(* The target is missing or a whole payload, wherever a run was cut off; or   *)
(* it is what a handler's _remove_path has left of a payload, and then the    *)
(* whole tree that the handler was to put back is in its rollback directory.  *)
THEOREM TargetIsWhole == Spec => []TargetWhole
  <1>1. SInv => TargetWhole
    <2> SUFFICES ASSUME SInv, ~overlap, Exists(target), ~Whole(target)
                 PROVE  \E r \in Runs : /\ pc[r] \in {"x_clear", "unrestored", "crashed"}
                                        /\ rollback[r] = before[r] /\ Whole(before[r])
      BY DEF TargetWhole
    <2>1. CASE \E q \in Runs : pc[q] \in {"unrestored", "crashed"} /\ Saved(q)
      BY <2>1 DEF Saved
    <2>2. CASE /\ \A r \in Runs : Exists(before[r]) => Whole(before[r])
               /\ \E r \in Runs : pc[r] = "x_clear"
      BY <2>2 DEF SInv, Progress, HandlerRun, Ended
    <2> QED BY <2>1, <2>2 DEF SInv, WholeInv
  <1> QED BY <1>1, SerialInvariant, PTL

(* Until an upgrade fails and is undone, the payload it replaced is in the    *)
(* target or in a rollback directory, wherever it stopped or was cut off.     *)
THEOREM OldPayloadStays == Spec => []OldPayloadKept
  <1>1. SInv => OldPayloadKept
    <2> SUFFICES ASSUME SInv, ~overlap, NEW r \in Runs,
                        pc[r] \notin {"new", "failed"}, Whole(before[r])
                 PROVE  \E t \in Trees : At(t).payload = before[r].payload
      BY DEF OldPayloadKept
    <2>1. Somewhere(before[r].payload) BY DEF SInv, PayloadInv
    <2> QED BY <2>1, Named DEF Somewhere
  <1> QED BY <1>1, SerialInvariant, PTL

(* A run fails without a crash in one of these steps. *)
LEMMA WhoFails ==
  ASSUME IInv, [Next]_vars, NEW r \in Runs, pc'[r] = "failed", pc[r] \notin {"failed", "new"}
  PROVE  \/ PromoteFresh(r) \/ WriteLocal(r) \/ Preserve(r) \/ RemoveStage(r)
         \/ CallFails(r) /\ pc[r] \in {"f_stage", "f_promote", "u_stage", "u_preserve"}
  <1>1. ~UNCHANGED vars BY DEF vars
  <1>2. PICK q \in Runs : Stage(q) \/ Fresh(q) \/ Upgrade(q) \/ Restore(q) \/ Fault(q)
    BY <1>1 DEF Next
  <1>3. PICK where : pc' = [pc EXCEPT ![q] = where] \/ pc' = pc
    BY <1>2 DEF Stage, Fresh, Upgrade, Restore, Fault, StartFresh, PromoteFresh,
       WriteLocal, StartUpgrade, Preserve, MoveAway, Promote, NotePromoted, MoveRuntime, Finish,
       ReturnRuntime, NothingToReturn, OpenTarget, RemoveEntry, RemoveTarget, PutBack,
       RemoveStage, CallFails, RestorationFails, Crash, Handler, Goto
  <1>4. q = r BY <1>3 DEF IInv, TypeInv
  <1>5. pc \in [Runs -> Steps] BY DEF IInv, TypeInv
  <1>6. CASE Stage(r) \/ Fresh(r)
    BY <1>5, <1>6 DEF Stage, Fresh, StartFresh, MayStart, Goto
  <1>7. CASE Upgrade(r)
    BY <1>5, <1>7 DEF Upgrade, StartUpgrade, MayStart, MoveAway, Promote, NotePromoted, MoveRuntime,
       Finish, Handler, Goto
  <1>8. CASE Restore(r)
    BY <1>5, <1>8 DEF Restore, ReturnRuntime, NothingToReturn, OpenTarget, RemoveEntry, RemoveTarget,
       PutBack, Goto
  <1>9. CASE Fault(r)
    BY <1>5, <1>9 DEF Fault, CallFails, RestorationFails, Crash, Handler, Goto
  <1> QED BY <1>2, <1>4, <1>6, <1>7, <1>8, <1>9

(* install_upgrade's except clause: an upgrade that fails, and whose handler  *)
(* does not fail as well, leaves the very target it found.                   *)
THEOREM UpgradeUndone == Spec => FailedUpgradeUndone
  <1>1. IInv /\ SInv /\ [Next]_vars =>
          [~overlap => \A r \in Runs :
             pc'[r] = "failed" /\ pc[r] \notin {"failed", "new"} /\ Exists(before[r])
                      => target' = before[r]]_vars
    <2> SUFFICES ASSUME IInv, SInv, [Next]_vars, ~overlap, NEW r \in Runs,
                        pc'[r] = "failed", pc[r] \notin {"failed", "new"}, Exists(before[r])
                 PROVE  target' = before[r]
      OBVIOUS
    <2>1. Progress(r) BY DEF SInv
    <2>2. ~PromoteFresh(r) /\ ~WriteLocal(r)
      BY <2>1 DEF PromoteFresh, WriteLocal, Progress, FreshRun, Exists
    <2>3. CASE Preserve(r)
      BY <2>1, <2>3 DEF Preserve, Progress, UpgradeRun, Unmoved
    <2>4. CASE RemoveStage(r)
      BY <2>1, <2>4 DEF RemoveStage, Progress, HandlerRun
    <2>5. CASE CallFails(r) /\ pc[r] \in {"f_stage", "f_promote", "u_stage", "u_preserve"}
      BY <2>1, <2>5 DEF CallFails, Progress, FreshRun, UpgradeRun, Unmoved, Exists
    <2> QED BY <2>2, <2>3, <2>4, <2>5, WhoFails
  <1> QED BY <1>1, InstallInvariant, SerialInvariant, PTL DEF Spec, FailedUpgradeUndone

(* A run ends well in one of two steps. *)
LEMMA WhoInstalls ==
  ASSUME IInv, [Next]_vars, NEW r \in Runs, pc'[r] = "installed", pc[r] # "installed"
  PROVE  WriteLocal(r) \/ Finish(r)
  <1>1. ~UNCHANGED vars BY DEF vars
  <1>2. PICK q \in Runs : Stage(q) \/ Fresh(q) \/ Upgrade(q) \/ Restore(q) \/ Fault(q)
    BY <1>1 DEF Next
  <1>3. PICK where : pc' = [pc EXCEPT ![q] = where] \/ pc' = pc
    BY <1>2 DEF Stage, Fresh, Upgrade, Restore, Fault, StartFresh, PromoteFresh,
       WriteLocal, StartUpgrade, Preserve, MoveAway, Promote, NotePromoted, MoveRuntime, Finish,
       ReturnRuntime, NothingToReturn, OpenTarget, RemoveEntry, RemoveTarget, PutBack,
       RemoveStage, CallFails, RestorationFails, Crash, Handler, Goto
  <1>4. q = r BY <1>3 DEF IInv, TypeInv
  <1>5. pc \in [Runs -> Steps] BY DEF IInv, TypeInv
  <1>6. CASE Stage(r) \/ Fresh(r)
    BY <1>5, <1>6 DEF Stage, Fresh, StartFresh, PromoteFresh, Goto
  <1>7. CASE Upgrade(r)
    BY <1>5, <1>7 DEF Upgrade, StartUpgrade, Preserve, MoveAway, Promote, NotePromoted,
       MoveRuntime, Handler, Goto
  <1>8. CASE Restore(r)
    BY <1>5, <1>8 DEF Restore, ReturnRuntime, NothingToReturn, OpenTarget, RemoveEntry, RemoveTarget,
       PutBack, RemoveStage, Goto
  <1>9. CASE Fault(r)
    BY <1>5, <1>9 DEF Fault, CallFails, RestorationFails, Crash, Handler, Goto
  <1> QED BY <1>2, <1>4, <1>6, <1>7, <1>8, <1>9

(* An upgrade that ends well has put its own payload in place, with every     *)
(* runtime directory and the local configuration of the tree it replaced.     *)
THEOREM LocalCarried == Spec => UpgradeCarriesLocal
  <1>1. IInv /\ SInv /\ [Next]_vars =>
          [~overlap => \A r \in Runs :
             pc'[r] = "installed" /\ pc[r] # "installed" /\ Exists(before[r])
                      => /\ target'.payload = r
                         /\ target'.dirs = before[r].dirs
                         /\ target'.local = before[r].local]_vars
    <2> SUFFICES ASSUME IInv, SInv, [Next]_vars, ~overlap, NEW r \in Runs,
                        pc'[r] = "installed", pc[r] # "installed", Exists(before[r])
                 PROVE  /\ target'.payload = r
                        /\ target'.dirs = before[r].dirs
                        /\ target'.local = before[r].local
      OBVIOUS
    <2>1. Progress(r) BY DEF SInv
    <2>2. ~WriteLocal(r) BY <2>1 DEF WriteLocal, Progress, FreshRun, Exists
    <2>3. Finish(r) BY <2>2, WhoInstalls
    <2>4. target' = target /\ Split(r) /\ rollback[r].dirs = {}
      BY <2>1, <2>3 DEF Finish, Progress, UpgradeRun
    <2> QED BY <2>4 DEF Split
  <1> QED BY <1>1, InstallInvariant, SerialInvariant, PTL DEF Spec, UpgradeCarriesLocal
=============================================================================
