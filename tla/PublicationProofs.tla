------------------------- MODULE PublicationProofs -------------------------
(* The invariant of PublicationInvariant holds for every number of builds    *)
(* and of faults: one lemma per action, then the theorems it gives.          *)
EXTENDS PublicationInvariant, TLAPS

USE MaxBuildsAssumption, MaxFaultsAssumption, FaultsAssumption,
    KeepModesAssumption
USE DEF Names, Builds, Owner, Absent, NoJournal, Phases, Nothing, First,
  FaultKinds, Steps, ShellSteps, PublishSteps, CleanupSteps, RestoreSteps,
  RecoverSteps, TrySteps, PendingSteps, CommittedSteps, disk, driver, locals,
  Pending, Target, Return, Goto, Raise, WriteJournal, Strikes, LockFree,
  StageEmpty, RemoveStaged, AfterRollback, Untouched, Moved, Placed

-----------------------------------------------------------------------------
(* Changing one entry of a directory keeps its type. *)
LEMMA SetName ==
  ASSUME NEW f \in [Names -> Owner], NEW n, NEW o \in Owner
  PROVE  [f EXCEPT ![n] = o] \in [Names -> Owner]
OBVIOUS

(* Changing one entry of one build's directory keeps the type of them all. *)
LEMMA SetEntry ==
  ASSUME NEW f \in [Builds -> [Names -> Owner]], NEW b, NEW n, NEW o \in Owner
  PROVE  [f EXCEPT ![b][n] = o] \in [Builds -> [Names -> Owner]]
<1>1. CASE b \in Builds
  <2>1. [f[b] EXCEPT ![n] = o] \in [Names -> Owner]
    BY <1>1
  <2> QED BY <2>1, <1>1
<1>2. CASE b \notin Builds BY <1>2
<1> QED BY <1>1, <1>2

LEMMA AbsentOwner == Absent \in Owner
OBVIOUS

(* The name a loop visits next is one it has still to visit. *)
LEMMA FirstInTodo == ASSUME NEW S \in SUBSET Names, S # {} PROVE First(S) \in S
OBVIOUS

-----------------------------------------------------------------------------
(* The initial states satisfy the invariant, and every action preserves it.  *)
(* An action whose preservation of a conjunct takes more than one step has a *)
(* lemma for that conjunct before its own.                                   *)
LEMMA InitIInv == Init => IInv
BY DEF Init, IInv, TypeOK, ProcessInv, FreshInv, JournalInv,
  ReportsMatchDatabase, CommittedReportsLive, PendingInv, TryInv, RestoreInv,
  RecoverInv

LEMMA StutterStep == ASSUME IInv, UNCHANGED vars PROVE IInv'
<1>1. TypeOK' BY DEF vars, IInv, TypeOK
<1>2. ProcessInv' /\ FreshInv' /\ JournalInv'
  BY DEF vars, IInv, ProcessInv, FreshInv, JournalInv
<1>3. ReportsMatchDatabase' /\ CommittedReportsLive' /\ PendingInv'
  BY DEF vars, IInv, ReportsMatchDatabase, CommittedReportsLive, PendingInv
<1>4. TryInv' BY DEF vars, IInv, TryInv
<1>5. RestoreInv' /\ RecoverInv' BY DEF vars, IInv, RestoreInv, RecoverInv
<1> QED BY <1>1, <1>2, <1>3, <1>4, <1>5 DEF IInv

LEMMA StartStep == ASSUME SoundFaults, IInv, Start PROVE IInv'
BY DEF IInv, Start, TypeOK, ProcessInv, FreshInv, JournalInv,
  ReportsMatchDatabase, CommittedReportsLive, PendingInv, TryInv, RestoreInv,
  RecoverInv

LEMMA DiscoverStep == ASSUME SoundFaults, IInv, Discover PROVE IInv'
BY DEF IInv, Discover, TypeOK, ProcessInv, FreshInv, JournalInv,
  ReportsMatchDatabase, CommittedReportsLive, PendingInv, TryInv, RestoreInv,
  RecoverInv

LEMMA BeginStep == ASSUME SoundFaults, IInv, Begin PROVE IInv'
BY DEF IInv, Begin, TypeOK, ProcessInv, FreshInv, JournalInv,
  ReportsMatchDatabase, CommittedReportsLive, PendingInv, TryInv, RestoreInv,
  RecoverInv

LEMMA BeginFailsStep == ASSUME SoundFaults, IInv, BeginFails PROVE IInv'
BY DEF IInv, BeginFails, TypeOK, ProcessInv, FreshInv, JournalInv,
  ReportsMatchDatabase, CommittedReportsLive, PendingInv, TryInv, RestoreInv,
  RecoverInv

LEMMA CollectStep == ASSUME SoundFaults, IInv, Collect PROVE IInv'
<1>1. TypeOK' /\ ProcessInv' /\ FreshInv' /\ JournalInv'
  BY DEF IInv, Collect, TypeOK, ProcessInv, FreshInv, JournalInv
<1>2. ReportsMatchDatabase' /\ CommittedReportsLive' /\ PendingInv'
  BY DEF IInv, Collect, TypeOK, ReportsMatchDatabase, CommittedReportsLive,
      PendingInv
<1>3. TryInv' /\ RestoreInv' /\ RecoverInv'
  BY DEF IInv, Collect, TypeOK, TryInv, RestoreInv, RecoverInv
<1> QED BY <1>1, <1>2, <1>3 DEF IInv

LEMMA PrepareStep == ASSUME SoundFaults, IInv, Prepare PROVE IInv'
<1>1. TypeOK' /\ ProcessInv' /\ FreshInv' /\ JournalInv'
  BY DEF IInv, Prepare, TypeOK, ProcessInv, FreshInv, JournalInv
<1>2. ReportsMatchDatabase' /\ CommittedReportsLive' /\ PendingInv'
  BY DEF IInv, Prepare, TypeOK, ReportsMatchDatabase, CommittedReportsLive,
      PendingInv
<1>3. TryInv' /\ RestoreInv' /\ RecoverInv'
  BY DEF IInv, Prepare, TypeOK, TryInv, RestoreInv, RecoverInv
<1> QED BY <1>1, <1>2, <1>3 DEF IInv

LEMMA PrepareFailsStep == ASSUME SoundFaults, IInv, PrepareFails PROVE IInv'
BY DEF IInv, PrepareFails, TypeOK, ProcessInv, FreshInv, JournalInv,
  ReportsMatchDatabase, CommittedReportsLive, PendingInv, TryInv, RestoreInv,
  RecoverInv

LEMMA TrapRemovesTypeOK == ASSUME IInv, TrapRemoves PROVE TypeOK'
<1>1. stage' \in [Builds -> [Names -> Owner]]
  <2>1. ASSUME NEW n, stage' = [stage EXCEPT ![cur][n] = Absent]
        PROVE  stage' \in [Builds -> [Names -> Owner]]
    BY <2>1, SetEntry, AbsentOwner, Zenon DEF IInv, TypeOK
  <2>2. CASE UNCHANGED stage BY <2>2 DEF IInv, TypeOK
  <2> QED BY <2>1, <2>2 DEF TrapRemoves
<1>2. stageDb' \in [Builds -> {"none", "graph", "verified"}]
  BY DEF IInv, TypeOK, TrapRemoves
<1>3. UNCHANGED <<live, liveDb, backup, journal, driver, shell, pc, locals,
                  faults, prior>>
  BY DEF TrapRemoves
<1>4. pc' \in Steps \cup {"off"} /\ shell' \in ShellSteps
      /\ todo' \subseteq Names /\ backedUp' \subseteq Names
      /\ published' \subseteq Names
  BY DEF IInv, TypeOK, TrapRemoves
<1> QED BY <1>1, <1>2, <1>3, <1>4 DEF IInv, TypeOK

LEMMA TrapRemovesStep == ASSUME SoundFaults, IInv, TrapRemoves PROVE IInv'
<1>1. ProcessInv' /\ FreshInv' /\ JournalInv' /\ ReportsMatchDatabase'
      /\ CommittedReportsLive' /\ PendingInv' /\ TryInv' /\ RestoreInv'
      /\ RecoverInv'
  BY DEF IInv, TrapRemoves, TypeOK, ProcessInv, FreshInv, JournalInv,
      ReportsMatchDatabase, CommittedReportsLive, PendingInv, TryInv,
      RestoreInv, RecoverInv
<1> QED BY <1>1, TrapRemovesTypeOK DEF IInv

LEMMA TrapExitsStep == ASSUME SoundFaults, IInv, TrapExits PROVE IInv'
BY DEF IInv, TrapExits, TypeOK, ProcessInv, FreshInv, JournalInv,
  ReportsMatchDatabase, CommittedReportsLive, PendingInv, TryInv, RestoreInv,
  RecoverInv

LEMMA CheckStep == ASSUME SoundFaults, IInv, Check PROVE IInv'
<1>1. TypeOK' /\ ProcessInv' /\ FreshInv' /\ JournalInv'
  BY DEF IInv, Check, TypeOK, ProcessInv, FreshInv, JournalInv
<1>2. ReportsMatchDatabase' /\ CommittedReportsLive' /\ PendingInv'
  BY DEF IInv, Check, TypeOK, ReportsMatchDatabase, CommittedReportsLive,
      PendingInv
<1>3. TryInv' /\ RestoreInv' /\ RecoverInv'
  BY DEF IInv, Check, TypeOK, TryInv, RestoreInv, RecoverInv
<1> QED BY <1>1, <1>2, <1>3 DEF IInv

LEMMA JournalTryInv == ASSUME SoundFaults, IInv, Journal PROVE TryInv'
<1>1. journal' # NoJournal /\ Target' = cur
  BY DEF IInv, TypeOK, Journal
<1>2. \A n \in Names : Untouched(n)'
  BY <1>1 DEF IInv, FreshInv, Journal
<1>3. published' = {} /\ backedUp' = {}
  BY DEF IInv, TypeOK, ProcessInv, TryInv, Journal
<1> QED BY <1>1, <1>2, <1>3 DEF Journal, TryInv

LEMMA JournalStep == ASSUME SoundFaults, IInv, Journal PROVE IInv'
<1>1. TypeOK' /\ ProcessInv' /\ FreshInv' /\ JournalInv'
      /\ ReportsMatchDatabase' /\ CommittedReportsLive' /\ PendingInv'
      /\ RestoreInv' /\ RecoverInv'
  BY DEF IInv, Journal, TypeOK, ProcessInv, FreshInv, JournalInv,
      ReportsMatchDatabase, CommittedReportsLive, PendingInv, RestoreInv,
      RecoverInv
<1> QED BY <1>1, JournalTryInv DEF IInv

LEMMA EnterTryStep == ASSUME SoundFaults, IInv, EnterTry PROVE IInv'
<1>1. TypeOK' /\ ProcessInv' /\ FreshInv' /\ JournalInv'
  BY DEF IInv, EnterTry, TypeOK, ProcessInv, FreshInv, JournalInv
<1>2. ReportsMatchDatabase' /\ CommittedReportsLive' /\ PendingInv'
  BY DEF IInv, EnterTry, TypeOK, ReportsMatchDatabase, CommittedReportsLive,
      PendingInv
<1>3. TryInv' /\ RestoreInv' /\ RecoverInv'
  BY DEF IInv, EnterTry, TypeOK, TryInv, RestoreInv, RecoverInv
<1> QED BY <1>1, <1>2, <1>3 DEF IInv

(* BackUp moves the first name it has still to visit, and no other. *)
LEMMA BackUpNames ==
  ASSUME SoundFaults, IInv, BackUp, NEW m, m = First(todo)
  PROVE  /\ Pending /\ Pending' /\ cur = Target
         /\ UNCHANGED <<journal, liveDb, prior>>
         /\ \A n \in Names \ {m} :
              (Untouched(n) => Untouched(n)') /\ (Moved(n) => Moved(n)')
         /\ m \in todo /\ todo \subseteq Names
         /\ Moved(m)'
<1>1. /\ Pending /\ cur = Target /\ Target \in Builds
      /\ UNCHANGED <<journal, liveDb, prior, stage>>
  BY DEF IInv, TypeOK, JournalInv, PendingInv, BackUp
<1>2. m \in todo /\ todo \subseteq Names
  BY FirstInTodo DEF IInv, TypeOK, BackUp
<1>3. Untouched(m)
  BY <1>2 DEF IInv, TryInv, BackUp
<1>4. CASE live[m] = Absent
  <2>1. UNCHANGED <<live, backup>> BY <1>4 DEF BackUp
  <2> QED BY <1>1, <1>2, <1>3, <1>4, <2>1
<1>5. CASE live[m] # Absent
  <2>1. /\ backup' = [backup EXCEPT ![cur][m] = live[m]]
        /\ live' = [live EXCEPT ![m] = Absent]
    BY <1>5 DEF BackUp
  <2>2. /\ backup'[Target][m] = live[m]
        /\ \A n \in Names \ {m} : backup'[Target][n] = backup[Target][n]
    BY <1>1, <1>2, <2>1 DEF IInv, TypeOK
  <2>3. /\ live'[m] = Absent
        /\ \A n \in Names \ {m} : live'[n] = live[n]
    BY <1>2, <2>1 DEF IInv, TypeOK
  <2> QED BY <1>1, <1>2, <1>3, <2>2, <2>3
<1> QED BY <1>4, <1>5

LEMMA BackUpTypeOK == ASSUME IInv, BackUp PROVE TypeOK'
<1>1. First(todo) \in Names BY FirstInTodo DEF IInv, TypeOK, BackUp
<1>2. live[First(todo)] \in Owner BY <1>1 DEF IInv, TypeOK
<1>3. backup' \in [Builds -> [Names -> Owner]]
  <2>1. CASE UNCHANGED backup BY <2>1 DEF IInv, TypeOK
  <2>2. CASE backup' = [backup EXCEPT ![cur][First(todo)] = live[First(todo)]]
    BY <2>2, <1>2, SetEntry, Zenon DEF IInv, TypeOK
  <2> QED BY <2>1, <2>2 DEF BackUp
<1>4. live' \in [Names -> Owner]
  BY SetName DEF IInv, TypeOK, BackUp
<1>5. UNCHANGED <<liveDb, stage, stageDb, journal, driver, backedUp,
                  published, faults, prior>>
  BY DEF BackUp
<1>6. pc' \in {"p_backup", "p_note_backup"} /\ UNCHANGED shell
  BY DEF BackUp
<1>7. todo' \subseteq todo
  BY DEF BackUp
<1> QED BY <1>3, <1>4, <1>5, <1>6, <1>7 DEF IInv, TypeOK

LEMMA BackUpPendingInv == ASSUME SoundFaults, IInv, BackUp PROVE PendingInv'
<1> PICK m : m = First(todo) OBVIOUS
<1>1. \A n \in Names : Untouched(n) \/ Moved(n)
  <2>1. /\ \A n \in Names \ todo : Moved(n)
        /\ \A n \in todo : Untouched(n)
    BY DEF IInv, TryInv, BackUp
  <2> QED BY <2>1
<1>2. \A n \in Names : Untouched(n)' \/ Moved(n)'
  BY <1>1, BackUpNames
<1> QED BY <1>2, BackUpNames DEF IInv, PendingInv

LEMMA BackUpTryInv == ASSUME SoundFaults, IInv, BackUp PROVE TryInv'
<1> PICK m : m = First(todo) OBVIOUS
<1>1. /\ published = {}
      /\ \A n \in Names \ todo :
           Moved(n) /\ (prior[n] = Absent \/ n \in backedUp)
      /\ \A n \in todo : Untouched(n)
  BY DEF IInv, TryInv, BackUp
<1>2. UNCHANGED <<published, backedUp, prior>> BY DEF BackUp
<1>3. CASE pc' = "p_backup" /\ todo' = todo \ {m} /\ prior[m] = Absent
  <2>1. \A n \in Names \ todo' :
          Moved(n)' /\ (prior'[n] = Absent \/ n \in backedUp')
    BY <1>1, <1>2, <1>3, BackUpNames
  <2>2. \A n \in todo' : Untouched(n)'
    BY <1>1, <1>3, BackUpNames
  <2> QED BY <1>1, <1>2, <1>3, <2>1, <2>2 DEF TryInv
<1>4. CASE pc' = "p_note_backup" /\ todo' = todo
  <2>1. \A n \in Names \ todo' :
          Moved(n)' /\ (prior'[n] = Absent \/ n \in backedUp')
    BY <1>1, <1>2, <1>4, BackUpNames
  <2>2. \A n \in todo' : Untouched(n)' \/ n = m
    BY <1>1, <1>4, BackUpNames
  <2>3. todo' # {} /\ Moved(m)' BY <1>4, BackUpNames
  <2> QED BY <1>1, <1>2, <1>4, <2>1, <2>2, <2>3 DEF TryInv
<1>5. live[m] = prior[m] BY <1>1, BackUpNames
<1> QED BY <1>3, <1>4, <1>5 DEF BackUp

LEMMA BackUpStep == ASSUME SoundFaults, IInv, BackUp PROVE IInv'
<1>1. ProcessInv' /\ FreshInv' /\ JournalInv' /\ ReportsMatchDatabase'
      /\ CommittedReportsLive' /\ RestoreInv' /\ RecoverInv'
  BY DEF IInv, BackUp, TypeOK, ProcessInv, FreshInv, JournalInv,
      ReportsMatchDatabase, CommittedReportsLive, RestoreInv, RecoverInv
<1> QED BY <1>1, BackUpTypeOK, BackUpPendingInv, BackUpTryInv DEF IInv

LEMMA NoteBackUpStep == ASSUME SoundFaults, IInv, NoteBackUp PROVE IInv'
<1>1. TypeOK' /\ ProcessInv' /\ FreshInv' /\ JournalInv'
  BY DEF IInv, NoteBackUp, TypeOK, ProcessInv, FreshInv, JournalInv
<1>2. ReportsMatchDatabase' /\ CommittedReportsLive' /\ PendingInv'
  BY DEF IInv, NoteBackUp, TypeOK, ReportsMatchDatabase, CommittedReportsLive,
      PendingInv
<1>3. TryInv' /\ RestoreInv' /\ RecoverInv'
  BY DEF IInv, NoteBackUp, TypeOK, TryInv, RestoreInv, RecoverInv
<1> QED BY <1>1, <1>2, <1>3 DEF IInv

LEMMA BackUpDoneStep == ASSUME SoundFaults, IInv, BackUpDone PROVE IInv'
<1>1. TypeOK' /\ ProcessInv' /\ FreshInv' /\ JournalInv'
  BY DEF IInv, BackUpDone, TypeOK, ProcessInv, FreshInv, JournalInv
<1>2. ReportsMatchDatabase' /\ CommittedReportsLive' /\ PendingInv'
  BY DEF IInv, BackUpDone, TypeOK, ReportsMatchDatabase, CommittedReportsLive,
      PendingInv
<1>3. TryInv' /\ RestoreInv' /\ RecoverInv'
  BY DEF IInv, BackUpDone, TypeOK, TryInv, RestoreInv, RecoverInv
<1> QED BY <1>1, <1>2, <1>3 DEF IInv

LEMMA BackedUpPhaseTryInv ==
  ASSUME SoundFaults, IInv, BackedUpPhase
  PROVE  TryInv'
<1>1. journal' # NoJournal /\ Target' = Target
  BY DEF IInv, TypeOK, JournalInv, BackedUpPhase
<1>2. /\ published = {}
      /\ \A n \in Names :
           Moved(n) /\ (prior[n] = Absent \/ n \in backedUp)
  BY DEF IInv, TryInv, BackedUpPhase
<1>3. \A n \in Names : Moved(n)'
  BY <1>1, <1>2 DEF BackedUpPhase
<1> QED BY <1>1, <1>2, <1>3 DEF BackedUpPhase, TryInv

LEMMA BackedUpPhaseStep == ASSUME SoundFaults, IInv, BackedUpPhase PROVE IInv'
<1>1. TypeOK' /\ ProcessInv' /\ FreshInv' /\ JournalInv'
  BY DEF IInv, BackedUpPhase, TypeOK, ProcessInv, FreshInv, JournalInv
<1>2. ReportsMatchDatabase' /\ CommittedReportsLive' /\ PendingInv'
  BY DEF IInv, BackedUpPhase, TypeOK, JournalInv, ReportsMatchDatabase,
      CommittedReportsLive, PendingInv
<1>3. RestoreInv' /\ RecoverInv'
  BY DEF IInv, BackedUpPhase, TypeOK, RestoreInv, RecoverInv
<1> QED BY <1>1, <1>2, <1>3, BackedUpPhaseTryInv DEF IInv

(* Place replaces the first name it has still to visit, and no other. *)
LEMMA PlaceNames ==
  ASSUME SoundFaults, IInv, Place
  PROVE  /\ Pending /\ Pending'
         /\ UNCHANGED <<journal, liveDb, prior, backedUp, published, todo>>
         /\ cur = Target /\ pc' = "p_note_place"
         /\ \A n \in Names \ {First(todo)} :
              (Placed(n) => Placed(n)') /\ (Moved(n) => Moved(n)')
         /\ First(todo) \in todo /\ todo \subseteq Names
         /\ Placed(First(todo))'
<1>1. /\ Pending /\ cur = Target /\ Target \in Builds
      /\ UNCHANGED <<journal, liveDb, prior, backup>>
  BY DEF IInv, TypeOK, JournalInv, PendingInv, Place
<1>2. First(todo) \in todo /\ todo \subseteq Names
  BY FirstInTodo DEF IInv, TypeOK, Place
<1>3. Moved(First(todo))
  BY <1>2 DEF IInv, TryInv, Place
<1>4. stage[cur][First(todo)] = Target /\ Target # Absent
  BY <1>1, <1>3
<1>5. /\ stage' = [stage EXCEPT ![cur][First(todo)] = Absent]
      /\ live' = [live EXCEPT ![First(todo)] = Target]
      /\ pc' = "p_note_place" /\ UNCHANGED <<backedUp, published, todo>>
  BY <1>4 DEF Place
<1>6. /\ stage'[Target][First(todo)] = Absent
      /\ \A n \in Names \ {First(todo)} : stage'[Target][n] = stage[Target][n]
  BY <1>1, <1>2, <1>5 DEF IInv, TypeOK
<1>7. /\ live'[First(todo)] = Target
      /\ \A n \in Names \ {First(todo)} : live'[n] = live[n]
  BY <1>2, <1>5 DEF IInv, TypeOK
<1> QED BY <1>1, <1>2, <1>3, <1>5, <1>6, <1>7

LEMMA PlaceTypeOK == ASSUME IInv, Place PROVE TypeOK'
<1>1. First(todo) \in Names BY FirstInTodo DEF IInv, TypeOK, Place
<1>2. cur \in Builds BY DEF IInv, TypeOK, Place, JournalInv, PendingInv
<1>3. stage[cur][First(todo)] \in Owner BY <1>1, <1>2 DEF IInv, TypeOK
<1>4. stage' \in [Builds -> [Names -> Owner]]
  <2>1. CASE UNCHANGED stage BY <2>1 DEF IInv, TypeOK
  <2>2. CASE stage' = [stage EXCEPT ![cur][First(todo)] = Absent]
    BY <2>2, AbsentOwner, SetEntry, Zenon DEF IInv, TypeOK
  <2> QED BY <2>1, <2>2 DEF Place
<1>5. live' \in [Names -> Owner]
  BY <1>3, SetName DEF IInv, TypeOK, Place
<1>6. UNCHANGED <<liveDb, stageDb, backup, journal, driver, faults, prior>>
  BY DEF Place
<1>7. pc' \in Steps \cup {"off"} /\ shell' \in ShellSteps
      /\ todo' \subseteq Names /\ backedUp' \subseteq Names
      /\ published' \subseteq Names
  BY DEF IInv, TypeOK, Place
<1> QED BY <1>4, <1>5, <1>6, <1>7 DEF IInv, TypeOK

LEMMA PlacePendingInv == ASSUME SoundFaults, IInv, Place PROVE PendingInv'
<1>1. \A n \in Names : Placed(n) \/ Moved(n)
  <2>1. /\ \A n \in Names \ todo : Placed(n)
        /\ \A n \in todo : Moved(n)
    BY DEF IInv, TryInv, Place
  <2> QED BY <2>1
<1>2. \A n \in Names : Placed(n)' \/ Moved(n)'
  BY <1>1, PlaceNames
<1> QED BY <1>2, PlaceNames DEF IInv, PendingInv

LEMMA PlaceTryInv == ASSUME SoundFaults, IInv, Place PROVE TryInv'
<1>1. /\ published = Names \ todo
      /\ \A n \in Names \ todo : Placed(n)
      /\ \A n \in todo : Moved(n)
      /\ \A n \in Names : prior[n] = Absent \/ n \in backedUp
  BY DEF IInv, TryInv, Place
<1>2. \A n \in Names \ todo' : Placed(n)'
  BY <1>1, PlaceNames
<1>3. \A n \in todo' : Moved(n)' \/ n = First(todo')
  BY <1>1, PlaceNames
<1>4. todo' # {} /\ Placed(First(todo))' /\ published' = Names \ todo'
      /\ \A n \in Names : prior'[n] = Absent \/ n \in backedUp'
  BY <1>1, PlaceNames
<1> QED BY <1>2, <1>3, <1>4, PlaceNames DEF TryInv

LEMMA PlaceStep == ASSUME SoundFaults, IInv, Place PROVE IInv'
<1>1. ProcessInv' /\ FreshInv' /\ JournalInv' /\ ReportsMatchDatabase'
      /\ CommittedReportsLive' /\ RestoreInv' /\ RecoverInv'
  BY DEF IInv, Place, TypeOK, ProcessInv, FreshInv, JournalInv,
      ReportsMatchDatabase, CommittedReportsLive, TryInv, RestoreInv,
      RecoverInv
<1> QED BY <1>1, PlaceTypeOK, PlacePendingInv, PlaceTryInv DEF IInv

LEMMA NotePlaceStep == ASSUME SoundFaults, IInv, NotePlace PROVE IInv'
<1>1. TypeOK' /\ ProcessInv' /\ FreshInv' /\ JournalInv'
  BY DEF IInv, NotePlace, TypeOK, ProcessInv, FreshInv, JournalInv
<1>2. ReportsMatchDatabase' /\ CommittedReportsLive' /\ PendingInv'
  BY DEF IInv, NotePlace, TypeOK, ReportsMatchDatabase, CommittedReportsLive,
      PendingInv
<1>3. TryInv' /\ RestoreInv' /\ RecoverInv'
  BY DEF IInv, NotePlace, TypeOK, TryInv, RestoreInv, RecoverInv
<1> QED BY <1>1, <1>2, <1>3 DEF IInv

LEMMA PlaceDoneStep == ASSUME SoundFaults, IInv, PlaceDone PROVE IInv'
<1>1. TypeOK' /\ ProcessInv' /\ FreshInv' /\ JournalInv'
  BY DEF IInv, PlaceDone, TypeOK, ProcessInv, FreshInv, JournalInv
<1>2. ReportsMatchDatabase' /\ CommittedReportsLive' /\ PendingInv'
  BY DEF IInv, PlaceDone, TypeOK, ReportsMatchDatabase, CommittedReportsLive,
      PendingInv
<1>3. TryInv' /\ RestoreInv' /\ RecoverInv'
  BY DEF IInv, PlaceDone, TypeOK, TryInv, RestoreInv, RecoverInv
<1> QED BY <1>1, <1>2, <1>3 DEF IInv

LEMMA PublishedPhaseStep == ASSUME SoundFaults, IInv, PublishedPhase PROVE IInv'
<1>1. TypeOK' /\ ProcessInv' /\ FreshInv' /\ JournalInv'
  BY DEF IInv, PublishedPhase, TypeOK, ProcessInv, FreshInv, JournalInv
<1>2. ReportsMatchDatabase' /\ CommittedReportsLive' /\ PendingInv'
  BY DEF IInv, PublishedPhase, TypeOK, JournalInv, ReportsMatchDatabase,
      CommittedReportsLive, PendingInv
<1>3. TryInv' /\ RestoreInv' /\ RecoverInv'
  BY DEF IInv, PublishedPhase, TypeOK, JournalInv, TryInv, RestoreInv,
      RecoverInv
<1> QED BY <1>1, <1>2, <1>3 DEF IInv

LEMMA CommitStep == ASSUME SoundFaults, IInv, Commit PROVE IInv'
<1>1. TypeOK' /\ ProcessInv' /\ FreshInv' /\ JournalInv'
  BY DEF IInv, Commit, TypeOK, ProcessInv, FreshInv, JournalInv
<1>2. ReportsMatchDatabase' /\ CommittedReportsLive' /\ PendingInv'
  BY DEF IInv, Commit, TypeOK, JournalInv, ReportsMatchDatabase,
      CommittedReportsLive, PendingInv, TryInv
<1>3. TryInv' /\ RestoreInv' /\ RecoverInv'
  BY DEF IInv, Commit, TypeOK, TryInv, RestoreInv, RecoverInv
<1> QED BY <1>1, <1>2, <1>3 DEF IInv

LEMMA NoteCommitStep == ASSUME SoundFaults, IInv, NoteCommit PROVE IInv'
<1>1. TypeOK' /\ ProcessInv' /\ FreshInv' /\ JournalInv'
  BY DEF IInv, NoteCommit, TypeOK, ProcessInv, FreshInv, JournalInv
<1>2. ReportsMatchDatabase' /\ CommittedReportsLive' /\ PendingInv'
  BY DEF IInv, NoteCommit, TypeOK, ReportsMatchDatabase, CommittedReportsLive,
      PendingInv
<1>3. TryInv' /\ RestoreInv' /\ RecoverInv'
  BY DEF IInv, NoteCommit, TypeOK, TryInv, RestoreInv, RecoverInv
<1> QED BY <1>1, <1>2, <1>3 DEF IInv

LEMMA CommittedPhaseStep == ASSUME SoundFaults, IInv, CommittedPhase PROVE IInv'
<1>1. TypeOK' /\ ProcessInv' /\ FreshInv' /\ JournalInv'
  BY DEF IInv, CommittedPhase, TypeOK, ProcessInv, FreshInv, JournalInv
<1>2. ReportsMatchDatabase' /\ CommittedReportsLive' /\ PendingInv'
  BY DEF IInv, CommittedPhase, TypeOK, JournalInv, ReportsMatchDatabase,
      CommittedReportsLive, PendingInv
<1>3. TryInv' /\ RestoreInv' /\ RecoverInv'
  BY DEF IInv, CommittedPhase, TypeOK, TryInv, RestoreInv, RecoverInv
<1> QED BY <1>1, <1>2, <1>3 DEF IInv

LEMMA RemoveRollbackTypeOK == ASSUME IInv, RemoveRollback PROVE TypeOK'
<1>1. backup' \in [Builds -> [Names -> Owner]]
  <2>1. CASE UNCHANGED backup BY <2>1 DEF IInv, TypeOK
  <2>2. ASSUME NEW n, backup' = [backup EXCEPT ![cur][n] = Absent]
        PROVE  backup' \in [Builds -> [Names -> Owner]]
    BY <2>2, SetEntry, AbsentOwner, Zenon DEF IInv, TypeOK
  <2> QED BY <2>1, <2>2 DEF RemoveRollback
<1>2. pc' \in Steps
  BY DEF IInv, TypeOK, RemoveRollback
<1>3. UNCHANGED <<live, liveDb, stage, stageDb, journal, driver, locals, faults, prior>>
  BY DEF RemoveRollback
<1>4. pc' \in Steps \cup {"off"} /\ shell' \in ShellSteps
      /\ todo' \subseteq Names /\ backedUp' \subseteq Names
      /\ published' \subseteq Names
  BY DEF IInv, TypeOK, RemoveRollback
<1> QED BY <1>1, <1>2, <1>3, <1>4 DEF IInv, TypeOK

LEMMA RemoveRollbackFreshInv ==
  ASSUME SoundFaults, IInv, RemoveRollback
  PROVE  FreshInv'
<1>1. \A b \in Builds : b > begun => \A n \in Names : backup'[b][n] = Absent
  <2>1. CASE UNCHANGED backup BY <2>1 DEF IInv, FreshInv
  <2>2. ASSUME NEW m \in Names, backup' = [backup EXCEPT ![cur][m] = Absent]
        PROVE  \A b \in Builds : b > begun => \A n \in Names : backup'[b][n] = Absent
    BY <2>2 DEF IInv, TypeOK, FreshInv
  <2> QED BY <2>1, <2>2 DEF RemoveRollback
<1>2. pc' \notin {"p_check", "p_journal"} /\ shell' \notin {"collect", "prepare"}
  BY DEF IInv, ProcessInv, RemoveRollback
<1>3. UNCHANGED <<liveDb, begun, cur, journal>>
  BY DEF RemoveRollback
<1> QED BY <1>1, <1>2, <1>3 DEF IInv, FreshInv

LEMMA RemoveRollbackStep == ASSUME SoundFaults, IInv, RemoveRollback PROVE IInv'
<1>1. ProcessInv' /\ JournalInv'
  BY DEF IInv, RemoveRollback, TypeOK, ProcessInv, JournalInv
<1>2. ReportsMatchDatabase' /\ CommittedReportsLive' /\ PendingInv'
  BY DEF IInv, RemoveRollback, TypeOK, ProcessInv, FreshInv, JournalInv,
      ReportsMatchDatabase, CommittedReportsLive, PendingInv, TryInv,
      RestoreInv, RecoverInv
<1>3. TryInv' /\ RestoreInv' /\ RecoverInv'
  BY SMTT(30) DEF IInv, RemoveRollback, TypeOK, JournalInv, TryInv, RestoreInv,
      RecoverInv
<1> QED BY <1>1, <1>2, <1>3, RemoveRollbackTypeOK, RemoveRollbackFreshInv DEF IInv

LEMMA RemoveStagingTypeOK == ASSUME IInv, RemoveStaging PROVE TypeOK'
<1>1. stage' \in [Builds -> [Names -> Owner]]
  <2>1. ASSUME NEW n, stage' = [stage EXCEPT ![cur][n] = Absent]
        PROVE  stage' \in [Builds -> [Names -> Owner]]
    BY <2>1, SetEntry, AbsentOwner, Zenon DEF IInv, TypeOK
  <2>2. CASE UNCHANGED stage BY <2>2 DEF IInv, TypeOK
  <2> QED BY <2>1, <2>2 DEF RemoveStaging
<1>2. stageDb' \in [Builds -> {"none", "graph", "verified"}]
  BY DEF IInv, TypeOK, RemoveStaging
<1>3. UNCHANGED <<live, liveDb, backup, journal, driver, locals, faults, prior>>
  BY DEF RemoveStaging
<1>4. pc' \in Steps \cup {"off"} /\ shell' \in ShellSteps
      /\ todo' \subseteq Names /\ backedUp' \subseteq Names
      /\ published' \subseteq Names
  BY DEF IInv, TypeOK, RemoveStaging
<1> QED BY <1>1, <1>2, <1>3, <1>4 DEF IInv, TypeOK

LEMMA RemoveStagingStep == ASSUME SoundFaults, IInv, RemoveStaging PROVE IInv'
<1>1. ProcessInv' /\ FreshInv' /\ JournalInv'
  BY DEF IInv, RemoveStaging, TypeOK, ProcessInv, FreshInv, JournalInv
<1>2. ReportsMatchDatabase' /\ CommittedReportsLive' /\ PendingInv'
  BY DEF IInv, RemoveStaging, TypeOK, JournalInv, ReportsMatchDatabase,
      CommittedReportsLive, PendingInv
<1>3. TryInv' /\ RestoreInv' /\ RecoverInv'
  BY DEF IInv, RemoveStaging, TypeOK, TryInv, RestoreInv, RecoverInv
<1> QED BY <1>1, <1>2, <1>3, RemoveStagingTypeOK DEF IInv

LEMMA UnlinkReportsMatchDatabase ==
  ASSUME SoundFaults, IInv, Unlink
  PROVE  ReportsMatchDatabase'
<1>1. CASE pc = "c_unlink"
  BY <1>1 DEF IInv, TypeOK, JournalInv, CommittedReportsLive, ReportsMatchDatabase, Unlink
<1>2. CASE pc \in {"x_unlink", "r_unlink"}
  <2>1. Pending /\ \A n \in Names : Untouched(n)
    BY <1>2 DEF IInv, JournalInv, RestoreInv, RecoverInv
  <2>2. \A n \in Names : prior[n] = liveDb \/ (liveDb = 0 /\ prior[n] = Absent)
    BY <2>1 DEF IInv, PendingInv
  <2> QED BY <2>1, <2>2 DEF ReportsMatchDatabase, Unlink
<1> QED BY <1>1, <1>2 DEF Unlink

LEMMA UnlinkStep == ASSUME SoundFaults, IInv, Unlink PROVE IInv'
<1>1. TypeOK' /\ ProcessInv' /\ FreshInv' /\ JournalInv'
  BY DEF IInv, Unlink, TypeOK, ProcessInv, FreshInv, JournalInv
<1>2. CommittedReportsLive' /\ PendingInv'
  BY DEF IInv, Unlink, TypeOK, CommittedReportsLive, PendingInv
<1>3. TryInv' /\ RestoreInv' /\ RecoverInv'
  BY DEF IInv, Unlink, TypeOK, TryInv, RestoreInv, RecoverInv
<1> QED BY <1>1, <1>2, <1>3, UnlinkReportsMatchDatabase DEF IInv

LEMMA RestorePublishedTypeOK == ASSUME IInv, RestorePublished PROVE TypeOK'
<1>1. stage' \in [Builds -> [Names -> Owner]]
  <2>1. CASE UNCHANGED stage BY <2>1 DEF IInv, TypeOK
  <2>2. ASSUME NEW n \in todo,
               stage' = [stage EXCEPT ![cur][n] = IF live[n] = Absent THEN @ ELSE live[n]]
        PROVE  stage' \in [Builds -> [Names -> Owner]]
    <3>1. n \in Names /\ cur \in Builds
      BY DEF IInv, TypeOK, RestorePublished, JournalInv, PendingInv
    <3>2. (IF live[n] = Absent THEN stage[cur][n] ELSE live[n]) \in Owner
      BY <3>1 DEF IInv, TypeOK
    <3> QED BY <2>2, <3>2, SetEntry DEF IInv, TypeOK
  <2> QED BY <2>1, <2>2 DEF RestorePublished
<1>2. live' \in [Names -> Owner]
  BY SetName DEF IInv, TypeOK, RestorePublished
<1>3. UNCHANGED <<liveDb, stageDb, backup, journal, driver, faults, prior>>
  BY DEF RestorePublished
<1>4. pc' \in Steps \cup {"off"} /\ shell' \in ShellSteps
      /\ todo' \subseteq Names /\ backedUp' \subseteq Names
      /\ published' \subseteq Names
  BY DEF IInv, TypeOK, RestorePublished
<1> QED BY <1>1, <1>2, <1>3, <1>4 DEF IInv, TypeOK

LEMMA RestorePublishedStep == ASSUME SoundFaults, IInv, RestorePublished PROVE IInv'
<1>1. ProcessInv' /\ FreshInv' /\ JournalInv'
  BY DEF IInv, RestorePublished, TypeOK, ProcessInv, FreshInv, JournalInv,
      PendingInv, RestoreInv
<1>2. ReportsMatchDatabase' /\ CommittedReportsLive' /\ PendingInv'
  BY SMTT(30) DEF IInv, RestorePublished, TypeOK, JournalInv, ReportsMatchDatabase,
      CommittedReportsLive, PendingInv
<1>3. TryInv'
  BY DEF IInv, RestorePublished, TypeOK, TryInv
<1>4. RestoreInv'
  BY SMTT(30) DEF IInv, RestorePublished, TypeOK, JournalInv, PendingInv, TryInv,
      RestoreInv
<1>5. RecoverInv'
  BY DEF IInv, RestorePublished, TypeOK, RecoverInv
<1> QED BY <1>1, <1>2, <1>3, <1>4, <1>5, RestorePublishedTypeOK DEF IInv

LEMMA RestoreBackupsTypeOK ==
  ASSUME SoundFaults, IInv, RestoreBackups
  PROVE  TypeOK'
<1>1. cur \in Builds /\ todo \subseteq Names
  BY DEF IInv, TypeOK, JournalInv, PendingInv, RestoreBackups
<1>2. live' \in [Names -> Owner]
  <2>1. CASE UNCHANGED live BY <2>1 DEF IInv, TypeOK
  <2>2. ASSUME NEW n \in todo,
               live' = [live EXCEPT ![n] =
                 IF backup[cur][n] = Absent THEN @ ELSE backup[cur][n]]
        PROVE  live' \in [Names -> Owner]
    <3>1. (IF backup[cur][n] = Absent THEN live[n] ELSE backup[cur][n]) \in Owner
      BY <1>1 DEF IInv, TypeOK
    <3> QED BY <2>2, <3>1, SetName DEF IInv, TypeOK
  <2> QED BY <2>1, <2>2 DEF RestoreBackups
<1>3. backup' \in [Builds -> [Names -> Owner]]
  <2>1. CASE UNCHANGED backup BY <2>1 DEF IInv, TypeOK
  <2>2. ASSUME NEW n, backup' = [backup EXCEPT ![cur][n] = Absent]
        PROVE  backup' \in [Builds -> [Names -> Owner]]
    BY <2>2, SetEntry, AbsentOwner, Zenon DEF IInv, TypeOK
  <2> QED BY <2>1, <2>2 DEF RestoreBackups
<1>4. UNCHANGED <<liveDb, stage, stageDb, journal, driver, faults, prior>>
  BY DEF RestoreBackups
<1>5. pc' \in Steps \cup {"off"} /\ shell' \in ShellSteps
      /\ todo' \subseteq Names /\ backedUp' \subseteq Names
      /\ published' \subseteq Names
  BY DEF IInv, TypeOK, RestoreBackups
<1> QED BY <1>2, <1>3, <1>4, <1>5 DEF IInv, TypeOK

LEMMA RestoreBackupsFreshInv ==
  ASSUME SoundFaults, IInv, RestoreBackups
  PROVE  FreshInv'
<1>1. \A b \in Builds : b > begun => \A n \in Names : backup'[b][n] = Absent
  <2>1. CASE UNCHANGED backup BY <2>1 DEF IInv, FreshInv
  <2>2. ASSUME NEW m \in todo, backup' = [backup EXCEPT ![cur][m] = Absent]
        PROVE  \A b \in Builds : b > begun => \A n \in Names : backup'[b][n] = Absent
    BY <2>2 DEF IInv, TypeOK, FreshInv
  <2> QED BY <2>1, <2>2 DEF RestoreBackups
<1>2. pc' \notin {"p_check", "p_journal"} /\ shell' \notin {"collect", "prepare"}
  BY DEF IInv, ProcessInv, RestoreBackups
<1>3. UNCHANGED <<liveDb, begun, cur, journal>>
  BY DEF RestoreBackups
<1> QED BY <1>1, <1>2, <1>3 DEF IInv, FreshInv

LEMMA RestoreBackupsStep == ASSUME SoundFaults, IInv, RestoreBackups PROVE IInv'
<1>1. ProcessInv'
  BY DEF IInv, RestoreBackups, TypeOK, ProcessInv
<1>2. JournalInv'
  BY DEF IInv, RestoreBackups, TypeOK, JournalInv, PendingInv, RestoreInv
<1>3. ReportsMatchDatabase' /\ CommittedReportsLive' /\ PendingInv'
  BY SMTT(30) DEF IInv, RestoreBackups, TypeOK, JournalInv, ReportsMatchDatabase,
      CommittedReportsLive, PendingInv
<1>4. TryInv'
  BY DEF IInv, RestoreBackups, TypeOK, TryInv
<1>5. RestoreInv'
  BY SMTT(30) DEF IInv, RestoreBackups, TypeOK, JournalInv, RestoreInv
<1>6. RecoverInv'
  BY DEF IInv, RestoreBackups, TypeOK, RecoverInv
<1> QED BY <1>1, <1>2, <1>3, <1>4, <1>5, <1>6, RestoreBackupsTypeOK,
     RestoreBackupsFreshInv DEF IInv

LEMMA ReadJournalStep == ASSUME SoundFaults, IInv, ReadJournal PROVE IInv'
<1>1. TypeOK' /\ ProcessInv' /\ FreshInv' /\ JournalInv'
  BY DEF IInv, ReadJournal, TypeOK, ProcessInv, FreshInv, JournalInv
<1>2. ReportsMatchDatabase' /\ CommittedReportsLive' /\ PendingInv'
  BY DEF IInv, ReadJournal, TypeOK, ReportsMatchDatabase,
      CommittedReportsLive, PendingInv
<1>3. TryInv' /\ RestoreInv' /\ RecoverInv'
  BY DEF IInv, ReadJournal, TypeOK, TryInv, RestoreInv, RecoverInv
<1> QED BY <1>1, <1>2, <1>3 DEF IInv

LEMMA ReadDatabaseTypeOK == ASSUME IInv, ReadDatabase PROVE TypeOK'
<1>1. pc' \in Steps /\ todo' \subseteq Names /\ shell' \in ShellSteps
  BY DEF IInv, TypeOK, ReadDatabase
<1> QED BY <1>1 DEF IInv, TypeOK, ReadDatabase

LEMMA ReadDatabaseStep == ASSUME SoundFaults, IInv, ReadDatabase PROVE IInv'
<1>1. ProcessInv' /\ FreshInv' /\ JournalInv'
  BY DEF IInv, ReadDatabase, TypeOK, ProcessInv, FreshInv, JournalInv
<1>2. ReportsMatchDatabase' /\ CommittedReportsLive' /\ PendingInv'
  BY DEF IInv, ReadDatabase, TypeOK, ReportsMatchDatabase,
      CommittedReportsLive, PendingInv
<1>3. TryInv' /\ RestoreInv' /\ RecoverInv'
  BY DEF IInv, ReadDatabase, TypeOK, TryInv, RestoreInv, RecoverInv
<1> QED BY <1>1, <1>2, <1>3, ReadDatabaseTypeOK DEF IInv

LEMMA RecoverLiveTypeOK == ASSUME IInv, RecoverLive PROVE TypeOK'
<1>1. First(todo) \in Names BY FirstInTodo DEF IInv, TypeOK, RecoverLive
<1>2. live[First(todo)] \in Owner BY <1>1 DEF IInv, TypeOK
<1>3. stage' \in [Builds -> [Names -> Owner]]
  <2>1. CASE UNCHANGED stage BY <2>1 DEF IInv, TypeOK
  <2>2. CASE stage' = [stage EXCEPT ![cur][First(todo)] = live[First(todo)]]
    BY <2>2, <1>2, SetEntry, Zenon DEF IInv, TypeOK
  <2> QED BY <2>1, <2>2 DEF RecoverLive
<1>4. live' \in [Names -> Owner]
  BY SetName DEF IInv, TypeOK, RecoverLive
<1>5. UNCHANGED <<liveDb, stageDb, backup, journal, driver, locals, faults, prior>>
  BY DEF RecoverLive
<1>6. pc' \in Steps \cup {"off"} /\ shell' \in ShellSteps
      /\ todo' \subseteq Names /\ backedUp' \subseteq Names
      /\ published' \subseteq Names
  BY DEF IInv, TypeOK, RecoverLive
<1> QED BY <1>3, <1>4, <1>5, <1>6 DEF IInv, TypeOK

LEMMA RecoverLivePendingInv ==
  ASSUME SoundFaults, IInv, RecoverLive
  PROVE  PendingInv'
<1>1. /\ Pending /\ cur = Target /\ Target \in Builds
      /\ UNCHANGED <<journal, liveDb, prior, backup, todo>>
  BY DEF IInv, TypeOK, JournalInv, PendingInv, RecoverLive
<1>2. First(todo) \in todo /\ todo \subseteq Names
  BY FirstInTodo DEF IInv, TypeOK, RecoverLive
<1>3. \A n \in Names : Untouched(n) \/ Moved(n) \/ Placed(n)
  BY DEF IInv, JournalInv, PendingInv, RecoverLive
<1>4. CASE Placed(First(todo))
  <2>1. /\ stage' = [stage EXCEPT ![cur][First(todo)] = Target]
        /\ live' = [live EXCEPT ![First(todo)] = Absent]
    BY <1>1, <1>4 DEF RecoverLive
  <2>2. /\ stage'[Target][First(todo)] = Target
        /\ \A n \in Names \ {First(todo)} : stage'[Target][n] = stage[Target][n]
    BY <1>1, <1>2, <2>1 DEF IInv, TypeOK
  <2>3. /\ live'[First(todo)] = Absent
        /\ \A n \in Names \ {First(todo)} : live'[n] = live[n]
    BY <1>2, <2>1 DEF IInv, TypeOK
  <2>4. Moved(First(todo))' BY <1>1, <1>4, <2>2, <2>3
  <2>5. \A n \in Names \ {First(todo)} : Untouched(n)' \/ Moved(n)' \/ Placed(n)'
    BY <1>1, <1>3, <2>2, <2>3
  <2> QED BY <1>1, <2>4, <2>5 DEF IInv, PendingInv
<1>5. CASE ~Placed(First(todo))
  <2>1. stage[cur][First(todo)] # Absent
    BY <1>1, <1>2, <1>3, <1>5
  <2>2. UNCHANGED <<live, stage>> BY <2>1 DEF RecoverLive
  <2> QED BY <1>1, <1>3, <2>2 DEF IInv, PendingInv
<1> QED BY <1>4, <1>5

LEMMA RecoverLiveStep == ASSUME SoundFaults, IInv, RecoverLive PROVE IInv'
<1>1. ProcessInv' /\ FreshInv' /\ JournalInv'
  BY DEF IInv, RecoverLive, TypeOK, ProcessInv, FreshInv, JournalInv
<1>2. ReportsMatchDatabase' /\ CommittedReportsLive'
  BY DEF IInv, RecoverLive, TypeOK, JournalInv, ReportsMatchDatabase,
      CommittedReportsLive
<1>3. TryInv'
  BY DEF IInv, RecoverLive, TypeOK, TryInv
<1>4. RestoreInv'
  BY DEF IInv, RecoverLive, TypeOK, RestoreInv
<1>5. RecoverInv'
  BY DEF IInv, RecoverLive, TypeOK, JournalInv, PendingInv, RecoverInv
<1> QED BY <1>1, <1>2, <1>3, <1>4, <1>5, RecoverLiveTypeOK,
     RecoverLivePendingInv DEF IInv

LEMMA RecoverBackupTypeOK ==
  ASSUME SoundFaults, IInv, RecoverBackup
  PROVE  TypeOK'
<1>1. cur \in Builds /\ First(todo) \in Names
  BY FirstInTodo DEF IInv, TypeOK, JournalInv, PendingInv, RecoverInv, RecoverBackup
<1>2. live' \in [Names -> Owner]
  <2>1. CASE UNCHANGED live BY <2>1 DEF IInv, TypeOK
  <2>2. CASE live' = [live EXCEPT ![First(todo)] =
                 IF backup[cur][First(todo)] = Absent THEN @ ELSE backup[cur][First(todo)]]
    <3>1. (IF backup[cur][First(todo)] = Absent THEN live[First(todo)]
             ELSE backup[cur][First(todo)]) \in Owner
      BY <1>1 DEF IInv, TypeOK
    <3> QED BY <2>2, <3>1, SetName DEF IInv, TypeOK
  <2> QED BY <2>1, <2>2 DEF RecoverBackup
<1>3. backup' \in [Builds -> [Names -> Owner]]
  <2>1. CASE UNCHANGED backup BY <2>1 DEF IInv, TypeOK
  <2>2. CASE backup' = [backup EXCEPT ![cur][First(todo)] = Absent]
    BY <2>2, SetEntry, AbsentOwner, Zenon DEF IInv, TypeOK
  <2> QED BY <2>1, <2>2 DEF RecoverBackup
<1>4. UNCHANGED <<liveDb, stage, stageDb, journal, driver, faults, prior>>
  BY DEF RecoverBackup
<1>5. pc' \in Steps \cup {"off"} /\ shell' \in ShellSteps
      /\ todo' \subseteq Names /\ backedUp' \subseteq Names
      /\ published' \subseteq Names
  BY DEF IInv, TypeOK, RecoverBackup
<1> QED BY <1>2, <1>3, <1>4, <1>5 DEF IInv, TypeOK

LEMMA RecoverBackupFreshInv ==
  ASSUME SoundFaults, IInv, RecoverBackup
  PROVE  FreshInv'
<1>1. \A b \in Builds : b > begun => \A n \in Names : backup'[b][n] = Absent
  <2>1. CASE UNCHANGED backup BY <2>1 DEF IInv, FreshInv
  <2>2. CASE backup' = [backup EXCEPT ![cur][First(todo)] = Absent]
    BY <2>2 DEF IInv, TypeOK, FreshInv
  <2> QED BY <2>1, <2>2 DEF RecoverBackup
<1>2. pc' \notin {"p_check", "p_journal"} /\ shell' \notin {"collect", "prepare"}
  BY DEF IInv, ProcessInv, RecoverBackup
<1>3. UNCHANGED <<liveDb, begun, cur, journal>>
  BY DEF RecoverBackup
<1> QED BY <1>1, <1>2, <1>3 DEF IInv, FreshInv

LEMMA RecoverBackupPendingInv ==
  ASSUME SoundFaults, IInv, RecoverBackup
  PROVE  PendingInv'
<1> PICK m : m = First(todo) OBVIOUS
<1>1. /\ Pending /\ cur = Target /\ Target \in Builds
      /\ UNCHANGED <<journal, liveDb, prior, stage>>
  BY DEF IInv, TypeOK, JournalInv, PendingInv, RecoverBackup
<1>2. m \in todo /\ todo \subseteq Names
  BY FirstInTodo DEF IInv, TypeOK, RecoverInv, RecoverBackup
<1>3. \A n \in Names : Untouched(n) \/ Moved(n) \/ Placed(n)
  BY DEF IInv, JournalInv, PendingInv, RecoverBackup
<1>4. Untouched(m) \/ Moved(m)
  BY <1>2, <1>3 DEF IInv, RecoverInv, RecoverBackup
<1>5. /\ backup' = [backup EXCEPT ![cur][m] = Absent]
      /\ live' = [live EXCEPT ![m] =
                    IF backup[cur][m] = Absent THEN @ ELSE backup[cur][m]]
  BY <1>1, <1>4 DEF RecoverBackup
<1>6. /\ backup'[Target][m] = Absent
      /\ \A n \in Names \ {m} : backup'[Target][n] = backup[Target][n]
  BY <1>1, <1>2, <1>5 DEF IInv, TypeOK
<1>7. /\ live'[m] = IF backup[cur][m] = Absent THEN live[m] ELSE backup[cur][m]
      /\ \A n \in Names \ {m} : live'[n] = live[n]
  BY <1>2, <1>5 DEF IInv, TypeOK
<1>8. Untouched(m)' BY <1>1, <1>4, <1>6, <1>7
<1>9. \A n \in Names \ {m} : Untouched(n)' \/ Moved(n)' \/ Placed(n)'
  BY <1>1, <1>3, <1>6, <1>7
<1> QED BY <1>1, <1>8, <1>9 DEF IInv, PendingInv

LEMMA RecoverBackupStep == ASSUME SoundFaults, IInv, RecoverBackup PROVE IInv'
<1>1. ProcessInv'
  BY DEF IInv, RecoverBackup, TypeOK, ProcessInv
<1>2. JournalInv'
  BY DEF IInv, RecoverBackup, TypeOK, ProcessInv, JournalInv
<1>3. ReportsMatchDatabase'
  BY DEF IInv, RecoverBackup, TypeOK, JournalInv, ReportsMatchDatabase
<1>4. CommittedReportsLive'
  BY DEF IInv, RecoverBackup, TypeOK, CommittedReportsLive
<1>5. TryInv'
  BY DEF IInv, RecoverBackup, TypeOK, TryInv
<1>6. RestoreInv'
  BY DEF IInv, RecoverBackup, TypeOK, RestoreInv
<1>7. RecoverInv'
  BY DEF IInv, RecoverBackup, TypeOK, JournalInv, PendingInv, RecoverInv
<1> QED BY <1>1, <1>2, <1>3, <1>4, <1>5, <1>6, <1>7, RecoverBackupTypeOK,
     RecoverBackupFreshInv, RecoverBackupPendingInv DEF IInv

LEMMA RecoverDoneStep == ASSUME SoundFaults, IInv, RecoverDone PROVE IInv'
<1>1. TypeOK' /\ ProcessInv' /\ FreshInv' /\ JournalInv'
  BY DEF IInv, RecoverDone, TypeOK, ProcessInv, FreshInv, JournalInv
<1>2. ReportsMatchDatabase' /\ CommittedReportsLive' /\ PendingInv'
  BY DEF IInv, RecoverDone, TypeOK, ReportsMatchDatabase,
      CommittedReportsLive, PendingInv
<1>3. TryInv' /\ RestoreInv' /\ RecoverInv'
  BY DEF IInv, RecoverDone, TypeOK, TryInv, RestoreInv, RecoverInv
<1> QED BY <1>1, <1>2, <1>3 DEF IInv

LEMMA CallErrorStep == ASSUME SoundFaults, IInv, CallError PROVE IInv'
<1>1. TypeOK'
  BY DEF IInv, CallError, TypeOK
<1>2. ProcessInv'
  BY DEF IInv, CallError, TypeOK, ProcessInv
<1>3. FreshInv'
  BY DEF IInv, CallError, TypeOK, FreshInv
<1>4. JournalInv'
  BY DEF IInv, CallError, TypeOK, ProcessInv, JournalInv
<1>5. ReportsMatchDatabase' /\ CommittedReportsLive' /\ PendingInv'
  BY DEF IInv, CallError, TypeOK, ReportsMatchDatabase, CommittedReportsLive,
      PendingInv
<1>6. TryInv'
  BY DEF IInv, CallError, TypeOK, TryInv
<1>7. RestoreInv'
  BY SMTT(30) DEF IInv, CallError, TypeOK, JournalInv, TryInv, RestoreInv
<1>8. RecoverInv'
  BY DEF IInv, CallError, TypeOK, RecoverInv
<1> QED BY <1>1, <1>2, <1>3, <1>4, <1>5, <1>6, <1>7, <1>8 DEF IInv

LEMMA RestoreErrorJournalInv ==
  ASSUME SoundFaults, IInv, RestoreError
  PROVE  JournalInv'
<1>1. keep = TRUE BY DEF SoundFaults, RestoreError, IInv, ProcessInv
<1> QED BY <1>1 DEF IInv, TypeOK, ProcessInv, JournalInv, RestoreError

LEMMA RestoreErrorStep == ASSUME SoundFaults, IInv, RestoreError PROVE IInv'
<1>1. TypeOK' /\ ProcessInv' /\ FreshInv'
  BY DEF IInv, RestoreError, TypeOK, ProcessInv, FreshInv, SoundFaults
<1>2. ReportsMatchDatabase' /\ CommittedReportsLive' /\ PendingInv'
  BY DEF IInv, RestoreError, TypeOK, ReportsMatchDatabase,
      CommittedReportsLive, PendingInv, SoundFaults
<1>3. TryInv' /\ RestoreInv' /\ RecoverInv'
  BY DEF IInv, RestoreError, TypeOK, TryInv, RestoreInv, RecoverInv,
      SoundFaults
<1> QED BY <1>1, <1>2, <1>3, RestoreErrorJournalInv DEF IInv

LEMMA InterruptStep == ASSUME SoundFaults, IInv, Interrupt PROVE IInv'
BY DEF IInv, Interrupt, TypeOK, ProcessInv, FreshInv, JournalInv,
  ReportsMatchDatabase, CommittedReportsLive, PendingInv, TryInv, RestoreInv,
  RecoverInv, SoundFaults

LEMMA KillJournalInv == ASSUME SoundFaults, IInv, Kill PROVE JournalInv'
<1>1. keep = TRUE BY DEF SoundFaults, Kill, IInv, ProcessInv
<1> QED BY <1>1 DEF IInv, TypeOK, ProcessInv, JournalInv, Kill

LEMMA KillStep == ASSUME SoundFaults, IInv, Kill PROVE IInv'
<1>1. TypeOK' /\ ProcessInv' /\ FreshInv'
  BY DEF IInv, Kill, TypeOK, ProcessInv, FreshInv, SoundFaults
<1>2. ReportsMatchDatabase' /\ CommittedReportsLive' /\ PendingInv'
  BY DEF IInv, Kill, TypeOK, ReportsMatchDatabase, CommittedReportsLive,
      PendingInv, SoundFaults
<1>3. TryInv' /\ RestoreInv' /\ RecoverInv'
  BY DEF IInv, Kill, TypeOK, TryInv, RestoreInv, RecoverInv, SoundFaults
<1> QED BY <1>1, <1>2, <1>3, KillJournalInv DEF IInv

LEMMA PowerCutStep == ASSUME SoundFaults, IInv, PowerCut PROVE IInv'
<1>1. TypeOK' /\ ProcessInv' /\ FreshInv' /\ JournalInv'
  BY DEF IInv, PowerCut, TypeOK, ProcessInv, FreshInv, JournalInv
<1>2. ReportsMatchDatabase' /\ CommittedReportsLive' /\ PendingInv'
  BY DEF IInv, PowerCut, TypeOK, ReportsMatchDatabase, CommittedReportsLive,
      PendingInv
<1>3. TryInv' /\ RestoreInv' /\ RecoverInv'
  BY DEF IInv, PowerCut, TypeOK, TryInv, RestoreInv, RecoverInv
<1> QED BY <1>1, <1>2, <1>3 DEF IInv

LEMMA HangupStep == ASSUME SoundFaults, IInv, Hangup PROVE IInv'
<1>1. TypeOK' /\ ProcessInv' /\ FreshInv' /\ JournalInv'
  BY DEF IInv, Hangup, TypeOK, ProcessInv, FreshInv, JournalInv
<1>2. ReportsMatchDatabase' /\ CommittedReportsLive' /\ PendingInv'
  BY DEF IInv, Hangup, TypeOK, ReportsMatchDatabase, CommittedReportsLive,
      PendingInv
<1>3. TryInv'
  BY DEF IInv, Hangup, TypeOK, TryInv
<1>4. RestoreInv'
  BY DEF IInv, Hangup, TypeOK, RestoreInv
<1>5. RecoverInv'
  BY DEF IInv, Hangup, TypeOK, RecoverInv
<1> QED BY <1>1, <1>2, <1>3, <1>4, <1>5 DEF IInv

LEMMA UnreadableStep == ASSUME SoundFaults, IInv, Unreadable PROVE IInv'
BY DEF IInv, Unreadable, TypeOK, ProcessInv, FreshInv, JournalInv,
  ReportsMatchDatabase, CommittedReportsLive, PendingInv, TryInv, RestoreInv,
  RecoverInv, SoundFaults

-----------------------------------------------------------------------------
LEMMA NextStep == ASSUME SoundFaults, IInv, [Next]_vars PROVE IInv'
<1>1. CASE Start BY <1>1, StartStep
<1>2. CASE Shell
  BY <1>2, DiscoverStep, BeginStep, BeginFailsStep, CollectStep, PrepareStep,
     PrepareFailsStep, TrapRemovesStep, TrapExitsStep DEF Shell
<1>3. CASE Publish
  BY <1>3, CheckStep, JournalStep, EnterTryStep, BackUpStep, NoteBackUpStep,
     BackUpDoneStep, BackedUpPhaseStep, PlaceStep, NotePlaceStep,
     PlaceDoneStep, PublishedPhaseStep, CommitStep, NoteCommitStep,
     CommittedPhaseStep, RemoveRollbackStep, RemoveStagingStep, UnlinkStep,
     RestorePublishedStep, RestoreBackupsStep DEF Publish
<1>4. CASE Recover
  BY <1>4, ReadJournalStep, ReadDatabaseStep, RecoverLiveStep,
     RecoverBackupStep, RecoverDoneStep DEF Recover
<1>5. CASE Strike
  BY <1>5, CallErrorStep, RestoreErrorStep, InterruptStep, KillStep,
     PowerCutStep, HangupStep, UnreadableStep DEF Strike
<1>6. CASE UNCHANGED vars BY <1>6, StutterStep
<1> QED BY <1>1, <1>2, <1>3, <1>4, <1>5, <1>6 DEF Next

(* The invariant holds of every reachable state, under the faults the code   *)
(* is written for.                                                           *)
THEOREM Invariant == ASSUME SoundFaults PROVE Spec => []IInv
<1>1. IInv /\ [Next]_vars => IInv' BY NextStep
<1> QED BY InitIInv, <1>1, PTL DEF Spec

(* Every variable has its type. *)
THEOREM TypeCorrect == ASSUME SoundFaults PROVE Spec => []TypeOK
<1>1. IInv => TypeOK BY DEF IInv
<1> QED BY <1>1, Invariant, PTL

(* recover_publication and publish_build only remove the journal when the    *)
(* live reports belong to the live database.                                 *)
THEOREM ReportsMatch == ASSUME SoundFaults PROVE Spec => []ReportsMatchDatabase
<1>1. IInv => ReportsMatchDatabase BY DEF IInv
<1> QED BY <1>1, Invariant, PTL

(* A publication that reached os.replace of the database is never undone.    *)
THEOREM CommittedLive == ASSUME SoundFaults PROVE Spec => []CommittedReportsLive
<1>1. IInv => CommittedReportsLive BY DEF IInv
<1> QED BY <1>1, Invariant, PTL

(* The reports of the previous build survive until the database is replaced. *)
THEOREM PriorKept == ASSUME SoundFaults PROVE Spec => []PriorReportsKept
<1>1. IInv => PriorReportsKept BY DEF IInv, PendingInv, PriorReportsKept
<1> QED BY <1>1, Invariant, PTL

(* Recovery never meets the state in which it gives up. *)
THEOREM RecoveryUnblocked == ASSUME SoundFaults PROVE Spec => []RecoveryNeverBlocked
<1>1. IInv => RecoveryNeverBlocked
  <2> SUFFICES ASSUME IInv, pc = "r_backup"
               PROVE  backup[cur][First(todo)] = Absent \/ live[First(todo)] = Absent
    BY DEF RecoveryNeverBlocked
  <2>1. Pending /\ cur = Target BY DEF IInv, JournalInv
  <2>2. First(todo) \in Names /\ ~Placed(First(todo))
    BY FirstInTodo DEF IInv, TypeOK, RecoverInv
  <2>3. Untouched(First(todo)) \/ Moved(First(todo))
    BY <2>1, <2>2 DEF IInv, PendingInv
  <2> QED BY <2>1, <2>3
<1> QED BY <1>1, Invariant, PTL

-----------------------------------------------------------------------------
(* The journal of an unfinished publication is removed by unlink alone. *)
LEMMA OnlyUnlinkSettles ==
  ASSUME Next, journal # NoJournal, journal' = NoJournal, TypeOK PROVE Unlink
<1>1. ~Start BY DEF Start
<1>2. ~Shell
  BY DEF Shell, Discover, Begin, BeginFails, Collect, Prepare, PrepareFails,
    TrapRemoves, TrapExits
<1>3. ~Recover
  BY DEF Recover, ReadJournal, ReadDatabase, RecoverLive, RecoverBackup, RecoverDone
<1>4. ~Strike
  BY DEF Strike, CallError, RestoreError, Interrupt, Kill, PowerCut, Hangup,
    Unreadable
<1>5. Publish => Unlink
  BY DEF Publish, Check, Journal, EnterTry, BackUp, NoteBackUp, BackUpDone,
    BackedUpPhase, Place, NotePlace, PlaceDone, PublishedPhase, Commit,
    NoteCommit, CommittedPhase, RemoveRollback, RemoveStaging,
    RestorePublished, RestoreBackups
<1> QED BY <1>1, <1>2, <1>3, <1>4, <1>5 DEF Next

(* A publication that is given up, by its own handler or by recovery, leaves *)
(* the live reports as it found them.                                        *)
THEOREM FailureRestores == ASSUME SoundFaults PROVE Spec => FailureRestoresReports
<1>1. ASSUME IInv, Next, journal # NoJournal, journal' = NoJournal,
             liveDb # journal.build
      PROVE  live' = prior
  <2>1. Unlink BY <1>1, OnlyUnlinkSettles DEF IInv
  <2>2. \A n \in Names : Untouched(n)
    BY <1>1, <2>1 DEF Unlink, IInv, JournalInv, RestoreInv, RecoverInv
  <2>3. live = prior BY <1>1, <2>2 DEF IInv, TypeOK
  <2> QED BY <2>1, <2>3 DEF Unlink
<1>2. IInv /\ [Next]_vars =>
        [(journal # NoJournal /\ journal' = NoJournal /\ liveDb # journal.build)
           => live' = prior]_vars
  BY <1>1
<1> QED BY <1>2, Invariant, PTL DEF Spec, FailureRestoresReports

(* Only the rename of the staged database changes the live one. *)
LEMMA OnlyCommitPublishes ==
  ASSUME Next, liveDb' # liveDb PROVE Commit
<1>1. ~Start BY DEF Start
<1>2. ~Shell
  BY DEF Shell, Discover, Begin, BeginFails, Collect, Prepare, PrepareFails,
    TrapRemoves, TrapExits
<1>3. ~Recover
  BY DEF Recover, ReadJournal, ReadDatabase, RecoverLive, RecoverBackup, RecoverDone
<1>4. ~Strike
  BY DEF Strike, CallError, RestoreError, Interrupt, Kill, PowerCut, Hangup,
    Unreadable
<1>5. Publish => Commit
  BY DEF Publish, Check, Journal, EnterTry, BackUp, NoteBackUp, BackUpDone,
    BackedUpPhase, Place, NotePlace, PlaceDone, PublishedPhase, Unlink,
    NoteCommit, CommittedPhase, RemoveRollback, RemoveStaging,
    RestorePublished, RestoreBackups
<1> QED BY <1>1, <1>2, <1>3, <1>4, <1>5 DEF Next

(* The protocol of renames and journal writes implements the replacement of  *)
(* one build by a later one in a single step.                                *)
THEOREM Refinement == ASSUME SoundFaults PROVE Spec => AtomicSpec
<1>1. Init => Atomic!Init
  BY DEF Init, Atomic!Init, ViewedReports, ReportsMatchDatabase
<1>2. IInv => ViewedReports = liveDb
  BY DEF IInv, ViewedReports
<1>3. ASSUME IInv, IInv', [Next]_vars
      PROVE  [Atomic!Next]_<<liveDb, ViewedReports>>
  <2>1. ViewedReports = liveDb /\ ViewedReports' = liveDb'
    <3>1. IInv' => ViewedReports' = liveDb'
      BY DEF IInv, ViewedReports
    <3> QED BY <1>2, <1>3, <3>1
  <2>2. CASE liveDb' = liveDb BY <2>1, <2>2
  <2>3. CASE liveDb' # liveDb
    <3>1. Commit BY <1>3, <2>3, OnlyCommitPublishes DEF vars
    <3>2. cur \in Builds /\ cur > liveDb
      BY <1>3, <3>1 DEF IInv, TypeOK, JournalInv, PendingInv, Commit
    <3>3. Atomic!Publish(cur)
      BY <2>1, <3>1, <3>2 DEF Atomic!Publish, Commit
    <3> QED BY <3>2, <3>3 DEF Atomic!Next
  <2> QED BY <2>2, <2>3
<1> QED BY <1>1, <1>3, Invariant, PTL DEF Spec, AtomicSpec, Atomic!Spec

-----------------------------------------------------------------------------
(* --keep-failed-db: a verified batch is whole, or is the one being published *)
(* or undone, whose parts the journal accounts for; it is never the live one. *)
KeptInv ==
  \A b \in Builds : stageDb[b] = "verified" =>
    /\ b # liveDb
    /\ journal.build # b => \A n \in Names : stage[b][n] = b

AlwaysKept == KeepModes = {TRUE} /\ SoundFaults

(* The parts of a batch that the journal names may move. *)
LEMMA OwnBatchMoves ==
  ASSUME KeptInv, UNCHANGED <<journal, liveDb>>, cur = journal.build,
         \A b \in Builds : b # cur => stage'[b] = stage[b] /\ stageDb'[b] = stageDb[b],
         \A b \in Builds : stageDb'[b] \in {stageDb[b], "none"}
  PROVE  KeptInv'
BY DEF KeptInv

LEMMA ShellKeeps == ASSUME AlwaysKept, IInv, KeptInv, Start \/ Shell PROVE KeptInv'
<1>1. CASE Start \/ Discover \/ BeginFails \/ PrepareFails \/ TrapExits
  BY <1>1 DEF KeptInv, Start, Discover, BeginFails, PrepareFails, TrapExits
<1>2. CASE Begin
  <2>1. \A b \in Builds : stage'[b] = stage[b] \/ \A n \in Names : stage'[b][n] = b
    BY <1>2 DEF Begin, IInv, TypeOK
  <2> QED BY <1>2, <2>1 DEF Begin, KeptInv
<1>3. CASE Collect
  <2>1. \A b \in Builds : stageDb'[b] \in {stageDb[b], "graph"}
    BY <1>3 DEF Collect, IInv, TypeOK
  <2> QED BY <1>3, <2>1 DEF Collect, KeptInv
<1>4. CASE Prepare
  <2>1. cur > liveDb /\ \A n \in Names : stage[cur][n] = cur
    BY <1>4 DEF Prepare, IInv, FreshInv
  <2>2. \A b \in Builds : b # cur => stageDb'[b] = stageDb[b]
    BY <1>4 DEF Prepare, IInv, TypeOK
  <2>3. liveDb \in 0..MaxBuilds /\ cur \in 0..MaxBuilds BY DEF IInv, TypeOK
  <2> QED BY <1>4, <2>1, <2>2, <2>3 DEF Prepare, KeptInv
<1>5. ~TrapRemoves
  BY DEF TrapRemoves, AlwaysKept, IInv, ProcessInv
<1> QED BY <1>1, <1>2, <1>3, <1>4, <1>5 DEF Shell

(* Removing the journal of an unfinished publication leaves a whole batch.    *)
LEMMA UnlinkKeeps == ASSUME AlwaysKept, IInv, KeptInv, Unlink PROVE KeptInv'
<1>1. UNCHANGED <<stage, stageDb, liveDb>> /\ pc \in {"c_unlink", "x_unlink", "r_unlink"}
  BY DEF Unlink
<1>2. CASE pc = "c_unlink"
  BY <1>1, <1>2 DEF IInv, JournalInv, KeptInv
<1>3. CASE pc # "c_unlink"
  <2>1. \A n \in Names : stage[journal.build][n] = journal.build
    BY <1>1, <1>3 DEF IInv, RestoreInv, RecoverInv
  <2> QED BY <1>1, <2>1 DEF KeptInv
<1> QED BY <1>2, <1>3

LEMMA PublishKeeps == ASSUME AlwaysKept, IInv, KeptInv, Publish PROVE KeptInv'
<1>1. CASE \/ Check \/ EnterTry \/ BackUp \/ NoteBackUp \/ BackUpDone \/ NotePlace
           \/ PlaceDone \/ NoteCommit \/ RemoveRollback \/ RestoreBackups
  BY <1>1 DEF KeptInv, Check, EnterTry, BackUp, NoteBackUp, BackUpDone, NotePlace, PlaceDone,
     NoteCommit, RemoveRollback, RestoreBackups
<1>2. CASE Journal
  BY <1>2 DEF Journal, KeptInv, IInv, JournalInv
<1>3. CASE BackedUpPhase \/ PublishedPhase \/ CommittedPhase
  BY <1>3 DEF BackedUpPhase, PublishedPhase, CommittedPhase, KeptInv, IInv, JournalInv
<1>4. CASE Place \/ RestorePublished
  <2>1. cur = journal.build BY <1>4 DEF Place, RestorePublished, IInv, JournalInv
  <2>2. /\ UNCHANGED <<journal, liveDb, stageDb>>
        /\ \A b \in Builds : b # cur => stage'[b] = stage[b]
    BY <1>4 DEF Place, RestorePublished, IInv, TypeOK
  <2> QED BY <2>1, <2>2, OwnBatchMoves
<1>5. CASE Commit
  <2>1. cur = journal.build BY <1>5 DEF Commit, IInv, JournalInv
  <2>2. \A b \in Builds : stageDb'[b] = IF b = cur THEN "none" ELSE stageDb[b]
    BY <1>5 DEF Commit, IInv, TypeOK
  <2> QED BY <1>5, <2>1, <2>2 DEF Commit, KeptInv
<1>6. CASE RemoveStaging
  <2>1. cur = journal.build BY <1>6 DEF RemoveStaging, IInv, JournalInv
  <2>2. /\ UNCHANGED <<journal, liveDb>>
        /\ \A b \in Builds : b # cur => stage'[b] = stage[b] /\ stageDb'[b] = stageDb[b]
        /\ \A b \in Builds : stageDb'[b] \in {stageDb[b], "none"}
    BY <1>6 DEF RemoveStaging, IInv, TypeOK
  <2> QED BY <2>1, <2>2, OwnBatchMoves
<1> QED BY <1>1, <1>2, <1>3, <1>4, <1>5, <1>6, UnlinkKeeps DEF Publish

LEMMA OthersKeep == ASSUME AlwaysKept, IInv, KeptInv, Recover \/ Strike \/ UNCHANGED vars
                    PROVE  KeptInv'
<1>1. CASE RecoverLive
  <2>1. cur = journal.build BY <1>1 DEF RecoverLive, IInv, JournalInv
  <2>2. /\ UNCHANGED <<journal, liveDb, stageDb>>
        /\ \A b \in Builds : b # cur => stage'[b] = stage[b]
    BY <1>1 DEF RecoverLive, IInv, TypeOK
  <2> QED BY <2>1, <2>2, OwnBatchMoves
<1>2. CASE ReadJournal \/ ReadDatabase \/ RecoverBackup \/ RecoverDone
  BY <1>2 DEF KeptInv, ReadJournal, ReadDatabase, RecoverBackup, RecoverDone
<1>3. CASE Strike
  BY <1>3 DEF KeptInv, Strike, CallError, RestoreError, Interrupt, Kill, PowerCut, Hangup,
     Unreadable
<1>4. CASE UNCHANGED vars BY <1>4 DEF KeptInv, vars
<1> QED BY <1>1, <1>2, <1>3, <1>4 DEF Recover

(* When every rebuild runs with --keep-failed-db, a verified batch that is    *)
(* neither published nor removed keeps its database and all of its reports,   *)
(* wherever publish_build, its handler, recovery or the trap is cut off.      *)
THEOREM KeptWhole == ASSUME AlwaysKept PROVE Spec => []KeptBatchComplete
<1>1. Init => KeptInv BY DEF Init, KeptInv
<1>2. IInv /\ KeptInv /\ [Next]_vars => KeptInv'
  BY ShellKeeps, PublishKeeps, OthersKeep DEF Next
<1>3. KeptInv => KeptBatchComplete BY DEF KeptInv, KeptBatchComplete
<1>4. SoundFaults BY DEF AlwaysKept
<1> QED BY <1>1, <1>2, <1>3, <1>4, Invariant, PTL DEF Spec
=============================================================================
