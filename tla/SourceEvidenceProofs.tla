----------------------- MODULE SourceEvidenceProofs -----------------------
(* The invariant of SourceEvidenceInvariant holds for any repositories, any  *)
(* number of versions, importers, databases and failures, as long as no file *)
(* returns to an earlier content.                                            *)
EXTENDS SourceEvidenceInvariant, TLAPS

USE FilesAssumption, VersionAssumption, PassesAssumption, DatabasesAssumption,
    FailuresAssumption, RevertsAssumption
USE DEF Versions, Trees, Reading, Databases, Graphs, Nothing, Planned, Checked,
        preparation, batch, outside, Reads, HasRead, ReadAll, Leave

-----------------------------------------------------------------------------
(* "No newer than" is an order on the states of the sources. *)
LEMMA UptoTransitive ==
  ASSUME NEW p \in Trees, NEW q \in Trees, NEW r \in Trees, Upto(p, q), Upto(q, r)
  PROVE  Upto(p, r)
BY DEF Upto

LEMMA UptoAntisymmetric ==
  ASSUME NEW p \in Trees, NEW q \in Trees, Upto(p, q), Upto(q, p)
  PROVE  p = q
<1>1. \A f \in Files : p[f] = q[f]
  BY DEF Upto
<1> QED BY <1>1

-----------------------------------------------------------------------------
(* Before the first build there are no plans, databases or graphs. *)
LEMMA InitIInv == Init => IInv
<1> SUFFICES ASSUME Init PROVE IInv
  OBVIOUS
<1>1. Nothing \in Trees /\ [f \in Files |-> {}] \in [Files -> SUBSET Versions]
  OBVIOUS
<1>2. 1 \in 1..Passes /\ 0 \in 0..MaxFailures
  OBVIOUS
<1>3. TypeOK
  BY <1>1, <1>2 DEF Init, TypeOK
<1>4. OutsideInv /\ PlanInv /\ FactsInv /\ InventoryInv
  BY DEF Init, Upto, OutsideInv, PlanInv, FactsInv, InventoryInv
<1>5. CodeQLInv /\ CollectInv /\ CheckedInv /\ ProvenanceInv
  BY DEF Init, CodeQLInv, CollectInv, CheckedInv, ProvenanceInv
<1>6. GraphIsASnapshot /\ CodeQLOfTheSnapshot /\ StrictProvenance
  BY DEF Init, GraphIsASnapshot, CodeQLOfTheSnapshot, StrictProvenance
<1> QED BY <1>3, <1>4, <1>5, <1>6 DEF IInv

(* A step that changes nothing. *)
LEMMA StutterStep == ASSUME IInv, UNCHANGED vars PROVE IInv'
<1>1. TypeOK'
  BY DEF IInv, vars, TypeOK
<1>2. OutsideInv' /\ PlanInv' /\ FactsInv' /\ InventoryInv'
  BY DEF IInv, vars, Upto, OutsideInv, PlanInv, FactsInv, InventoryInv
<1>3. CodeQLInv' /\ CollectInv' /\ CheckedInv' /\ ProvenanceInv'
  BY DEF IInv, vars, Upto, CodeQLInv, CollectInv, CheckedInv, ProvenanceInv
<1>4. GraphIsASnapshot' /\ CodeQLOfTheSnapshot' /\ StrictProvenance'
  BY DEF IInv, vars, GraphIsASnapshot, CodeQLOfTheSnapshot, StrictProvenance
<1> QED BY <1>1, <1>2, <1>3, <1>4 DEF IInv

-----------------------------------------------------------------------------
(* A database is prepared for a plan of the past, and holds nothing yet.     *)
LEMMA PrepareStartStep == ASSUME IInv, PrepareStart PROVE IInv'
<1>1. TypeOK'
  BY DEF IInv, PrepareStart, TypeOK
<1>2. OutsideInv'
  BY DEF IInv, PrepareStart, TypeOK, Upto, OutsideInv
<1>3. PlanInv' /\ FactsInv' /\ InventoryInv' /\ CodeQLInv' /\ CollectInv'
      /\ CheckedInv' /\ ProvenanceInv'
  BY DEF IInv, PrepareStart, TypeOK, Upto, PlanInv, FactsInv, InventoryInv,
     CodeQLInv, CollectInv, CheckedInv, ProvenanceInv
<1>4. GraphIsASnapshot' /\ CodeQLOfTheSnapshot' /\ StrictProvenance'
  BY DEF IInv, PrepareStart, TypeOK, GraphIsASnapshot, CodeQLOfTheSnapshot,
     StrictProvenance
<1> QED BY <1>1, <1>2, <1>3, <1>4 DEF IInv

(* What is extracted is there now, so it is no older than the request.       *)
LEMMA ExtractStep ==
  ASSUME IInv, NEW f \in Files, Extract(f) PROVE IInv'
<1>1. TypeOK'
  BY DEF IInv, Extract, TypeOK
<1>2. OutsideInv'
  BY DEF IInv, Extract, TypeOK, Upto, OutsideInv
<1>3. PlanInv' /\ FactsInv' /\ InventoryInv' /\ CodeQLInv' /\ CollectInv'
      /\ CheckedInv' /\ ProvenanceInv'
  BY DEF IInv, Extract, TypeOK, Upto, PlanInv, FactsInv, InventoryInv,
     CodeQLInv, CollectInv, CheckedInv, ProvenanceInv
<1>4. GraphIsASnapshot' /\ CodeQLOfTheSnapshot' /\ StrictProvenance'
  BY DEF IInv, Extract, TypeOK, GraphIsASnapshot, CodeQLOfTheSnapshot,
     StrictProvenance
<1> QED BY <1>1, <1>2, <1>3, <1>4 DEF IInv

(* A complete database holds nothing older than its identity.                *)
LEMMA PrepareDoneStep == ASSUME IInv, PrepareDone PROVE IInv'
<1>1. TypeOK'
  BY DEF IInv, PrepareDone, TypeOK
<1>2. OutsideInv'
  BY DEF IInv, PrepareDone, TypeOK, Upto, OutsideInv
<1>3. PlanInv' /\ FactsInv' /\ InventoryInv' /\ CodeQLInv' /\ CollectInv'
      /\ CheckedInv' /\ ProvenanceInv'
  BY DEF IInv, PrepareDone, TypeOK, Upto, PlanInv, FactsInv, InventoryInv,
     CodeQLInv, CollectInv, CheckedInv, ProvenanceInv
<1>4. GraphIsASnapshot' /\ CodeQLOfTheSnapshot' /\ StrictProvenance'
  BY DEF IInv, PrepareDone, TypeOK, GraphIsASnapshot, CodeQLOfTheSnapshot,
     StrictProvenance
<1> QED BY <1>1, <1>2, <1>3, <1>4 DEF IInv

(* A failed preparation leaves no database.                                  *)
LEMMA PrepareFailsStep == ASSUME IInv, PrepareFails PROVE IInv'
<1>1. TypeOK'
  BY DEF IInv, PrepareFails, TypeOK
<1>2. OutsideInv'
  BY DEF IInv, PrepareFails, TypeOK, Upto, OutsideInv
<1>3. PlanInv' /\ FactsInv' /\ InventoryInv' /\ CodeQLInv' /\ CollectInv'
      /\ CheckedInv' /\ ProvenanceInv'
  BY DEF IInv, PrepareFails, TypeOK, Upto, PlanInv, FactsInv, InventoryInv,
     CodeQLInv, CollectInv, CheckedInv, ProvenanceInv
<1>4. GraphIsASnapshot' /\ CodeQLOfTheSnapshot' /\ StrictProvenance'
  BY DEF IInv, PrepareFails, TypeOK, GraphIsASnapshot, CodeQLOfTheSnapshot,
     StrictProvenance
<1> QED BY <1>1, <1>2, <1>3, <1>4 DEF IInv

(* The sources only move on: what was bounded by them still is. *)
LEMMA EditStep == ASSUME OneWay, IInv, NEW f \in Files, Edit(f) PROVE IInv'
<1>1. TypeOK'
  BY DEF IInv, Edit, TypeOK
<1>2. tree \in Trees /\ tree' \in Trees
  BY <1>1 DEF IInv, TypeOK
<1>3. Upto(tree, tree')
  BY <1>2 DEF OneWay, Edit, Upto
<1>4. \A p \in Trees : Upto(p, tree) => Upto(p, tree')
  BY <1>2, <1>3, UptoTransitive
<1>5. OutsideInv'
  <2>1. /\ livePlan \subseteq Trees /\ request \subseteq Trees /\ extracted \in Trees
        /\ \A d \in databases : d.content \in Trees
    BY DEF IInv, TypeOK
  <2>2. OutsideInv
    BY DEF IInv
  <2>3. UNCHANGED <<livePlan, databases, request, extracted, unextracted>>
    BY DEF Edit
  <2> QED BY <1>4, <2>1, <2>2, <2>3 DEF OutsideInv, Upto
<1>6. PlanInv'
  BY <1>4 DEF IInv, TypeOK, Edit, PlanInv, Upto
<1>7. FactsInv'
  <2>1. \A g \in Files, v \in Versions : v <= tree[g] => v <= tree'[g]
    BY <1>2, <1>3 DEF Upto
  <2>2. \A g \in Files : facts[g] \subseteq Versions
    BY DEF IInv, TypeOK
  <2>3. FactsInv /\ UNCHANGED <<pc, pass, todo, facts, snapshot>>
    BY DEF IInv, Edit
  <2> QED BY <2>1, <2>2, <2>3 DEF FactsInv
<1>8. InventoryInv'
  BY <1>4 DEF IInv, TypeOK, Edit, InventoryInv, Upto
<1>9. CodeQLInv'
  <2>1. codeql \subseteq Trees
    BY DEF IInv, TypeOK
  <2>2. CodeQLInv /\ UNCHANGED <<pc, plan, codeql>>
    BY DEF IInv, Edit
  <2> QED BY <1>4, <2>1, <2>2 DEF CodeQLInv, Upto
<1>10. CollectInv' /\ CheckedInv' /\ ProvenanceInv'
  BY DEF IInv, Edit, CollectInv, CheckedInv, ProvenanceInv
<1>11. GraphIsASnapshot' /\ CodeQLOfTheSnapshot' /\ StrictProvenance'
  BY DEF IInv, Edit, GraphIsASnapshot, CodeQLOfTheSnapshot, StrictProvenance
<1> QED BY <1>1, <1>5, <1>6, <1>7, <1>8, <1>9, <1>10, <1>11 DEF IInv

(* A new batch holds nothing.                                                *)
LEMMA StartStep ==
  ASSUME IInv, NEW only \in BOOLEAN, NEW complete \in BOOLEAN,
         Start(only, complete)
  PROVE  IInv'
<1>1. TypeOK'
  BY DEF IInv, Start, TypeOK
<1>2. PlanInv'
  BY DEF IInv, Start, TypeOK, Upto, PlanInv
<1>3. FactsInv'
  BY DEF IInv, Start, TypeOK, Upto, FactsInv
<1>4. InventoryInv'
  BY DEF IInv, Start, TypeOK, Upto, InventoryInv
<1>5. CodeQLInv'
  BY DEF IInv, Start, TypeOK, Upto, CodeQLInv
<1>6. OutsideInv' /\ CollectInv' /\ CheckedInv' /\ ProvenanceInv'
  BY DEF IInv, Start, TypeOK, Upto, OutsideInv, CollectInv, CheckedInv,
     ProvenanceInv
<1>7. GraphIsASnapshot' /\ CodeQLOfTheSnapshot' /\ StrictProvenance'
  BY DEF IInv, Start, TypeOK, GraphIsASnapshot, CodeQLOfTheSnapshot,
     StrictProvenance
<1> QED BY <1>1, <1>2, <1>3, <1>4, <1>5, <1>6, <1>7 DEF IInv

(* What the plan records is there now.                                       *)
LEMMA PlanFileStep ==
  ASSUME IInv, NEW f \in Files, PlanFile(f) PROVE IInv'
<1>1. TypeOK'
  BY DEF IInv, PlanFile, TypeOK
<1>2. PlanInv'
  BY DEF IInv, PlanFile, TypeOK, Upto, PlanInv
<1>3. OutsideInv' /\ FactsInv' /\ InventoryInv' /\ CodeQLInv'
      /\ CollectInv' /\ CheckedInv' /\ ProvenanceInv'
  BY DEF IInv, PlanFile, TypeOK, Upto, OutsideInv, FactsInv, InventoryInv,
     CodeQLInv, CollectInv, CheckedInv, ProvenanceInv
<1>4. GraphIsASnapshot' /\ CodeQLOfTheSnapshot' /\ StrictProvenance'
  BY DEF IInv, PlanFile, TypeOK, GraphIsASnapshot, CodeQLOfTheSnapshot,
     StrictProvenance
<1> QED BY <1>1, <1>2, <1>3, <1>4 DEF IInv

(* The complete plan is bounded by the sources of that moment.               *)
LEMMA PlanDoneStep == ASSUME IInv, PlanDone PROVE IInv'
<1>1. TypeOK'
  BY DEF IInv, PlanDone, TypeOK
<1>2. OutsideInv'
  BY DEF IInv, PlanDone, TypeOK, Upto, OutsideInv, PlanInv
<1>3. PlanInv'
  BY DEF IInv, PlanDone, TypeOK, Upto, PlanInv
<1>4. FactsInv'
  BY DEF IInv, PlanDone, TypeOK, Upto, FactsInv
<1>5. InventoryInv'
  BY DEF IInv, PlanDone, TypeOK, Upto, InventoryInv
<1>6. CodeQLInv'
  BY DEF IInv, PlanDone, TypeOK, Upto, CodeQLInv
<1>7. CollectInv' /\ CheckedInv' /\ ProvenanceInv'
  BY DEF IInv, PlanDone, TypeOK, Upto, CollectInv, CheckedInv, ProvenanceInv
<1>8. GraphIsASnapshot' /\ CodeQLOfTheSnapshot' /\ StrictProvenance'
  BY DEF IInv, PlanDone, TypeOK, GraphIsASnapshot, CodeQLOfTheSnapshot,
     StrictProvenance
<1> QED BY <1>1, <1>2, <1>3, <1>4, <1>5, <1>6, <1>7, <1>8 DEF IInv

(* A fact is of a version no older than the plan.                            *)
LEMMA ImportFileStep ==
  ASSUME IInv, NEW f \in Files, ImportFile(f) PROVE IInv'
<1>1. TypeOK'
  BY DEF IInv, ImportFile, TypeOK
<1>2. FactsInv'
  BY DEF IInv, ImportFile, TypeOK, Upto, FactsInv, PlanInv
<1>3. OutsideInv' /\ PlanInv' /\ InventoryInv' /\ CodeQLInv' /\ CollectInv'
      /\ CheckedInv' /\ ProvenanceInv'
  BY DEF IInv, ImportFile, TypeOK, Upto, OutsideInv, PlanInv, InventoryInv,
     CodeQLInv, CollectInv, CheckedInv, ProvenanceInv
<1>4. GraphIsASnapshot' /\ CodeQLOfTheSnapshot' /\ StrictProvenance'
  BY DEF IInv, ImportFile, TypeOK, GraphIsASnapshot, CodeQLOfTheSnapshot,
     StrictProvenance
<1> QED BY <1>1, <1>2, <1>3, <1>4 DEF IInv

(* After the first pass every file has a fact.                               *)
LEMMA PassDoneStep == ASSUME IInv, PassDone PROVE IInv'
<1>1. TypeOK'
  BY DEF IInv, PassDone, TypeOK
<1>2. FactsInv'
  BY DEF IInv, PassDone, TypeOK, Upto, FactsInv
<1>3. InventoryInv'
  BY DEF IInv, PassDone, TypeOK, Upto, InventoryInv
<1>4. CodeQLInv'
  BY DEF IInv, PassDone, TypeOK, Upto, CodeQLInv
<1>5. OutsideInv' /\ PlanInv' /\ CollectInv' /\ CheckedInv'
      /\ ProvenanceInv'
  BY DEF IInv, PassDone, TypeOK, Upto, OutsideInv, PlanInv, CollectInv,
     CheckedInv, ProvenanceInv
<1>6. GraphIsASnapshot' /\ CodeQLOfTheSnapshot' /\ StrictProvenance'
  BY DEF IInv, PassDone, TypeOK, GraphIsASnapshot, CodeQLOfTheSnapshot,
     StrictProvenance
<1> QED BY <1>1, <1>2, <1>3, <1>4, <1>5, <1>6 DEF IInv

(* The native inventory is no older than the plan.                           *)
LEMMA InventoryFileStep ==
  ASSUME IInv, NEW f \in Files, InventoryFile(f) PROVE IInv'
<1>1. TypeOK'
  BY DEF IInv, InventoryFile, TypeOK
<1>2. InventoryInv'
  BY DEF IInv, InventoryFile, TypeOK, Upto, InventoryInv, PlanInv
<1>3. OutsideInv' /\ PlanInv' /\ FactsInv' /\ CodeQLInv' /\ CollectInv'
      /\ CheckedInv' /\ ProvenanceInv'
  BY DEF IInv, InventoryFile, TypeOK, Upto, OutsideInv, PlanInv, FactsInv,
     CodeQLInv, CollectInv, CheckedInv, ProvenanceInv
<1>4. GraphIsASnapshot' /\ CodeQLOfTheSnapshot' /\ StrictProvenance'
  BY DEF IInv, InventoryFile, TypeOK, GraphIsASnapshot, CodeQLOfTheSnapshot,
     StrictProvenance
<1> QED BY <1>1, <1>2, <1>3, <1>4 DEF IInv

(* The native inventory is complete.                                         *)
LEMMA InventoryDoneStep == ASSUME IInv, InventoryDone PROVE IInv'
<1>1. TypeOK'
  BY DEF IInv, InventoryDone, TypeOK
<1>2. InventoryInv'
  BY DEF IInv, InventoryDone, TypeOK, Upto, InventoryInv
<1>3. CodeQLInv'
  BY DEF IInv, InventoryDone, TypeOK, Upto, CodeQLInv
<1>4. OutsideInv' /\ PlanInv' /\ FactsInv' /\ CollectInv' /\ CheckedInv'
      /\ ProvenanceInv'
  BY DEF IInv, InventoryDone, TypeOK, Upto, OutsideInv, PlanInv, FactsInv,
     CollectInv, CheckedInv, ProvenanceInv
<1>5. GraphIsASnapshot' /\ CodeQLOfTheSnapshot' /\ StrictProvenance'
  BY DEF IInv, InventoryDone, TypeOK, GraphIsASnapshot, CodeQLOfTheSnapshot,
     StrictProvenance
<1> QED BY <1>1, <1>2, <1>3, <1>4, <1>5 DEF IInv

(* A native fact is of a version no older than the plan.                     *)
LEMMA NativeFileStep ==
  ASSUME IInv, NEW f \in Files, NativeFile(f) PROVE IInv'
<1>1. TypeOK'
  BY DEF IInv, NativeFile, TypeOK
<1>2. FactsInv'
  BY DEF IInv, NativeFile, TypeOK, Upto, FactsInv, PlanInv
<1>3. OutsideInv' /\ PlanInv' /\ InventoryInv' /\ CodeQLInv' /\ CollectInv'
      /\ CheckedInv' /\ ProvenanceInv'
  BY DEF IInv, NativeFile, TypeOK, Upto, OutsideInv, PlanInv, InventoryInv,
     CodeQLInv, CollectInv, CheckedInv, ProvenanceInv
<1>4. GraphIsASnapshot' /\ CodeQLOfTheSnapshot' /\ StrictProvenance'
  BY DEF IInv, NativeFile, TypeOK, GraphIsASnapshot, CodeQLOfTheSnapshot,
     StrictProvenance
<1> QED BY <1>1, <1>2, <1>3, <1>4 DEF IInv

(* The native facts are read.                                                *)
LEMMA NativeDoneStep == ASSUME IInv, NativeDone PROVE IInv'
<1>1. TypeOK'
  BY DEF IInv, NativeDone, TypeOK
<1>2. OutsideInv' /\ PlanInv' /\ FactsInv' /\ InventoryInv' /\ CodeQLInv'
      /\ CollectInv' /\ CheckedInv' /\ ProvenanceInv'
  BY DEF IInv, NativeDone, TypeOK, Upto, OutsideInv, PlanInv, FactsInv,
     InventoryInv, CodeQLInv, CollectInv, CheckedInv, ProvenanceInv
<1>3. GraphIsASnapshot' /\ CodeQLOfTheSnapshot' /\ StrictProvenance'
  BY DEF IInv, NativeDone, TypeOK, GraphIsASnapshot, CodeQLOfTheSnapshot,
     StrictProvenance
<1> QED BY <1>1, <1>2, <1>3 DEF IInv

(* Comparing the native inventory again changes nothing.                     *)
LEMMA NativeCheckStep ==
  ASSUME IInv, NEW f \in Files, NativeCheck(f) PROVE IInv'
<1>1. TypeOK'
  BY DEF IInv, NativeCheck, TypeOK
<1>2. OutsideInv' /\ PlanInv' /\ FactsInv' /\ InventoryInv' /\ CodeQLInv'
      /\ CollectInv' /\ CheckedInv' /\ ProvenanceInv'
  BY DEF IInv, NativeCheck, TypeOK, Upto, OutsideInv, PlanInv, FactsInv,
     InventoryInv, CodeQLInv, CollectInv, CheckedInv, ProvenanceInv
<1>3. GraphIsASnapshot' /\ CodeQLOfTheSnapshot' /\ StrictProvenance'
  BY DEF IInv, NativeCheck, TypeOK, GraphIsASnapshot, CodeQLOfTheSnapshot,
     StrictProvenance
<1> QED BY <1>1, <1>2, <1>3 DEF IInv

(* The native facts are accepted.                                            *)
LEMMA NativeCheckedStep == ASSUME IInv, NativeChecked PROVE IInv'
<1>1. TypeOK'
  BY DEF IInv, NativeChecked, TypeOK
<1>2. OutsideInv' /\ PlanInv' /\ FactsInv' /\ InventoryInv' /\ CodeQLInv'
      /\ CollectInv' /\ CheckedInv' /\ ProvenanceInv'
  BY DEF IInv, NativeChecked, TypeOK, Upto, OutsideInv, PlanInv, FactsInv,
     InventoryInv, CodeQLInv, CollectInv, CheckedInv, ProvenanceInv
<1>3. GraphIsASnapshot' /\ CodeQLOfTheSnapshot' /\ StrictProvenance'
  BY DEF IInv, NativeChecked, TypeOK, GraphIsASnapshot, CodeQLOfTheSnapshot,
     StrictProvenance
<1> QED BY <1>1, <1>2, <1>3 DEF IInv

(* Without a CodeQL database there is nothing to bound.                      *)
LEMMA SkipCodeQLStep == ASSUME IInv, SkipCodeQL PROVE IInv'
<1>1. TypeOK'
  BY DEF IInv, SkipCodeQL, TypeOK
<1>2. CodeQLInv'
  BY DEF IInv, SkipCodeQL, TypeOK, Upto, CodeQLInv
<1>3. CollectInv'
  BY DEF IInv, SkipCodeQL, TypeOK, Upto, CollectInv
<1>4. OutsideInv' /\ PlanInv' /\ FactsInv' /\ InventoryInv' /\ CheckedInv'
      /\ ProvenanceInv'
  BY DEF IInv, SkipCodeQL, TypeOK, Upto, OutsideInv, PlanInv, FactsInv,
     InventoryInv, CheckedInv, ProvenanceInv
<1>5. GraphIsASnapshot' /\ CodeQLOfTheSnapshot' /\ StrictProvenance'
  BY DEF IInv, SkipCodeQL, TypeOK, GraphIsASnapshot, CodeQLOfTheSnapshot,
     StrictProvenance
<1> QED BY <1>1, <1>2, <1>3, <1>4, <1>5 DEF IInv

(* An accepted database is named after this plan: it holds nothing older.    *)
LEMMA ImportCodeQLStep == ASSUME IInv, ImportCodeQL PROVE IInv'
<1>1. TypeOK'
  BY DEF IInv, ImportCodeQL, TypeOK
<1>2. CodeQLInv'
  BY DEF IInv, ImportCodeQL, TypeOK, Upto, CodeQLInv, OutsideInv
<1>3. CollectInv'
  BY DEF IInv, ImportCodeQL, TypeOK, Upto, CollectInv
<1>4. OutsideInv' /\ PlanInv' /\ FactsInv' /\ InventoryInv' /\ CheckedInv'
      /\ ProvenanceInv'
  BY DEF IInv, ImportCodeQL, TypeOK, Upto, OutsideInv, PlanInv, FactsInv,
     InventoryInv, CheckedInv, ProvenanceInv
<1>5. GraphIsASnapshot' /\ CodeQLOfTheSnapshot' /\ StrictProvenance'
  BY DEF IInv, ImportCodeQL, TypeOK, GraphIsASnapshot, CodeQLOfTheSnapshot,
     StrictProvenance
<1> QED BY <1>1, <1>2, <1>3, <1>4, <1>5 DEF IInv

(* What is collected is there now: nothing read before it is newer.          *)
LEMMA CollectFileStep ==
  ASSUME IInv, NEW f \in Files, CollectFile(f) PROVE IInv'
<1>1. TypeOK'
  BY DEF IInv, CollectFile, TypeOK
<1>2. CollectInv'
  BY DEF IInv, CollectFile, TypeOK, Upto, CollectInv, PlanInv, FactsInv,
     InventoryInv, CodeQLInv
<1>3. OutsideInv' /\ PlanInv' /\ FactsInv' /\ InventoryInv' /\ CodeQLInv'
      /\ CheckedInv' /\ ProvenanceInv'
  BY DEF IInv, CollectFile, TypeOK, Upto, OutsideInv, PlanInv, FactsInv,
     InventoryInv, CodeQLInv, CheckedInv, ProvenanceInv
<1>4. GraphIsASnapshot' /\ CodeQLOfTheSnapshot' /\ StrictProvenance'
  BY DEF IInv, CollectFile, TypeOK, GraphIsASnapshot, CodeQLOfTheSnapshot,
     StrictProvenance
<1> QED BY <1>1, <1>2, <1>3, <1>4 DEF IInv

(* The bounds meet: what equals the plan at the end has equalled it all      *)
(* along.                                                                    *)
LEMMA PostImportStep == ASSUME IInv, PostImport PROVE IInv'
<1>1. TypeOK'
  BY DEF IInv, PostImport, TypeOK
<1>2. CheckedInv'
  <2> SUFFICES ASSUME collected = plan PROVE CheckedInv'
    BY DEF PostImport, CheckedInv
  <2>1. /\ plan \in Trees /\ snapshot \in Trees /\ inventory \in Trees
        /\ codeql \subseteq Trees /\ facts \in [Files -> SUBSET Versions]
    BY DEF IInv, TypeOK
  <2>2. pc = "collect" /\ todo = {}
    BY DEF PostImport
  <2>3. Upto(plan, snapshot) /\ Upto(snapshot, inventory)
    BY <2>2 DEF IInv, PlanInv, InventoryInv
  <2>4. Upto(snapshot, plan) /\ Upto(inventory, plan)
    BY <2>2 DEF IInv, CollectInv, Upto
  <2>5. snapshot = plan
    BY <2>1, <2>3, <2>4, UptoAntisymmetric
  <2>6. inventory = plan
    BY <2>1, <2>3, <2>4, <2>5, UptoAntisymmetric
  <2>7. ASSUME NEW f \in Files PROVE facts[f] = {plan[f]}
    <3>1. \A v \in facts[f] : plan[f] <= v /\ v <= plan[f]
      BY <2>2, <2>5 DEF IInv, FactsInv, CollectInv
    <3>2. facts[f] # {} /\ facts[f] \subseteq Nat /\ plan[f] \in Nat
      BY <2>1, <2>2 DEF IInv, FactsInv
    <3> QED BY <3>1, <3>2
  <2>8. ASSUME NEW c \in codeql PROVE c = plan
    <3>1. Upto(plan, c) /\ Upto(c, plan)
      BY <2>2 DEF IInv, CodeQLInv, CollectInv, Upto
    <3> QED BY <2>1, <3>1, UptoAntisymmetric
  <2> QED BY <2>5, <2>6, <2>7, <2>8 DEF PostImport, CheckedInv
<1>3. OutsideInv' /\ PlanInv' /\ FactsInv' /\ InventoryInv'
  BY DEF IInv, PostImport, TypeOK, Upto, OutsideInv, PlanInv, FactsInv,
     InventoryInv
<1>4. CodeQLInv' /\ CollectInv' /\ ProvenanceInv'
  BY DEF IInv, PostImport, TypeOK, Upto, CodeQLInv, CollectInv, ProvenanceInv
<1>5. GraphIsASnapshot' /\ CodeQLOfTheSnapshot' /\ StrictProvenance'
  BY DEF IInv, PostImport, GraphIsASnapshot, CodeQLOfTheSnapshot, StrictProvenance
<1> QED BY <1>1, <1>2, <1>3, <1>4, <1>5 DEF IInv

(* The second collection changes nothing that was compared.                  *)
LEMMA CollectAgainStep ==
  ASSUME IInv, NEW f \in Files, CollectAgain(f) PROVE IInv'
<1>1. TypeOK'
  BY DEF IInv, CollectAgain, TypeOK
<1>2. OutsideInv' /\ PlanInv' /\ FactsInv' /\ InventoryInv' /\ CodeQLInv'
      /\ CollectInv' /\ CheckedInv' /\ ProvenanceInv'
  BY DEF IInv, CollectAgain, TypeOK, Upto, OutsideInv, PlanInv, FactsInv,
     InventoryInv, CodeQLInv, CollectInv, CheckedInv, ProvenanceInv
<1>3. GraphIsASnapshot' /\ CodeQLOfTheSnapshot' /\ StrictProvenance'
  BY DEF IInv, CollectAgain, TypeOK, GraphIsASnapshot, CodeQLOfTheSnapshot,
     StrictProvenance
<1> QED BY <1>1, <1>2, <1>3 DEF IInv

(* Under --strict the second collection is compared as well.                 *)
LEMMA ValidateProvenanceStep == ASSUME IInv, ValidateProvenance PROVE IInv'
<1>1. TypeOK'
  BY DEF IInv, ValidateProvenance, TypeOK
<1>2. ProvenanceInv'
  BY DEF IInv, ValidateProvenance, TypeOK, Upto, ProvenanceInv
<1>3. OutsideInv' /\ PlanInv' /\ FactsInv' /\ InventoryInv' /\ CodeQLInv'
      /\ CollectInv' /\ CheckedInv'
  BY DEF IInv, ValidateProvenance, TypeOK, Upto, OutsideInv, PlanInv,
     FactsInv, InventoryInv, CodeQLInv, CollectInv, CheckedInv
<1>4. GraphIsASnapshot' /\ CodeQLOfTheSnapshot' /\ StrictProvenance'
  BY DEF IInv, ValidateProvenance, TypeOK, GraphIsASnapshot,
     CodeQLOfTheSnapshot, StrictProvenance
<1> QED BY <1>1, <1>2, <1>3, <1>4 DEF IInv

(* What is published was checked.                                            *)
LEMMA PublishStep == ASSUME IInv, Publish PROVE IInv'
<1>1. TypeOK'
  BY DEF IInv, Publish, TypeOK
<1>2. OutsideInv'
  BY DEF IInv, Publish, TypeOK, Upto, OutsideInv, PlanInv
<1>3. PlanInv' /\ FactsInv' /\ InventoryInv' /\ CodeQLInv' /\ CollectInv'
      /\ CheckedInv' /\ ProvenanceInv'
  BY DEF IInv, Publish, TypeOK, Upto, PlanInv, FactsInv, InventoryInv,
     CodeQLInv, CollectInv, CheckedInv, ProvenanceInv
<1>4. GraphIsASnapshot' /\ CodeQLOfTheSnapshot' /\ StrictProvenance'
  BY DEF IInv, Publish, TypeOK, GraphIsASnapshot, CodeQLOfTheSnapshot,
     StrictProvenance, CheckedInv, ProvenanceInv
<1> QED BY <1>1, <1>2, <1>3, <1>4 DEF IInv

(* A failed build leaves nothing.                                            *)
LEMMA AbandonStep == ASSUME IInv, Abandon PROVE IInv'
<1>1. TypeOK'
  BY DEF IInv, Abandon, TypeOK
<1>2. OutsideInv' /\ PlanInv' /\ FactsInv' /\ InventoryInv' /\ CodeQLInv'
      /\ CollectInv' /\ CheckedInv' /\ ProvenanceInv'
  BY DEF IInv, Abandon, TypeOK, Upto, OutsideInv, PlanInv, FactsInv,
     InventoryInv, CodeQLInv, CollectInv, CheckedInv, ProvenanceInv
<1>3. GraphIsASnapshot' /\ CodeQLOfTheSnapshot' /\ StrictProvenance'
  BY DEF IInv, Abandon, TypeOK, GraphIsASnapshot, CodeQLOfTheSnapshot,
     StrictProvenance
<1> QED BY <1>1, <1>2, <1>3 DEF IInv

-----------------------------------------------------------------------------
(* Every step of the rebuild, of a preparation or of the world outside. *)
LEMMA NextStep == ASSUME OneWay, IInv, [Next]_vars PROVE IInv'
<1>1. CASE \E f \in Files : Edit(f)
  BY <1>1, EditStep
<1>2. CASE Prepare
  BY <1>2, PrepareStartStep, ExtractStep, PrepareDoneStep, PrepareFailsStep DEF Prepare
<1>3. CASE \E only, complete \in BOOLEAN : Start(only, complete)
  BY <1>3, StartStep
<1>4. CASE \E f \in Files : ReadOne(f)
  BY <1>4, PlanFileStep, ImportFileStep, InventoryFileStep, NativeFileStep,
     NativeCheckStep, CollectFileStep, CollectAgainStep DEF ReadOne
<1>5. CASE GoOn
  BY <1>5, PlanDoneStep, PassDoneStep, InventoryDoneStep, NativeDoneStep,
     NativeCheckedStep, SkipCodeQLStep, ImportCodeQLStep, PostImportStep,
     ValidateProvenanceStep, PublishStep DEF GoOn
<1>6. CASE Abandon
  BY <1>6, AbandonStep
<1>7. CASE UNCHANGED vars
  BY <1>7, StutterStep
<1> QED BY <1>1, <1>2, <1>3, <1>4, <1>5, <1>6, <1>7 DEF Next, Rebuild

(* The invariant: everything a batch holds lies between the inventory it was *)
(* planned with and the sources as they are, and the inventory collected at  *)
(* the end lies above everything read before it.                             *)
THEOREM SourceInvariant == ASSUME OneWay PROVE Spec => []IInv
<1>1. Init => IInv
  BY InitIInv
<1>2. IInv /\ [Next]_vars => IInv'
  BY NextStep
<1> QED BY <1>1, <1>2, PTL DEF Spec

(* rebuild_all.sh publishes a graph all of whose facts come from one state   *)
(* the sources were in, however they change while it reads them.             *)
THEOREM SnapshotPublished == ASSUME OneWay PROVE Spec => []GraphIsASnapshot
<1>1. IInv => GraphIsASnapshot
  BY DEF IInv
<1> QED BY <1>1, SourceInvariant, PTL

(* The manifest check of codeql_import.py suffices: a database that was      *)
(* extracted while, or after, the sources moved away from its identity is    *)
(* never part of a published graph.                                          *)
THEOREM CodeQLSnapshotPublished ==
  ASSUME OneWay PROVE Spec => []CodeQLOfTheSnapshot
<1>1. IInv => CodeQLOfTheSnapshot
  BY DEF IInv
<1> QED BY <1>1, SourceInvariant, PTL

(* Under --strict, provenance.json names the state that the graph is of.     *)
THEOREM StrictProvenancePublished == ASSUME OneWay PROVE Spec => []StrictProvenance
<1>1. IInv => StrictProvenance
  BY DEF IInv
<1> QED BY <1>1, SourceInvariant, PTL

(* The states have their types whatever the files do, returning to an earlier *)
(* content included.                                                         *)
LEMMA TypeStep == ASSUME TypeOK, [Next]_vars PROVE TypeOK'
<1>1. CASE \E f \in Files : Edit(f)
  BY <1>1 DEF TypeOK, Edit
<1>2. CASE Prepare
  <2>1. ASSUME NEW f \in Files, Extract(f) PROVE TypeOK'
    BY <2>1 DEF TypeOK, Extract
  <2>2. CASE PrepareStart
    BY <2>2 DEF TypeOK, PrepareStart
  <2>3. CASE PrepareDone \/ PrepareFails
    BY <2>3 DEF TypeOK, PrepareDone, PrepareFails
  <2> QED BY <1>2, <2>1, <2>2, <2>3 DEF Prepare
<1>3. ASSUME NEW only \in BOOLEAN, NEW complete \in BOOLEAN, Start(only, complete)
      PROVE  TypeOK'
  BY <1>3 DEF TypeOK, Start
<1>4. ASSUME NEW f \in Files, ReadOne(f) PROVE TypeOK'
  <2>1. CASE PlanFile(f)
    BY <2>1 DEF TypeOK, PlanFile
  <2>2. CASE ImportFile(f)
    BY <2>2 DEF TypeOK, ImportFile
  <2>3. CASE InventoryFile(f)
    BY <2>3 DEF TypeOK, InventoryFile
  <2>4. CASE NativeFile(f)
    BY <2>4 DEF TypeOK, NativeFile
  <2>5. CASE NativeCheck(f)
    BY <2>5 DEF TypeOK, NativeCheck
  <2>6. CASE CollectFile(f)
    BY <2>6 DEF TypeOK, CollectFile
  <2>7. CASE CollectAgain(f)
    BY <2>7 DEF TypeOK, CollectAgain
  <2> QED BY <1>4, <2>1, <2>2, <2>3, <2>4, <2>5, <2>6, <2>7 DEF ReadOne
<1>5. CASE GoOn
  <2>1. CASE PlanDone
    BY <2>1 DEF TypeOK, PlanDone
  <2>2. CASE PassDone
    BY <2>2 DEF TypeOK, PassDone
  <2>3. CASE InventoryDone
    BY <2>3 DEF TypeOK, InventoryDone
  <2>4. CASE NativeDone
    BY <2>4 DEF TypeOK, NativeDone
  <2>5. CASE NativeChecked
    BY <2>5 DEF TypeOK, NativeChecked
  <2>6. CASE SkipCodeQL
    BY <2>6 DEF TypeOK, SkipCodeQL
  <2>7. CASE ImportCodeQL
    BY <2>7 DEF TypeOK, ImportCodeQL
  <2>8. CASE PostImport
    BY <2>8 DEF TypeOK, PostImport
  <2>9. CASE ValidateProvenance
    BY <2>9 DEF TypeOK, ValidateProvenance
  <2>10. CASE Publish
    BY <2>10 DEF TypeOK, Publish
  <2> QED BY <1>5, <2>1, <2>2, <2>3, <2>4, <2>5,
    <2>6, <2>7, <2>8, <2>9, <2>10 DEF GoOn
<1>6. CASE Abandon
  BY <1>6 DEF TypeOK, Abandon
<1>7. CASE UNCHANGED vars
  BY <1>7 DEF TypeOK, vars
<1> QED BY <1>1, <1>2, <1>3, <1>4, <1>5, <1>6, <1>7 DEF Next, Rebuild

(* Every plan, inventory, database and graph is a state of the sources, and   *)
(* the passes and failures stay within the bounds of scripts/rebuild_all.sh,  *)
(* files that return to an earlier content included.                         *)
THEOREM TypesHold == Spec => []TypeOK
<1>1. Init => TypeOK
  BY InitIInv DEF IInv
<1>2. TypeOK /\ [Next]_vars => TypeOK'
  BY TypeStep
<1> QED BY <1>1, <1>2, PTL DEF Spec
=============================================================================
