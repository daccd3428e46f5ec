-------------------------- MODULE CorrectionsProofs --------------------------
(* What the replay of reviewed corrections guarantees for any corrections,    *)
(* runs and number of replays.  The invariant is one of the table of          *)
(* statuses: it holds of what a rollback restores as much as of the database, *)
(* except that the run under way may lack the statuses still to come.         *)
EXTENDS Corrections, WellFoundedInduction, TLAPS

Statuses == {"none", "applied", "stale"}

TypeInv ==
  /\ corrections \in [Ids -> Correction]
  /\ application \in [Runs -> [Ids -> Statuses]]
  /\ saved = <<saved[1], saved[2]>>
  /\ saved[2] \in [Runs -> [Ids -> Statuses]]
  /\ runs \subseteq Runs
  /\ pc \in {"off", "run", "apply", "failed", "replayed", "published"}

Recorded(table, r) == {i \in Ids : table[r][i] # "none"}

(* A status is that of a correction of the run, applied only as reviewed, of *)
(* a run whose corrections do not conflict.                                  *)
Sound(table) ==
  \A r \in Runs : \A i \in Recorded(table, r) :
    /\ i \in Applicable(r)
    /\ ~Conflicting(Applicable(r))
    /\ table[r][i] = "applied" => corrections[i].action = "add" \/ corrections[i].fresh

WholeRun(table, r) == Recorded(table, r) = {} \/ Recorded(table, r) = Applicable(r)

TableInv ==
  /\ Sound(application)
  /\ pc # "apply" => \A r \in Runs : WholeRun(application, r)

SavedInv == Sound(saved[2]) /\ \A r \in Runs : WholeRun(saved[2], r)

(* The transaction under way. *)
TransactionInv ==
  pc = "apply" =>
    /\ runs # {}
    /\ todo \subseteq Applicable(Min(runs))
    /\ ~Conflicting(Applicable(Min(runs)))
    /\ Applicable(Min(runs)) \ todo \subseteq Recorded(application, Min(runs))
    /\ \A r \in Runs \ {Min(runs)} : WholeRun(application, r)

IInv == TypeInv /\ TableInv /\ SavedInv /\ TransactionInv

-----------------------------------------------------------------------------
(* The run a transaction is for, and the correction it applies, are some run *)
(* and some correction that is left.                                         *)
LEMMA MinTypes == ASSUME NEW S \in SUBSET Nat, S # {} PROVE Min(S) \in S
  <1> DEFINE R == OpToRel(<, Nat)
  <1>1. IsWellFoundedOn(R, Nat) BY NatLessThanWellFounded
  <1>2. ASSUME NEW m \in Nat, NEW n \in Nat, m < n PROVE <<m, n>> \in R
    BY <1>2, Zenon DEF OpToRel
  <1> HIDE DEF R
  <1>3. PICK x \in S : \A y \in S : <<y, x>> \notin R
    BY <1>1, WFMin
  <1>4. \A y \in S : ~(y < x) BY <1>2, <1>3
  <1>5. \A y \in S : x =< y BY <1>4
  <1> QED BY <1>5 DEF Min

LEMMA FirstRun == ASSUME TypeInv, runs # {} PROVE Min(runs) \in runs /\ Min(runs) \in Runs
  <1>1. runs \subseteq Runs /\ runs \in SUBSET Nat BY RunsAssumption DEF TypeInv
  <1> QED BY <1>1, MinTypes

(* A table all of whose statuses are still to come. *)
LEMMA NothingRecorded ==
  /\ NoApplication \in [Runs -> [Ids -> Statuses]]
  /\ Sound(NoApplication)
  /\ \A r \in Runs : WholeRun(NoApplication, r)
  <1>1. \A r \in Runs : Recorded(NoApplication, r) = {} BY DEF NoApplication, Recorded
  <1> QED BY <1>1 DEF NoApplication, Statuses, Sound, WholeRun

LEMMA InitIInv == Init => IInv
  <1> SUFFICES ASSUME Init PROVE IInv OBVIOUS
  <1>1. application = NoApplication /\ saved = <<reviewed, application>> /\ pc = "run"
    BY DEF Init
  <1>2. TypeInv BY <1>1, NothingRecorded DEF Init, TypeInv
  <1>3. TableInv BY <1>1, NothingRecorded DEF TableInv
  <1>4. SavedInv BY <1>1, NothingRecorded DEF SavedInv
  <1>5. TransactionInv BY <1>1 DEF TransactionInv
  <1> QED BY <1>2, <1>3, <1>4, <1>5 DEF IInv

LEMMA BeginRunStep == ASSUME IInv, BeginRun PROVE IInv'
  <1> USE DEF IInv
  <1>1. /\ pc = "run" /\ runs # {}
        /\ UNCHANGED <<corrections, reviewed, application, runs, replays>>
    BY DEF BeginRun, database
  <1> DEFINE r == Min(runs)
  <1>2. r \in Runs BY <1>1, FirstRun
  <1>3. CASE Conflicting(Applicable(r))
    <2>1. pc' = "failed" /\ UNCHANGED <<saved, todo>> BY <1>3 DEF BeginRun
    <2>2. TypeInv' BY <1>1, <2>1 DEF TypeInv
    <2>3. TableInv' /\ SavedInv'
      BY <1>1, <2>1 DEF TableInv, SavedInv, Sound, Conflicting, Applicable, Recorded, WholeRun
    <2> QED BY <2>1, <2>2, <2>3 DEF TransactionInv
  <1>4. CASE ~Conflicting(Applicable(r))
    <2>1. pc' = "apply" /\ todo' = Applicable(r) /\ saved' = <<reviewed, application>>
      BY <1>4 DEF BeginRun, database
    <2>2. TypeInv' BY <1>1, <2>1 DEF TypeInv
    <2>3. Sound(application) /\ \A s \in Runs : WholeRun(application, s)
      BY <1>1 DEF TableInv
    <2>4. Sound(application)' /\ \A s \in Runs : WholeRun(application, s)'
      BY <1>1, <2>3 DEF Sound, Conflicting, Applicable, Recorded, WholeRun
    <2>5. TableInv' BY <2>1, <2>4 DEF TableInv
    <2>6. SavedInv'
      BY <1>1, <2>1, <2>3 DEF SavedInv, Sound, Conflicting, Applicable, Recorded, WholeRun
    <2>7. TransactionInv'
      BY <1>1, <1>4, <2>1, <2>4 DEF TransactionInv, Conflicting, Applicable
    <2> QED BY <2>2, <2>5, <2>6, <2>7
  <1> QED BY <1>3, <1>4

(* A failure leaves the table the transaction began with. *)
LEMMA RollbackStep ==
  ASSUME IInv, Rollback, pc' = "failed", UNCHANGED <<corrections, saved, runs>>
  PROVE  IInv'
  <1> USE DEF IInv
  <1>1. application' = saved[2] BY DEF Rollback
  <1>2. TypeInv' BY <1>1 DEF TypeInv
  <1>3. SavedInv' BY DEF SavedInv, Sound, Conflicting, Applicable, Recorded, WholeRun
  <1>4. TableInv'
    BY <1>1 DEF TableInv, SavedInv, Sound, Conflicting, Applicable, Recorded, WholeRun
  <1> QED BY <1>2, <1>3, <1>4 DEF TransactionInv

LEMMA ApplyStep == ASSUME IInv, Apply PROVE IInv'
  <1> USE DEF IInv
  <1> DEFINE r == Min(runs)
             i == Min(todo)
             c == corrections[i]
             edge == Applies(c) /\ Materializes(c)
  <1>1. pc = "apply" /\ todo # {} /\ UNCHANGED <<corrections, saved, runs>>
    BY DEF Apply
  <1>2. CASE edge /\ c.endpoint = "missing"
    <2>1. Rollback /\ pc' = "failed" BY <1>2 DEF Apply
    <2> QED BY <1>1, <2>1, RollbackStep
  <1>3. CASE ~(edge /\ c.endpoint = "missing")
    <2>1. /\ application' = [application EXCEPT ![r][i] = StatusOf(c)]
          /\ todo' = todo \ {i} /\ pc' = "apply"
      BY <1>1, <1>3 DEF Apply
    <2>2. /\ r \in Runs /\ runs # {} /\ todo \subseteq Applicable(r)
          /\ ~Conflicting(Applicable(r))
      BY <1>1, FirstRun DEF TransactionInv
    <2>3. i \in todo /\ i \in Applicable(r) /\ i \in Ids
      <3>1. todo \in SUBSET Nat BY <2>2, IdsAssumption DEF Applicable
      <3> QED BY <1>1, <2>2, <3>1, MinTypes DEF Applicable
    <2>4. /\ StatusOf(c) \in Statuses /\ StatusOf(c) # "none"
          /\ StatusOf(c) = "applied" => c.action = "add" \/ c.fresh
      BY DEF StatusOf, Applies, Statuses
    <2> HIDE DEF r, i
    <2>5. /\ application'[r][i] = StatusOf(c)
          /\ \A j \in Ids \ {i} : application'[r][j] = application[r][j]
          /\ \A s \in Runs \ {r} : application'[s] = application[s]
          /\ application' \in [Runs -> [Ids -> Statuses]]
      BY <2>1, <2>2, <2>3, <2>4 DEF TypeInv
    <2>6. TypeInv' BY <1>1, <2>1, <2>5 DEF TypeInv
    <2>7. SavedInv' BY <1>1 DEF SavedInv, Sound, Conflicting, Applicable, Recorded, WholeRun
    <2>8. Recorded(application', r) = Recorded(application, r) \cup {i}
      BY <2>3, <2>4, <2>5 DEF Recorded
    <2>9. \A s \in Runs \ {r} : Recorded(application', s) = Recorded(application, s)
      BY <2>5 DEF Recorded
    <2>10. Sound(application')
      <3> SUFFICES ASSUME NEW s \in Runs, NEW j \in Recorded(application', s)
                   PROVE  /\ j \in Applicable(s) /\ ~Conflicting(Applicable(s))
                          /\ application'[s][j] = "applied" =>
                               corrections[j].action = "add" \/ corrections[j].fresh
        BY DEF Sound
      <3>1. CASE s = r /\ j = i BY <2>2, <2>3, <2>4, <2>5, <3>1
      <3>2. CASE s # r
        BY <2>5, <2>9, <3>2 DEF TableInv, Sound
      <3>3. CASE s = r /\ j # i
        <4>1. j \in Recorded(application, r) /\ j \in Ids BY <2>8, <3>3 DEF Recorded
        <4> QED BY <2>2, <2>5, <3>3, <4>1 DEF TableInv, Sound
      <3> QED BY <3>1, <3>2, <3>3
    <2>11. TableInv'
      BY <1>1, <2>1, <2>10 DEF TableInv, Sound, Conflicting, Applicable, Recorded
    <2>12. \A s \in Runs \ {r} : WholeRun(application', s)
      BY <1>1, <2>9 DEF TransactionInv, WholeRun, r
    <2>13. Applicable(r) \ todo' \subseteq Recorded(application', r)
      BY <1>1, <2>1, <2>8 DEF TransactionInv, r
    <2>14. Min(runs') = r BY <1>1 DEF r
    <2>15. TransactionInv'
      BY <1>1, <2>1, <2>2, <2>12, <2>13, <2>14
      DEF TransactionInv, Conflicting, Applicable, WholeRun, Recorded
    <2> QED BY <2>6, <2>7, <2>11, <2>15
  <1> QED BY <1>2, <1>3

LEMMA CommitRunStep == ASSUME IInv, CommitRun PROVE IInv'
  <1> USE DEF IInv
  <1>1. /\ pc = "apply" /\ todo = {} /\ pc' = "run"
        /\ saved' = <<reviewed, application>> /\ runs' \subseteq runs
        /\ UNCHANGED <<corrections, reviewed, application>>
    BY DEF CommitRun, database
  <1> DEFINE r == Min(runs)
  <1>2. r \in Runs BY <1>1, FirstRun DEF TransactionInv
  <1>3. Recorded(application, r) = Applicable(r)
    <2>1. Applicable(r) \subseteq Recorded(application, r)
      BY <1>1 DEF TransactionInv
    <2>2. Recorded(application, r) \subseteq Applicable(r)
      BY <1>2 DEF TableInv, Sound
    <2> QED BY <2>1, <2>2
  <1>4. Sound(application) /\ \A s \in Runs : WholeRun(application, s)
    BY <1>1, <1>3 DEF TableInv, TransactionInv, WholeRun
  <1>5. TypeInv' BY <1>1 DEF TypeInv
  <1>6. TableInv'
    BY <1>1, <1>4 DEF TableInv, Sound, Conflicting, Applicable, Recorded, WholeRun
  <1>7. SavedInv'
    BY <1>1, <1>4 DEF SavedInv, Sound, Conflicting, Applicable, Recorded, WholeRun
  <1> QED BY <1>1, <1>5, <1>6, <1>7 DEF TransactionInv

(* Steps outside a transaction that leave the database alone. *)
LEMMA OutsideStep ==
  ASSUME IInv, pc # "apply", pc' \in {"run", "failed", "replayed", "published"},
         runs' \subseteq Runs, UNCHANGED <<corrections, database, saved>>
  PROVE  IInv'
  <1> USE DEF IInv, database
  <1>1. TypeInv' BY DEF TypeInv
  <1>2. TableInv' BY DEF TableInv, Sound, Conflicting, Applicable, Recorded, WholeRun
  <1>3. SavedInv' BY DEF SavedInv, Sound, Conflicting, Applicable, Recorded, WholeRun
  <1> QED BY <1>1, <1>2, <1>3 DEF TransactionInv

LEMMA NextStep == IInv /\ [Next]_vars => IInv'
  <1> SUFFICES ASSUME IInv, [Next]_vars PROVE IInv' OBVIOUS
  <1>1. runs \subseteq Runs BY DEF IInv, TypeInv
  <1>2. CASE BeginRun BY <1>2, BeginRunStep
  <1>3. CASE Apply BY <1>3, ApplyStep
  <1>4. CASE TransactionFails BY <1>4, RollbackStep DEF TransactionFails
  <1>5. CASE CommitRun BY <1>5, CommitRunStep
  <1>6. CASE ReplayDone BY <1>1, <1>6, OutsideStep DEF ReplayDone
  <1>7. CASE ReplayAgain BY <1>7, OutsideStep DEF ReplayAgain
  <1>8. CASE Validate BY <1>1, <1>8, OutsideStep DEF Validate
  <1>9. CASE UNCHANGED vars
    <2>1. UNCHANGED <<corrections, application, saved, runs, todo, pc>>
      BY <1>9 DEF vars, database
    <2> USE <2>1 DEF IInv, Sound, Conflicting, Applicable, Recorded, WholeRun
    <2>2. TypeInv' BY DEF TypeInv
    <2>3. TableInv' BY DEF TableInv
    <2>4. SavedInv' BY DEF SavedInv
    <2>5. TransactionInv' BY DEF TransactionInv
    <2> QED BY <2>2, <2>3, <2>4, <2>5
  <1> QED BY <1>2, <1>3, <1>4, <1>5, <1>6, <1>7, <1>8, <1>9 DEF Next

(* Every part of the invariant holds throughout apply_corrections for each    *)
(* run, the failures of its transactions, the strict gate and the replays.   *)
THEOREM CorrectionsInvariant == Spec => []IInv
  BY InitIInv, NextStep, PTL DEF Spec

-----------------------------------------------------------------------------
(* A correction is applied only to the content its reviewer saw (the hash    *)
(* comparison of _target, through any sequence of replays and failures).     *)
THEOREM AppliedAsReviewed == Spec => []OnlyReviewedContent
  <1>1. IInv => OnlyReviewedContent
    BY DEF IInv, TableInv, Sound, Recorded, OnlyReviewedContent, Applied
  <1> QED BY <1>1, CorrectionsInvariant, PTL

(* Two corrections of one run never hide the same fact: validate_corrections *)
(* refuses the run before anything of it is applied.                         *)
THEOREM OneEffect == Spec => []OneEffectPerRun
  <1>1. ASSUME IInv, NEW r \in Runs, NEW i \in Ids, NEW j \in Ids, i # j,
               application[r][i] = "applied", application[r][j] = "applied",
               corrections[i].target = corrections[j].target
        PROVE  {corrections[i].action, corrections[j].action} \cap {"annotate", "add"} # {}
    <2>1. /\ i \in Applicable(r) /\ j \in Applicable(r) /\ ~Conflicting(Applicable(r))
      BY <1>1 DEF IInv, TableInv, Sound, Recorded
    <2>2. corrections[i].action \notin Effective \/ corrections[j].action \notin Effective
      BY <1>1, <2>1 DEF Conflicting
    <2>3. corrections[i] \in Correction /\ corrections[j] \in Correction
      BY <1>1 DEF IInv, TypeInv
    <2>4. \A c \in Correction : c.action \in Effective \cup {"annotate", "add"}
      BY DEF Correction, Targets, Effective
    <2> QED BY <2>2, <2>3, <2>4
  <1>2. IInv => OneEffectPerRun BY <1>1 DEF OneEffectPerRun
  <1> QED BY <1>2, CorrectionsInvariant, PTL

(* Outside its transaction a run has a status for all of its corrections or  *)
(* for none (BEGIN, COMMIT and ROLLBACK in apply_corrections, and the kill). *)
THEOREM WholeRuns == Spec => []RunAllOrNothing
  <1>1. IInv => RunAllOrNothing
    BY DEF IInv, TableInv, WholeRun, Recorded, RunAllOrNothing
  <1> QED BY <1>1, CorrectionsInvariant, PTL

-----------------------------------------------------------------------------
(* Chains of corrections that replace what others have made, for any number   *)
(* of corrections, runs and replays.  A correction may target the edge that   *)
(* another one materialized, so the order in which they are applied matters:  *)
(* the invariant says that the edge was there before anything was applied to  *)
(* it, of the database and of what a rollback restores alike.                 *)

AppliedIn(table, i) == \E r \in Runs : table[r][i] = "applied"

ExistsIn(fact, made) ==
  fact \in {Edge(e) : e \in Edges} \cup NodeFacts \/ \E i \in made : fact = Reviewed(i)

AppliesIn(c, made) == c.action = "add" \/ (ExistsIn(c.target, made) /\ c.fresh)

Replacing == {"replace", "replace_binding", "promote_candidate"}

(* The corrections of a table that hide what another one materialized. *)
HidingReviewed(table, i) ==
  {j \in Ids : /\ AppliedIn(table, j) /\ corrections[j].target = Reviewed(i)
               /\ corrections[j].action \in {"suppress", "replace", "replace_binding"}}

(* The edges made are those of the applied corrections that make one. *)
MadeInv(table, made) ==
  \A i \in Ids : i \in made <=> AppliedIn(table, i) /\ corrections[i].action \in Materializing

(* What is applied would be applied again. *)
SupportedInv(table, made) ==
  \A i \in Ids : AppliedIn(table, i) => AppliesIn(corrections[i], made)

(* Whatever set of replacements is looked at, one is hidden by none of them. *)
ChainsEnd(table) ==
  \A chain \in SUBSET Ids :
    (chain # {} /\ \A i \in chain : AppliedIn(table, i) /\ corrections[i].action \in Replacing)
      => \E i \in chain : HidingReviewed(table, i) \cap chain = {}

Consistent(table, made) ==
  made \subseteq Ids /\ MadeInv(table, made) /\ SupportedInv(table, made) /\ ChainsEnd(table)

(* A transaction only adds to what it began with. *)
AddsInv ==
  pc = "apply" =>
    \A r \in Runs, i \in Ids : saved[2][r][i] = "applied" => application[r][i] = "applied"

(* The runs that are done have a status for each of their corrections. *)
DoneInv ==
  /\ \A r \in Runs \ runs : Applicable(r) \subseteq Recorded(application, r)
  /\ \A r \in Runs \ runs : Applicable(r) \subseteq Recorded(saved[2], r)
  /\ pc \in {"replayed", "published"} => runs = {}
  /\ pc = "published" /\ strict => ~Gaps

CInv ==
  /\ Consistent(application, reviewed)
  /\ Consistent(saved[2], saved[1])
  /\ AddsInv /\ DoneInv

-----------------------------------------------------------------------------
LEMMA ReviewedDistinct ==
  /\ \A i, j : Reviewed(i) = Reviewed(j) => i = j
  /\ \A i : Reviewed(i) \notin {Edge(e) : e \in Edges} \cup NodeFacts
  BY DEF Reviewed, Edge, Candidate, NodeFacts

(* What is applied to a reviewed edge needs the edge. *)
LEMMA AppliedNeedsEdge ==
  ASSUME NEW c, NEW made, NEW i, AppliesIn(c, made), c.action # "add",
         c.target = Reviewed(i)
  PROVE  i \in made
  BY ReviewedDistinct DEF AppliesIn, ExistsIn

LEMMA NothingConsistent == Consistent(NoApplication, {})
  <1>1. \A i \in Ids : ~AppliedIn(NoApplication, i) BY DEF AppliedIn, NoApplication
  <1> QED BY <1>1 DEF Consistent, MadeInv, SupportedInv, ChainsEnd

LEMMA InitCInv == Init => CInv
  <1> SUFFICES ASSUME Init PROVE CInv OBVIOUS
  <1>1. /\ application = NoApplication /\ reviewed = {} /\ pc = "run" /\ runs = Runs
        /\ saved = <<reviewed, application>>
    BY DEF Init
  <1>2. Consistent(application, reviewed) /\ Consistent(saved[2], saved[1])
    BY <1>1, NothingConsistent
  <1>3. AddsInv /\ DoneInv BY <1>1 DEF AddsInv, DoneInv
  <1> QED BY <1>2, <1>3 DEF CInv

(* A table with the same applied corrections is as consistent. *)
LEMMA SameApplied ==
  ASSUME NEW table, NEW other, NEW made, Consistent(table, made),
         \A i \in Ids : AppliedIn(other, i) <=> AppliedIn(table, i)
  PROVE  Consistent(other, made)
  <1>1. \A i \in Ids : HidingReviewed(other, i) = HidingReviewed(table, i)
    BY DEF HidingReviewed
  <1>2. ChainsEnd(other)
    <2> SUFFICES ASSUME NEW chain \in SUBSET Ids, chain # {},
                        \A i \in chain : AppliedIn(other, i) /\ corrections[i].action \in Replacing
                 PROVE  \E i \in chain : HidingReviewed(other, i) \cap chain = {}
      BY DEF ChainsEnd
    <2>1. \A i \in chain : AppliedIn(table, i) OBVIOUS
    <2>2. \E i \in chain : HidingReviewed(table, i) \cap chain = {}
      BY <2>1 DEF Consistent, ChainsEnd
    <2> QED BY <1>1, <2>2
  <1> QED BY <1>2 DEF Consistent, MadeInv, SupportedInv

(* One more correction is applied: nothing can have hidden its edge before,  *)
(* so that it ends every chain it is in.                                     *)
LEMMA OneMoreApplied ==
  ASSUME NEW table, NEW other, NEW made, NEW more, NEW i \in Ids, Consistent(table, made),
         ~AppliedIn(table, i), AppliesIn(corrections[i], made),
         \A j \in Ids : AppliedIn(other, j) <=> AppliedIn(table, j) \/ j = i,
         more = made \cup IF corrections[i].action \in Materializing THEN {i} ELSE {}
  PROVE  Consistent(other, more)
  <1>1. i \notin made BY DEF Consistent, MadeInv
  <1>2. more \subseteq Ids /\ made \subseteq more BY DEF Consistent
  <1>3. MadeInv(other, more) BY <1>1 DEF Consistent, MadeInv
  <1>4. SupportedInv(other, more)
    <2>1. \A c : AppliesIn(c, made) => AppliesIn(c, more)
      BY <1>2 DEF AppliesIn, ExistsIn
    <2> QED BY <2>1 DEF Consistent, SupportedInv
  <1>5. HidingReviewed(other, i) = {}
    <2> SUFFICES ASSUME NEW j \in Ids, AppliedIn(other, j),
                        corrections[j].target = Reviewed(i), corrections[j].action # "add"
                 PROVE  FALSE
      BY DEF HidingReviewed
    <2>1. AppliesIn(corrections[j], made) BY DEF Consistent, SupportedInv
    <2> QED BY <1>1, <2>1, AppliedNeedsEdge
  <1>6. ChainsEnd(other)
    <2> SUFFICES ASSUME NEW chain \in SUBSET Ids, chain # {},
                        \A j \in chain : AppliedIn(other, j) /\ corrections[j].action \in Replacing
                 PROVE  \E j \in chain : HidingReviewed(other, j) \cap chain = {}
      BY DEF ChainsEnd
    <2>1. CASE i \in chain BY <1>5, <2>1
    <2>2. CASE i \notin chain
      <3>1. \A j \in chain : AppliedIn(table, j) BY <2>2
      <3>2. PICK j \in chain : HidingReviewed(table, j) \cap chain = {}
        BY <3>1 DEF Consistent, ChainsEnd
      <3>3. HidingReviewed(other, j) \cap chain \subseteq HidingReviewed(table, j) \cap chain
        BY <2>2 DEF HidingReviewed
      <3> QED BY <3>2, <3>3
    <2> QED BY <2>1, <2>2
  <1> QED BY <1>2, <1>3, <1>4, <1>6 DEF Consistent

(* What is said of the next tables, said of the next state. *)
LEMMA NextTables ==
  ASSUME UNCHANGED corrections
  PROVE  /\ Consistent(application', reviewed') => Consistent(application, reviewed)'
         /\ Consistent(saved'[2], saved'[1]) => Consistent(saved[2], saved[1])'
  <1>1. ASSUME Consistent(application', reviewed') PROVE Consistent(application, reviewed)'
    <2>1. MadeInv(application, reviewed)'
      BY <1>1 DEF Consistent, MadeInv, AppliedIn
    <2>2. SupportedInv(application, reviewed)'
      BY <1>1 DEF Consistent, SupportedInv, AppliedIn, AppliesIn, ExistsIn
    <2>3. \A i : HidingReviewed(application, i)' = HidingReviewed(application', i)
      BY DEF HidingReviewed, AppliedIn
    <2>4. \A i : AppliedIn(application, i)' <=> AppliedIn(application', i)
      BY DEF AppliedIn
    <2>5. ChainsEnd(application)'
      BY <1>1, <2>3, <2>4 DEF Consistent, ChainsEnd
    <2> QED BY <1>1, <2>1, <2>2, <2>5 DEF Consistent
  <1>2. ASSUME Consistent(saved'[2], saved'[1]) PROVE Consistent(saved[2], saved[1])'
    <2>1. MadeInv(saved[2], saved[1])'
      BY <1>2 DEF Consistent, MadeInv, AppliedIn
    <2>2. SupportedInv(saved[2], saved[1])'
      BY <1>2 DEF Consistent, SupportedInv, AppliedIn, AppliesIn, ExistsIn
    <2>3. \A i : HidingReviewed(saved[2], i)' = HidingReviewed(saved'[2], i)
      BY DEF HidingReviewed, AppliedIn
    <2>4. \A i : AppliedIn(saved[2], i)' <=> AppliedIn(saved'[2], i)
      BY DEF AppliedIn
    <2>5. ChainsEnd(saved[2])'
      BY <1>2, <2>3, <2>4 DEF Consistent, ChainsEnd
    <2> QED BY <1>2, <2>1, <2>2, <2>5 DEF Consistent
  <1> QED BY <1>1, <1>2

LEMMA BeginRunChains == ASSUME IInv, CInv, BeginRun PROVE CInv'
  <1> USE DEF CInv
  <1>1. /\ pc = "run" /\ runs # {} /\ pc' \in {"failed", "apply"}
        /\ UNCHANGED <<corrections, reviewed, application, runs>>
        /\ saved' = saved \/ saved' = <<reviewed, application>>
    BY DEF BeginRun, database
  <1>2. Consistent(application, reviewed)' /\ Consistent(saved[2], saved[1])'
    <2>1. Consistent(application', reviewed') BY <1>1
    <2>2. Consistent(saved'[2], saved'[1]) BY <1>1
    <2> QED BY <1>1, <2>1, <2>2, NextTables
  <1>3. AddsInv'
    <2>1. pc' = "apply" => saved' = <<reviewed, application>> BY DEF BeginRun, database
    <2> QED BY <1>1, <2>1 DEF AddsInv
  <1>4. DoneInv' BY <1>1 DEF DoneInv, Applicable, Recorded
  <1> QED BY <1>2, <1>3, <1>4

LEMMA RollbackChains ==
  ASSUME CInv, Rollback, pc' = "failed", UNCHANGED <<corrections, saved, runs>>
  PROVE  CInv'
  <1> USE DEF CInv
  <1>1. application' = saved[2] /\ reviewed' = saved[1] BY DEF Rollback
  <1>2. Consistent(application, reviewed)' /\ Consistent(saved[2], saved[1])'
    BY <1>1, NextTables
  <1>3. AddsInv' BY DEF AddsInv
  <1>4. DoneInv' BY <1>1 DEF DoneInv, Applicable, Recorded
  <1> QED BY <1>2, <1>3, <1>4

LEMMA ApplyChains == ASSUME IInv, CInv, Apply PROVE CInv'
  <1> USE DEF CInv
  <1> DEFINE r == Min(runs)
             i == Min(todo)
             c == corrections[i]
             edge == Applies(c) /\ Materializes(c)
  <1>1. pc = "apply" /\ todo # {} /\ UNCHANGED <<corrections, saved, runs>>
    BY DEF Apply
  <1>2. CASE edge /\ c.endpoint = "missing"
    <2>1. Rollback /\ pc' = "failed" BY <1>2 DEF Apply
    <2> QED BY <1>1, <2>1, RollbackChains
  <1>3. CASE ~(edge /\ c.endpoint = "missing")
    <2>1. /\ application' = [application EXCEPT ![r][i] = StatusOf(c)]
          /\ reviewed' = reviewed \cup IF edge THEN {i} ELSE {}
          /\ pc' = "apply"
      BY <1>1, <1>3 DEF Apply
    <2>2. r \in Runs /\ runs # {} /\ todo \subseteq Applicable(r) /\ r \in runs
      BY <1>1, FirstRun DEF IInv, TransactionInv
    <2>3. i \in Ids
      <3>1. todo \in SUBSET Nat BY <2>2, IdsAssumption DEF Applicable
      <3> QED BY <1>1, <2>2, <3>1, MinTypes DEF Applicable
    <2>4. Applies(c) <=> AppliesIn(c, reviewed)
      <3>1. reviewed \subseteq Ids BY DEF Consistent
      <3> QED BY <3>1 DEF Applies, AppliesIn, Exists, ExistsIn
    <2>5. /\ StatusOf(c) = "applied" <=> AppliesIn(c, reviewed)
          /\ StatusOf(c) # "none"
      BY <2>4 DEF StatusOf
    <2>6. edge <=> AppliesIn(c, reviewed) /\ c.action \in Materializing
      BY <2>4 DEF Materializes
    <2> HIDE DEF r, i
    <2>7. /\ application'[r][i] = StatusOf(c)
          /\ \A j \in Ids \ {i} : application'[r][j] = application[r][j]
          /\ \A s \in Runs \ {r} : application'[s] = application[s]
      BY <2>1, <2>2, <2>3 DEF IInv, TypeInv
    <2>8. AppliedIn(application, i) => AppliesIn(c, reviewed)
      BY <2>3 DEF Consistent, SupportedInv
    <2>9. \A j \in Ids \ {i} : AppliedIn(application', j) <=> AppliedIn(application, j)
      BY <2>2, <2>7 DEF AppliedIn
    <2>10. AppliedIn(application', i) <=> AppliesIn(c, reviewed)
      BY <2>2, <2>3, <2>5, <2>7, <2>8 DEF AppliedIn
    <2>11. Consistent(application', reviewed')
      <3>1. CASE AppliedIn(application, i) \/ ~AppliesIn(c, reviewed)
        <4>1. \A j \in Ids : AppliedIn(application', j) <=> AppliedIn(application, j)
          BY <2>8, <2>9, <2>10, <3>1
        <4>2. edge => i \in reviewed
          BY <2>3, <2>6, <3>1 DEF Consistent, MadeInv
        <4>3. reviewed' = reviewed BY <2>1, <4>2
        <4> QED BY <4>1, <4>3, SameApplied
      <3>2. CASE ~AppliedIn(application, i) /\ AppliesIn(c, reviewed)
        <4>1. \A j \in Ids : AppliedIn(application', j) <=> AppliedIn(application, j) \/ j = i
          BY <2>9, <2>10, <3>2
        <4>2. reviewed' = reviewed \cup IF c.action \in Materializing THEN {i} ELSE {}
          BY <2>1, <2>6, <3>2
        <4> QED BY <2>3, <3>2, <4>1, <4>2, OneMoreApplied
      <3> QED BY <3>1, <3>2
    <2>12. Consistent(application, reviewed)' /\ Consistent(saved[2], saved[1])'
      BY <1>1, <2>11, NextTables
    <2>13. AddsInv'
      <3> SUFFICES ASSUME NEW s \in Runs, NEW j \in Ids, saved[2][s][j] = "applied"
                   PROVE  application'[s][j] = "applied"
        BY <1>1 DEF AddsInv
      <3>1. application[s][j] = "applied" BY <1>1 DEF AddsInv
      <3>2. CASE s = r /\ j = i
        <4>1. AppliedIn(application, i) BY <2>2, <3>1, <3>2 DEF AppliedIn
        <4> QED BY <2>5, <2>7, <2>8, <3>2, <4>1
      <3>3. CASE ~(s = r /\ j = i) BY <2>7, <3>1, <3>3
      <3> QED BY <3>2, <3>3
    <2>14. DoneInv'
      <3>1. \A s \in Runs \ runs : Recorded(application', s) = Recorded(application, s)
        BY <2>2, <2>7 DEF Recorded
      <3> QED BY <1>1, <2>1, <3>1 DEF DoneInv, Applicable, Recorded
    <2> QED BY <2>12, <2>13, <2>14
  <1> QED BY <1>2, <1>3

LEMMA CommitRunChains == ASSUME IInv, CInv, CommitRun PROVE CInv'
  <1> USE DEF CInv
  <1>1. /\ pc = "apply" /\ todo = {} /\ pc' = "run"
        /\ saved' = <<reviewed, application>> /\ runs' = runs \ {Min(runs)}
        /\ UNCHANGED <<corrections, reviewed, application>>
    BY DEF CommitRun, database
  <1>2. Consistent(application, reviewed)' /\ Consistent(saved[2], saved[1])'
    <2>1. Consistent(application', reviewed') /\ Consistent(saved'[2], saved'[1]) BY <1>1
    <2> QED BY <1>1, <2>1, NextTables
  <1>3. Applicable(Min(runs)) \subseteq Recorded(application, Min(runs))
    BY <1>1 DEF IInv, TransactionInv
  <1>4. AddsInv' BY <1>1 DEF AddsInv
  <1>5. DoneInv' BY <1>1, <1>3 DEF DoneInv, Applicable, Recorded
  <1> QED BY <1>2, <1>4, <1>5

LEMMA OutsideChains ==
  ASSUME CInv, UNCHANGED <<corrections, strict, database, saved>>,
         ReplayDone \/ ReplayAgain \/ Validate
  PROVE  CInv'
  <1> USE DEF CInv
  <1>1. /\ pc' \in {"replayed", "run", "failed", "published"}
        /\ UNCHANGED <<reviewed, application>>
    BY DEF ReplayDone, ReplayAgain, Validate, database
  <1>2. Consistent(application, reviewed)' /\ Consistent(saved[2], saved[1])'
    BY <1>1, NextTables
  <1>3. AddsInv' BY <1>1 DEF AddsInv
  <1>4. DoneInv'
    BY <1>1 DEF DoneInv, Applicable, Recorded, Gaps, ReplayDone, ReplayAgain, Validate
  <1> QED BY <1>2, <1>3, <1>4

LEMMA NextChains == ASSUME IInv, CInv, [Next]_vars PROVE CInv'
  <1>1. CASE BeginRun BY <1>1, BeginRunChains
  <1>2. CASE Apply BY <1>2, ApplyChains
  <1>3. CASE TransactionFails BY <1>3, RollbackChains DEF TransactionFails
  <1>4. CASE CommitRun BY <1>4, CommitRunChains
  <1>5. CASE ReplayDone BY <1>5, OutsideChains DEF ReplayDone
  <1>6. CASE ReplayAgain BY <1>6, OutsideChains DEF ReplayAgain
  <1>7. CASE Validate BY <1>7, OutsideChains DEF Validate
  <1>8. CASE UNCHANGED vars
    <2>1. UNCHANGED <<corrections, strict, application, reviewed, saved, runs, todo, pc>>
      BY <1>8 DEF vars, database
    <2>2. Consistent(application, reviewed)' /\ Consistent(saved[2], saved[1])'
      BY <2>1, NextTables DEF CInv
    <2>3. AddsInv' BY <2>1 DEF CInv, AddsInv
    <2>4. DoneInv' BY <2>1 DEF CInv, DoneInv, Applicable, Recorded, Gaps
    <2> QED BY <2>2, <2>3, <2>4 DEF CInv
  <1> QED BY <1>1, <1>2, <1>3, <1>4, <1>5, <1>6, <1>7, <1>8 DEF Next

(* Every part of the invariant about chains holds throughout the replays.     *)
THEOREM ChainsInvariant == Spec => []CInv
  <1>1. IInv /\ CInv /\ [Next]_vars => CInv' BY NextChains
  <1> QED BY <1>1, InitCInv, CorrectionsInvariant, PTL DEF Spec

-----------------------------------------------------------------------------
(* However corrections replace what others made, in any order of runs and    *)
(* replays, every chain of replacements ends in a reviewed edge that is in   *)
(* the database and that none of them hides (_apply_one, the effective       *)
(* views).                                                                   *)
THEOREM SuccessorKept == Spec => []ReplacedFactHasSuccessor
  <1>1. ASSUME CInv, NEW chain \in (SUBSET Replacements) \ {{}}
        PROVE  \E i \in chain : i \in reviewed /\ Hiding(Reviewed(i)) \cap chain = {}
    <2>1. /\ chain \in SUBSET Ids /\ chain # {}
          /\ \A i \in chain : Applied(i) /\ corrections[i].action \in Replacing
      BY <1>1 DEF Replacements, Replacing
    <2>2. \A i \in Ids : AppliedIn(application, i) <=> Applied(i)
      BY DEF AppliedIn, Applied
    <2>3. PICK i \in chain : HidingReviewed(application, i) \cap chain = {}
      BY <1>1, <2>1, <2>2 DEF CInv, Consistent, ChainsEnd
    <2>4. i \in reviewed
      BY <1>1, <2>1, <2>2 DEF CInv, Consistent, MadeInv, Replacing, Materializing
    <2>5. Hiding(Reviewed(i)) \subseteq HidingReviewed(application, i)
      BY <2>2, ReviewedDistinct DEF Hiding, HidingReviewed
    <2> QED BY <2>3, <2>4, <2>5
  <1>2. CInv => ReplacedFactHasSuccessor BY <1>1 DEF ReplacedFactHasSuccessor
  <1> QED BY <1>2, ChainsInvariant, PTL

(* Neither a later run, nor a failure, nor a replay takes a committed        *)
(* correction back: what was applied once would be applied again.            *)
THEOREM CommittedStays == Spec => CorrectionsStay
  <1> DEFINE Stay == LET was == Committed[2] now == Committed'[2] IN
               \A r \in Runs, i \in Ids : was[r][i] = "applied" => now[r][i] = "applied"
  <1>1. ASSUME IInv, CInv, Next PROVE Stay
    <2>1. Committed = IF pc = "apply" THEN saved ELSE <<reviewed, application>>
      BY DEF Committed, database
    <2>2. Committed' = IF pc' = "apply" THEN saved' ELSE <<reviewed', application'>>
      BY DEF Committed, database
    <2>3. CASE BeginRun BY <2>1, <2>2, <2>3 DEF BeginRun, database
    <2>4. CASE Apply BY <2>1, <2>2, <2>4 DEF Apply, Rollback
    <2>5. CASE TransactionFails BY <2>1, <2>2, <2>5 DEF TransactionFails, Rollback
    <2>6. CASE CommitRun BY <1>1, <2>1, <2>2, <2>6 DEF CommitRun, database, CInv, AddsInv
    <2>7. CASE ReplayDone \/ ReplayAgain \/ Validate
      BY <2>1, <2>2, <2>7 DEF ReplayDone, ReplayAgain, Validate, database
    <2> QED BY <1>1, <2>3, <2>4, <2>5, <2>6, <2>7 DEF Next
  <1>2. IInv /\ CInv /\ [Next]_vars => [Stay]_vars BY <1>1
  <1>3. Spec => [][Stay]_vars
    BY <1>2, CorrectionsInvariant, ChainsInvariant, PTL DEF Spec
  <1> QED BY <1>3 DEF CorrectionsStay

(* The strict gate publishes no correction whose content has changed since   *)
(* it was reviewed (_correction_gaps sees each run's statuses).              *)
THEOREM NothingStale == Spec => []NoStalePublished
  <1>1. ASSUME IInv, CInv, pc = "published", strict, NEW i \in Ids,
               corrections[i].revision \in Runs, corrections[i].action # "add"
        PROVE  corrections[i].fresh
    <2> DEFINE r == corrections[i].revision
    <2>1. i \in Applicable(r) BY DEF Applicable
    <2>2. i \in Recorded(application, r) BY <1>1, <2>1 DEF CInv, DoneInv
    <2>3. application[r][i] = "applied"
      BY <1>1, <2>2 DEF CInv, DoneInv, Gaps, Recorded
    <2>4. corrections[i].action = "add" \/ corrections[i].fresh
      BY <1>1, <2>2, <2>3 DEF IInv, TableInv, Sound
    <2> QED BY <1>1, <2>4
  <1>2. IInv /\ CInv => NoStalePublished BY <1>1 DEF NoStalePublished
  <1> QED BY <1>2, CorrectionsInvariant, ChainsInvariant, PTL
=============================================================================
