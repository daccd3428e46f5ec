---------------------------- MODULE Corrections ----------------------------
(* Reviewed corrections of extracted facts: correction_replay.py applies     *)
(* them run by run, collectors/codeql/corrections.py within one run, in one  *)
(* transaction, in the order of their ids; the views of migration 0004 hide  *)
(* the facts they replace; call_dataflow_validation.py is the strict gate.   *)
(*                                                                           *)
(* A fact is an extracted edge, a candidate node, or the edge a correction   *)
(* has materialized.  A content hash is represented by whether it is the one *)
(* the reviewer saw, a source revision by the run that has it, 0 for none.   *)
EXTENDS Integers, FiniteSets, FiniteSetsExt

CONSTANTS
  Ids,         \* the correction ids, numbers: their order is the order applied
  Runs,        \* the extraction runs, in the order of their ids
  Edges,       \* extracted edges
  Candidates,  \* EXTRACTION_CANDIDATE nodes
  Revisions,   \* revisions a correction may name: runs, and 0
  Hashes,      \* subset of BOOLEAN: is the expected hash the target's?
  Endpoints,   \* what a replacement's endpoints may be
  MaxReplays   \* bound on the replays of one database

ASSUME IdsAssumption == Ids \subseteq Nat /\ IsFiniteSet(Ids)
ASSUME RunsAssumption == Runs \subseteq Nat \ {0} /\ IsFiniteSet(Runs)
ASSUME RevisionsAssumption == Revisions \subseteq Runs \cup {0}
ASSUME HashesAssumption == Hashes \subseteq BOOLEAN
ASSUME EndpointsAssumption == Endpoints \subseteq {"node", "missing"}
ASSUME MaxReplaysAssumption == MaxReplays \in Nat

Edge(e) == <<"edge", e>>
Candidate(c) == <<"node", c>>
Reviewed(i) == <<"reviewed", i>>        \* edge:<digest of "<id>:reviewed">
External == <<"external", 0>>
EdgeFacts == {Edge(e) : e \in Edges} \cup {Reviewed(i) : i \in Ids}
NodeFacts == {Candidate(c) : c \in Candidates}

Materializing == {"replace", "add", "promote_candidate", "replace_binding"}
Effective == {"suppress", "replace", "promote_candidate", "suppress_candidate",
              "replace_binding"}

(* What parse_correction accepts: the targets of each action. *)
Targets == [suppress |-> EdgeFacts \cup NodeFacts,
            replace |-> EdgeFacts \cup NodeFacts,
            annotate |-> EdgeFacts \cup NodeFacts,
            add |-> {External},
            promote_candidate |-> NodeFacts,
            suppress_candidate |-> NodeFacts,
            replace_binding |-> EdgeFacts]

(* endpoint tells apart replacements only: the others keep the first choice. *)
Correction ==
  {c \in [action : DOMAIN Targets, target : EdgeFacts \cup NodeFacts \cup {External},
          revision : Revisions, fresh : Hashes, endpoint : Endpoints] :
     /\ c.target \in Targets[c.action]
     /\ c.action \notin Materializing => c.endpoint = "node"}

VARIABLES
  corrections,  \* the corrections of config/corrections, by id
  strict,       \* --require-aosp-evidence
  reviewed,     \* the corrections whose edge is in the database
  application,  \* correction_application: the status by run and correction
  saved,        \* what a ROLLBACK restores
  pc,           \* where the build is
  runs,         \* the runs the replay has still to visit
  todo,         \* the corrections the transaction has still to apply
  replays       \* replays begun

vars == <<corrections, strict, reviewed, application, saved, pc, runs, todo,
          replays>>
database == <<reviewed, application>>

NoApplication == [r \in Runs |-> [i \in Ids |-> "none"]]

Init ==
  /\ corrections \in [Ids -> Correction]
  /\ strict \in BOOLEAN
  /\ reviewed = {}
  /\ application = NoApplication
  /\ saved = <<reviewed, application>>
  /\ pc = "run"
  /\ runs = Runs
  /\ todo = {}
  /\ replays = 1

(* What the variables are while the module takes no part. *)
Off ==
  /\ corrections = <<>> /\ strict = FALSE /\ reviewed = {}
  /\ application = NoApplication /\ saved = <<reviewed, application>>
  /\ pc = "off" /\ runs = {} /\ todo = {} /\ replays = 0

-----------------------------------------------------------------------------
(* replay_graph_corrections: only the corrections of the run's revision. *)
Applicable(r) == {i \in Ids : corrections[i].revision = r}

(* Mutant of Conflicting: replace_binding is not an effective action. *)
ConflictingLegacy(ids) ==
  \E i, j \in ids : /\ i # j
                    /\ corrections[i].action \in Effective \ {"replace_binding"}
                    /\ corrections[j].action \in Effective \ {"replace_binding"}
                    /\ corrections[i].target = corrections[j].target

(* validate_corrections *)
Conflicting(ids) ==
  \E i, j \in ids : /\ i # j
                    /\ corrections[i].action \in Effective
                    /\ corrections[j].action \in Effective
                    /\ corrections[i].target = corrections[j].target

BeginRun ==
  /\ pc = "run" /\ runs # {}
  /\ LET r == Min(runs) IN
     IF Conflicting(Applicable(r))
       THEN pc' = "failed" /\ UNCHANGED <<saved, todo>>
       ELSE /\ pc' = "apply"
            /\ todo' = Applicable(r)
            /\ saved' = database
  /\ UNCHANGED <<corrections, strict, database, runs, replays>>

(* _target finds the raw row, effective or not. *)
Exists(fact) == \/ fact \in {Edge(e) : e \in Edges} \cup NodeFacts
                \/ \E i \in reviewed : fact = Reviewed(i)

Applied(i) == \E r \in Runs : application[r][i] = "applied"

(* effective_edge and effective_node: the corrections that hide a fact. *)
Hiding(fact) ==
  {i \in Ids : /\ Applied(i) /\ corrections[i].target = fact
               /\ corrections[i].action \in
                    {"suppress", "replace"} \cup
                    (IF fact \in NodeFacts THEN {"suppress_candidate"}
                                           ELSE {"replace_binding"})}

(* Mutant of Applies: the target is looked up in the effective view.         *)
AppliesEffective(c) ==
  c.action = "add" \/ (Exists(c.target) /\ Hiding(c.target) = {} /\ c.fresh)

(* Mutant of Applies: the content hash is not compared. *)
AppliesAnyHash(c) == c.action = "add" \/ Exists(c.target)

(* The filter of the replay makes the revisions match. *)
Applies(c) == c.action = "add" \/ (Exists(c.target) /\ c.fresh)

StatusOf(c) == IF Applies(c) THEN "applied" ELSE "stale"

(* Mutant of Materializes: a replaced binding is hidden but not replaced. *)
MaterializesNoBinding(c) == c.action \in Materializing \ {"replace_binding"}

Materializes(c) == c.action \in Materializing

(* Mutant of Rollback: the failed run keeps what it has applied. *)
RollbackKeeps == UNCHANGED database

Rollback == reviewed' = saved[1] /\ application' = saved[2]

(* A replacement between nodes that do not exist breaks a foreign key. *)
Apply ==
  /\ pc = "apply" /\ todo # {}
  /\ LET r == Min(runs)
         i == Min(todo)
         c == corrections[i]
         edge == Applies(c) /\ Materializes(c)
     IN IF edge /\ c.endpoint = "missing"
          THEN Rollback /\ pc' = "failed" /\ todo' = {}
          ELSE /\ application' = [application EXCEPT ![r][i] = StatusOf(c)]
               /\ reviewed' = reviewed \cup IF edge THEN {i} ELSE {}
               /\ todo' = todo \ {i}
               /\ UNCHANGED pc
  /\ UNCHANGED <<corrections, strict, saved, runs, replays>>

(* An sqlite3.Error, or the death of the process, in the transaction. *)
TransactionFails ==
  /\ pc = "apply"
  /\ Rollback
  /\ pc' = "failed"
  /\ todo' = {}
  /\ UNCHANGED <<corrections, strict, saved, runs, replays>>

CommitRun ==
  /\ pc = "apply" /\ todo = {}
  /\ pc' = "run"
  /\ runs' = runs \ {Min(runs)}
  /\ saved' = database
  /\ UNCHANGED <<corrections, strict, database, todo, replays>>

ReplayDone ==
  /\ pc = "run" /\ runs = {}
  /\ pc' = "replayed"
  /\ UNCHANGED <<corrections, strict, database, saved, runs, todo, replays>>

(* The command run once more on the same database. *)
ReplayAgain ==
  /\ pc = "replayed" /\ replays < MaxReplays
  /\ replays' = replays + 1
  /\ runs' = Runs
  /\ pc' = "run"
  /\ UNCHANGED <<corrections, strict, database, saved, todo>>

(* Mutant of Gaps: a later run's application hides an earlier gap. *)
GapsLastRun == \E i \in Ids : application[Max(Runs)][i] = "stale"

(* _correction_gaps *)
Gaps == \E r \in Runs, i \in Ids : application[r][i] \notin {"none", "applied"}

Validate ==
  /\ pc = "replayed"
  /\ pc' = IF strict /\ Gaps THEN "failed" ELSE "published"
  /\ UNCHANGED <<corrections, strict, database, saved, runs, todo, replays>>

Next == \/ BeginRun \/ Apply \/ TransactionFails \/ CommitRun \/ ReplayDone
        \/ ReplayAgain \/ Validate

Spec == Init /\ [][Next]_vars

-----------------------------------------------------------------------------
Replacements == {i \in Ids : Applied(i) /\ corrections[i].action \in
                               {"replace", "replace_binding", "promote_candidate"}}

(* A fact that was replaced does not vanish: whatever chain of replacements  *)
(* starts at it ends in a reviewed edge of the database that no further      *)
(* replacement of the chain hides.                                           *)
ReplacedFactHasSuccessor ==
  pc # "apply" =>
    \A chain \in (SUBSET Replacements) \ {{}} :
      \E i \in chain : i \in reviewed /\ Hiding(Reviewed(i)) \cap chain = {}

(* A correction takes effect only on the very content its reviewer saw.      *)
OnlyReviewedContent ==
  \A i \in Ids : Applied(i) => corrections[i].action = "add" \/ corrections[i].fresh

(* Within one run no fact is hidden by two corrections: two replacements     *)
(* would both be effective.                                                  *)
OneEffectPerRun ==
  \A r \in Runs, i, j \in Ids :
    (/\ i # j /\ application[r][i] = "applied" /\ application[r][j] = "applied"
     /\ corrections[i].target = corrections[j].target)
      => {corrections[i].action, corrections[j].action} \cap {"annotate", "add"} # {}

(* A run's corrections are committed together or not at all. *)
RunAllOrNothing ==
  pc # "apply" =>
    \A r \in Runs :
      LET recorded == {i \in Ids : application[r][i] # "none"} IN
        recorded = {} \/ recorded = Applicable(r)

(* Under the strict gate no stale correction is published. *)
NoStalePublished ==
  (pc = "published" /\ strict) =>
    \A i \in Ids : (corrections[i].revision \in Runs /\ corrections[i].action # "add")
                     => corrections[i].fresh

(* What the database holds once the transaction under way is lost. *)
Committed == IF pc = "apply" THEN saved ELSE database

(* Neither a later run, nor a failure, nor replaying everything again takes  *)
(* a committed correction back.                                              *)
CorrectionsStay ==
  [][LET was == Committed[2] now == Committed'[2] IN
       \A r \in Runs, i \in Ids : was[r][i] = "applied" => now[r][i] = "applied"]_vars

-----------------------------------------------------------------------------
(* Stated by the documents and refuted by the code; see the README. *)

(* "A hash or source-revision mismatch makes the correction stale. Stale,    *)
(* malformed, duplicate, or unapproved corrections fail strict publication." *)
StrictAppliesAll == (pc = "published" /\ strict) => \A i \in Ids : Applied(i)
=============================================================================
