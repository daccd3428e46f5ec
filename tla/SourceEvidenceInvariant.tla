---------------------- MODULE SourceEvidenceInvariant ----------------------
(* The inductive invariant behind the safety properties of SourceEvidence.   *)
(* Every version is bounded from below by the one planned and from above by  *)
(* the one there now; the inventory collected at the end is an upper bound   *)
(* of everything read before it, so when it equals the planned one nothing   *)
(* in between can differ.  That needs files that never return to an earlier  *)
(* content.                                                                  *)
EXTENDS SourceEvidence

OneWay == Reverts = FALSE

Upto(p, q) == \A f \in Files : p[f] <= q[f]

(* Where the plan is complete, and where all the native facts are read. *)
Planned == {"import", "inventory", "native", "native_check", "codeql", "collect",
            "collect_again", "prepare"}
Checked == {"collect_again", "prepare"}

(* What lies outside the batch: plans and databases are not of the future,   *)
(* and a database holds nothing older than the plan it is named after.       *)
OutsideInv ==
  /\ \A p \in livePlan : Upto(p, tree)
  /\ Upto(extracted, tree)
  /\ \A p \in request : /\ Upto(p, tree)
                        /\ \A f \in Files \ unextracted : p[f] <= extracted[f]
  /\ \A d \in databases : Upto(d.identity, d.content) /\ Upto(d.content, tree)

PlanInv ==
  /\ Upto(plan, tree) /\ Upto(snapshot, tree)
  /\ pc \in Planned => Upto(plan, snapshot)

FactsInv ==
  /\ pc = "plan" => pass = 1 /\ \A f \in Files : facts[f] = {}
  /\ pc \in Planned =>
       \A f \in Files : \A v \in facts[f] : snapshot[f] <= v /\ v <= tree[f]
  /\ pc = "import" /\ pass = 1 => \A f \in Files \ todo : facts[f] # {}
  /\ pc = "import" /\ pass # 1 => \A f \in Files : facts[f] # {}
  /\ pc \in Planned \ {"import"} => \A f \in Files : facts[f] # {}

InventoryInv ==
  /\ Upto(inventory, tree)
  /\ pc = "inventory" => \A f \in Files \ todo : snapshot[f] <= inventory[f]
  /\ pc \in Planned \ {"import", "inventory"} => Upto(snapshot, inventory)

CodeQLInv ==
  /\ pc \in {"collect"} \cup Checked => \A c \in codeql : Upto(plan, c) /\ Upto(c, tree)
  /\ pc \in ({"plan"} \cup Planned) \ ({"collect"} \cup Checked) => codeql = {}

CollectInv ==
  pc = "collect" =>
    \A f \in Files \ todo :
      /\ snapshot[f] <= collected[f] /\ inventory[f] <= collected[f]
      /\ \A v \in facts[f] : v <= collected[f]
      /\ \A c \in codeql : c[f] <= collected[f]

CheckedInv ==
  pc \in Checked => /\ snapshot = plan /\ inventory = plan
                    /\ \A f \in Files : facts[f] = {plan[f]}
                    /\ codeql \subseteq {plan}

ProvenanceInv == pc = "prepare" /\ strict => provenance = plan

IInv ==
  /\ TypeOK
  /\ OutsideInv /\ PlanInv /\ FactsInv /\ InventoryInv /\ CodeQLInv /\ CollectInv
  /\ CheckedInv /\ ProvenanceInv
  /\ GraphIsASnapshot /\ CodeQLOfTheSnapshot /\ StrictProvenance
=============================================================================
