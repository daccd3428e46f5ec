--------------------------- MODULE SourceEvidence ---------------------------
(* Which sources a published graph describes.  A rebuild (rebuild_all.sh)    *)
(* records an inventory of the sources, reads them in pass after pass, and   *)
(* compares the inventory again before it publishes; a CodeQL database was   *)
(* extracted earlier, by prepare_codeql.py, for the inventory of the plan it *)
(* found.  Nothing stops the sources from changing meanwhile.                *)
(*                                                                           *)
(* A file's version stands for its content; two inventories are equal when   *)
(* they agree on every file, and are read file by file.  The revision that a *)
(* repository is checked out at is left out: comparing it as well can only   *)
(* refuse more builds.                                                       *)
EXTENDS Naturals, FiniteSets

CONSTANTS
  Repositories,  \* the enabled repositories: disjoint sets of files
  MaxVersion,    \* bound on the versions of a file; 0: it does not exist
  Passes,        \* importers that read the sources, one after another
  MaxDatabases,  \* bound on the CodeQL databases prepared
  MaxFailures,   \* bound on the builds that end for another reason
  Reverts        \* may a file return to an earlier content?

Files == UNION Repositories
Versions == 0..MaxVersion
Trees == [Files -> Versions]

ASSUME FilesAssumption == {} \notin Repositories /\ Files # {}
ASSUME VersionAssumption == MaxVersion \in Nat
ASSUME PassesAssumption == Passes \in Nat \ {0}
ASSUME DatabasesAssumption == MaxDatabases \in Nat
ASSUME FailuresAssumption == MaxFailures \in Nat
ASSUME RevertsAssumption == Reverts \in BOOLEAN

VARIABLES
  tree,         \* the sources
  livePlan,     \* data/workspace/execution-plan.json: {}, or {its inventory}
  databases,    \* CodeQL databases: the inventory they name, what they hold
  request,      \* the inventory a database is being prepared for, or {}
  extracted,    \* what that database holds so far
  unextracted,  \* files it does not hold yet
  pc,           \* where the rebuild is
  planOnly,     \* --plan-only
  strict,       \* --strict, --strict-capability: complete provenance
  todo,         \* files the step under way has still to read
  pass,         \* the importer under way
  plan,         \* the inventory in the batch's execution plan
  snapshot,     \* the sources as they were when the plan was complete
  facts,        \* by file, the versions that the batch's facts come from
  inventory,    \* the inventory that names the native extraction run
  codeql,       \* what the imported CodeQL database holds: {} or {tree}
  collected,    \* the inventory in source-provenance.json
  provenance,   \* the inventory in provenance.json, collected after it
  failures,     \* builds that ended for another reason
  published     \* the live graph: {}, or {what its batch recorded}

preparation == <<request, extracted, unextracted>>
batch == <<planOnly, strict, pass, plan, snapshot, facts, inventory, codeql,
           collected, provenance>>
vars == <<tree, livePlan, databases, preparation, pc, todo, batch, failures,
          published>>

Reading == {"plan", "import", "inventory", "native", "native_check", "collect",
            "collect_again"}

Databases == [identity : Trees, content : Trees]
Graphs == [plan : Trees, snapshot : Trees, facts : [Files -> SUBSET Versions],
           inventory : Trees, codeql : SUBSET Trees, provenance : Trees,
           strict : BOOLEAN]

TypeOK ==
  /\ tree \in Trees
  /\ livePlan \subseteq Trees
  /\ databases \subseteq Databases
  /\ request \subseteq Trees /\ extracted \in Trees /\ unextracted \subseteq Files
  /\ pc \in Reading \cup {"idle", "codeql", "prepare"}
  /\ planOnly \in BOOLEAN /\ strict \in BOOLEAN
  /\ todo \subseteq Files
  /\ pass \in 1..Passes
  /\ plan \in Trees /\ snapshot \in Trees /\ inventory \in Trees
  /\ facts \in [Files -> SUBSET Versions]
  /\ codeql \subseteq Trees
  /\ collected \in Trees /\ provenance \in Trees
  /\ failures \in 0..MaxFailures
  /\ published \subseteq Graphs

Nothing == [f \in Files |-> 0]

Init ==
  /\ tree \in Trees
  /\ livePlan = {} /\ databases = {} /\ published = {}
  /\ request = {} /\ extracted = Nothing /\ unextracted = {}
  /\ pc = "idle" /\ todo = {} /\ pass = 1 /\ failures = 0
  /\ planOnly = FALSE /\ strict = FALSE
  /\ plan = Nothing /\ snapshot = Nothing /\ inventory = Nothing
  /\ facts = [f \in Files |-> {}]
  /\ codeql = {}
  /\ collected = Nothing /\ provenance = Nothing

-----------------------------------------------------------------------------
(* The world outside: an editor, a checkout, a code generator. *)
Edit(f) ==
  /\ \E v \in Versions \ {tree[f]} :
       /\ Reverts \/ v > tree[f]
       /\ tree' = [tree EXCEPT ![f] = v]
  /\ UNCHANGED <<livePlan, databases, preparation, pc, todo, batch, failures,
                 published>>

-----------------------------------------------------------------------------
(* prepare_codeql.py takes no lock. *)
EmptyRepository(p) == \E r \in Repositories : \A f \in r : p[f] = 0

(* _repositories: the identity comes from the plan, the sources are not      *)
(* looked at; a database of that identity is reused.                         *)
PrepareStart ==
  /\ request = {} /\ Cardinality(databases) < MaxDatabases
  /\ \E p \in livePlan :
       /\ ~EmptyRepository(p)
       /\ \A d \in databases : d.identity # p
       /\ request' = {p}
  /\ extracted' = Nothing
  /\ unextracted' = Files
  /\ UNCHANGED <<tree, livePlan, databases, pc, todo, batch, failures, published>>

(* codeql database create compiles, and extracts, what is there. *)
Extract(f) ==
  /\ f \in unextracted
  /\ extracted' = [extracted EXCEPT ![f] = tree[f]]
  /\ unextracted' = unextracted \ {f}
  /\ UNCHANGED <<tree, livePlan, databases, request, pc, todo, batch, failures,
                 published>>

(* Mutant of PrepareDone: a database under construction is already found. *)
PrepareDoneEarly ==
  /\ request # {}
  /\ databases' = databases \cup
                    {[identity |-> p, content |-> extracted] : p \in request}
  /\ request' = {}
  /\ UNCHANGED <<tree, livePlan, extracted, unextracted, pc, todo, batch, failures,
                 published>>

PrepareDone ==
  /\ request # {} /\ unextracted = {}
  /\ databases' = databases \cup
                    {[identity |-> p, content |-> extracted] : p \in request}
  /\ request' = {}
  /\ UNCHANGED <<tree, livePlan, extracted, unextracted, pc, todo, batch, failures,
                 published>>

PrepareFails ==
  /\ request # {}
  /\ request' = {}
  /\ unextracted' = {}
  /\ UNCHANGED <<tree, livePlan, databases, extracted, pc, todo, batch, failures,
                 published>>

Prepare == PrepareStart \/ (\E f \in Files : Extract(f)) \/ PrepareDone \/ PrepareFails

-----------------------------------------------------------------------------
(* rebuild_all.sh, under its lock.  Every step of it may be the last: the    *)
(* batch is dropped, and what was published stays.                           *)
outside == <<tree, livePlan, databases, preparation, failures, published>>

Start(only, complete) ==
  /\ pc = "idle"
  /\ pc' = "plan"
  /\ todo' = Files
  /\ planOnly' = only /\ strict' = complete
  /\ pass' = 1
  /\ plan' = Nothing /\ snapshot' = Nothing /\ inventory' = Nothing
  /\ facts' = [f \in Files |-> {}]
  /\ codeql' = {}
  /\ collected' = Nothing /\ provenance' = Nothing
  /\ UNCHANGED outside

Reads(step, f) == pc = step /\ f \in todo /\ todo' = todo \ {f} /\ UNCHANGED pc
HasRead(step) == pc = step /\ todo = {}
ReadAll(step) == pc' = step /\ todo' = Files
Leave == pc' = "idle" /\ todo' = {}

(* inspect_repository_provenance, for build_workspace_plan *)
PlanFile(f) ==
  /\ Reads("plan", f)
  /\ plan' = [plan EXCEPT ![f] = tree[f]]
  /\ UNCHANGED <<outside, planOnly, strict, pass, snapshot, facts, inventory, codeql,
                 collected, provenance>>

(* --plan-only writes the live plan; otherwise validate_preflight. *)
PlanDone ==
  /\ HasRead("plan")
  /\ snapshot' = tree
  /\ livePlan' = IF planOnly THEN {plan} ELSE livePlan
  /\ IF planOnly \/ EmptyRepository(plan) THEN Leave ELSE ReadAll("import")
  /\ UNCHANGED <<tree, databases, preparation, failures, published, planOnly, strict,
                 pass, plan, facts, inventory, codeql, collected, provenance>>

ImportFile(f) ==
  /\ Reads("import", f)
  /\ facts' = [facts EXCEPT ![f] = @ \cup {tree[f]}]
  /\ UNCHANGED <<outside, planOnly, strict, pass, plan, snapshot, inventory, codeql,
                 collected, provenance>>

(* Mutant of PassDone: one importer too many. *)
PassDoneOver ==
  /\ HasRead("import")
  /\ pass' = pass + 1
  /\ IF pass < Passes THEN ReadAll("import") ELSE ReadAll("inventory")
  /\ UNCHANGED <<outside, planOnly, strict, plan, snapshot, facts, inventory, codeql,
                 collected, provenance>>

PassDone ==
  /\ HasRead("import")
  /\ IF pass < Passes
       THEN pass' = pass + 1 /\ ReadAll("import")
       ELSE pass' = pass /\ ReadAll("inventory")
  /\ UNCHANGED <<outside, planOnly, strict, plan, snapshot, facts, inventory, codeql,
                 collected, provenance>>

(* run_native_pipeline: an inventory, the extraction, the inventory again. *)
InventoryFile(f) ==
  /\ Reads("inventory", f)
  /\ inventory' = [inventory EXCEPT ![f] = tree[f]]
  /\ UNCHANGED <<outside, planOnly, strict, pass, plan, snapshot, facts, codeql,
                 collected, provenance>>

InventoryDone ==
  /\ HasRead("inventory")
  /\ ReadAll("native")
  /\ UNCHANGED <<outside, batch>>

NativeFile(f) ==
  /\ Reads("native", f)
  /\ facts' = [facts EXCEPT ![f] = @ \cup {tree[f]}]
  /\ UNCHANGED <<outside, planOnly, strict, pass, plan, snapshot, inventory, codeql,
                 collected, provenance>>

NativeDone ==
  /\ HasRead("native")
  /\ ReadAll("native_check")
  /\ UNCHANGED <<outside, batch>>

(* "source changed during native extraction" *)
NativeCheck(f) ==
  /\ IF tree[f] = inventory[f] THEN Reads("native_check", f)
                               ELSE pc = "native_check" /\ f \in todo /\ Leave
  /\ UNCHANGED <<outside, batch>>

NativeChecked ==
  /\ HasRead("native_check")
  /\ pc' = "codeql"
  /\ UNCHANGED <<outside, batch, todo>>

SkipCodeQL ==
  /\ pc = "codeql"
  /\ ReadAll("collect")
  /\ UNCHANGED <<outside, batch>>

(* Mutant of ImportCodeQL: the manifest is not compared with the plan. *)
ImportCodeQLUnchecked ==
  /\ pc = "codeql"
  /\ \E d \in databases : codeql' = {d.content}
  /\ ReadAll("collect")
  /\ UNCHANGED <<outside, planOnly, strict, pass, plan, snapshot, facts, inventory,
                 collected, provenance>>

(* _validate_database: the manifest must name the plan's inventory. *)
ImportCodeQL ==
  /\ pc = "codeql"
  /\ \E d \in databases :
       IF d.identity = plan THEN codeql' = {d.content} /\ ReadAll("collect")
                            ELSE UNCHANGED codeql /\ Leave
  /\ UNCHANGED <<outside, planOnly, strict, pass, plan, snapshot, facts, inventory,
                 collected, provenance>>

(* Mutant of CollectFile: the planned identity is reported, not inspected.   *)
CollectFilePlanned(f) ==
  /\ Reads("collect", f)
  /\ collected' = [collected EXCEPT ![f] = plan[f]]
  /\ UNCHANGED <<outside, planOnly, strict, pass, plan, snapshot, facts, inventory,
                 codeql, provenance>>

(* provenance collect, for source-provenance.json *)
CollectFile(f) ==
  /\ Reads("collect", f)
  /\ collected' = [collected EXCEPT ![f] = tree[f]]
  /\ UNCHANGED <<outside, planOnly, strict, pass, plan, snapshot, facts, inventory,
                 codeql, provenance>>

(* Mutant of PostImport: compared with the live plan, not with the batch's.  *)
PostImportLive ==
  /\ HasRead("collect")
  /\ IF livePlan = {collected} THEN ReadAll("collect_again") ELSE Leave
  /\ UNCHANGED <<outside, batch>>

(* provenance validate, and validate_post_import: whatever the options are,  *)
(* the collected inventory must be the planned one.                          *)
PostImport ==
  /\ HasRead("collect")
  /\ IF collected = plan THEN ReadAll("collect_again") ELSE Leave
  /\ UNCHANGED <<outside, batch>>

(* provenance collect once more, for provenance.json, with the scope report. *)
CollectAgain(f) ==
  /\ Reads("collect_again", f)
  /\ provenance' = [provenance EXCEPT ![f] = tree[f]]
  /\ UNCHANGED <<outside, planOnly, strict, pass, plan, snapshot, facts, inventory,
                 codeql, collected>>

(* Mutant of ValidateProvenance: --require-complete is not passed on. *)
ValidateProvenanceLax ==
  /\ HasRead("collect_again")
  /\ pc' = "prepare"
  /\ UNCHANGED <<outside, batch, todo>>

(* provenance validate: a gap fails the build under --require-complete. *)
ValidateProvenance ==
  /\ HasRead("collect_again")
  /\ IF strict /\ provenance # plan THEN Leave ELSE pc' = "prepare" /\ UNCHANGED todo
  /\ UNCHANGED <<outside, batch>>

(* build_publish prepare compares the scope report with the copy of it in    *)
(* provenance.json; publish replaces graph and reports, the plan among them. *)
Publish ==
  /\ pc = "prepare"
  /\ published' = {[plan |-> plan, snapshot |-> snapshot, facts |-> facts,
                    inventory |-> inventory, codeql |-> codeql,
                    provenance |-> provenance, strict |-> strict]}
  /\ livePlan' = {plan}
  /\ Leave
  /\ UNCHANGED <<tree, databases, preparation, failures, batch>>

(* The build fails for a reason that is not the sources' state. *)
Abandon ==
  /\ pc # "idle" /\ failures < MaxFailures
  /\ failures' = failures + 1
  /\ Leave
  /\ UNCHANGED <<tree, livePlan, databases, preparation, published, batch>>

ReadOne(f) == \/ PlanFile(f) \/ ImportFile(f) \/ InventoryFile(f) \/ NativeFile(f)
              \/ NativeCheck(f) \/ CollectFile(f) \/ CollectAgain(f)

GoOn == \/ PlanDone \/ PassDone \/ InventoryDone \/ NativeDone \/ NativeChecked
        \/ SkipCodeQL \/ ImportCodeQL \/ PostImport \/ ValidateProvenance \/ Publish

Rebuild == (\E f \in Files : ReadOne(f)) \/ GoOn

Next == \/ \E f \in Files : Edit(f)
        \/ Prepare
        \/ \E only, complete \in BOOLEAN : Start(only, complete)
        \/ Rebuild \/ Abandon

Spec == Init /\ [][Next]_vars

(* A rebuild that has started goes on; it is started again and again, and    *)
(* not every time with a CodeQL database.                                    *)
FairSpec == /\ Spec
            /\ WF_vars(Rebuild)
            /\ SF_vars(Start(FALSE, FALSE))
            /\ SF_vars(SkipCodeQL)

-----------------------------------------------------------------------------
(* A published graph describes one state that the sources were in: at the    *)
(* moment the plan was complete they were as planned, and every fact, of     *)
(* whatever pass, was read from that state, native facts under its name.     *)
GraphIsASnapshot ==
  \A g \in published : /\ g.plan = g.snapshot
                       /\ g.inventory = g.snapshot
                       /\ \A f \in Files : g.facts[f] = {g.snapshot[f]}

(* So are its CodeQL facts, though they were extracted in another process,   *)
(* at another time, under an identity taken from an earlier plan.            *)
CodeQLOfTheSnapshot == \A g \in published : g.codeql \subseteq {g.snapshot}

(* Under --strict the provenance that is published names that state as well, *)
(* whatever happens between the two times it is collected.                   *)
StrictProvenance == \A g \in published : g.strict => g.provenance = g.snapshot

(* When the sources stop changing they are published in the end: no build is *)
(* refused for ever because of what an earlier one, or an earlier plan or    *)
(* database, has left behind.                                                *)
QuietSourcesPublished ==
  []<>(EmptyRepository(tree) \/ \E g \in published : g.snapshot = tree)

-----------------------------------------------------------------------------
(* "Before publication the following must fail and leave the live database   *)
(* unchanged: ... the scope report is inconsistent with the plan, the        *)
(* provenance or the build manifest."  Refuted without --strict; see README. *)
ScopeMatchesProvenance == \A g \in published : g.provenance = g.plan
=============================================================================
