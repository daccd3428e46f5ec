# Android Context Intelligence: specifications and proofs

This directory holds a TLA+ development of the program in `src/`: a tool that
reads an Android source tree, builds a graph of its services, calls,
permissions and native bindings in an SQLite database, and publishes that
database with its reports. The development says what the parts that change
state do, checks it with TLC on small instances, and proves with TLAPS, for all
values of the parameters: the publication protocol, that a published graph
describes one state of the sources, what keeps the installer's data
and that it undoes an upgrade that fails, what the three caches hand out, what the replay of
corrections guarantees, which calls a validated graph has, that the service
scan guesses no key and leaves no registration in part, and what the importers of
symbols bring from the sources into the graph. Liveness is model-checked.

Paths below are relative to `src/`.

## 1. Inventory

### 1.1 The parts and what they keep

| Part | State | Operations | Module |
|---|---|---|---|
| Build publication, `project/workspace/build_publish.py` | `data/`: live `workspace/` and `raw/` reports, `android_context.db`, `staging/<build>/`, `rollback/<build>/`, `.publish-journal.json` | `begin`, `prepare`, `publish`, `fail`, `recover` | `Publication` |
| Rebuild driver, `project/scripts/rebuild_all.sh` | `data/.rebuild.lock` on descriptor 9, the shell's `STAGING`, `PUBLISHED`, its EXIT trap | rebuild, `--discover-only`, `--plan-only` | `Publication` |
| Installer, `scripts/install_project.py`, `setup.sh` | the target tree, `.install-staging-*` and `.install-rollback-*` beside it | `--fresh`, `--upgrade`, `--verify-only` | `Install` |
| Reviewed corrections, `collectors/codeql/corrections.py`, `workspace/correction_replay.py`, migration 0004 | `fact_correction`, `correction_application`, the reviewed edges, the views `effective_edge` and `effective_node` | replay, application per run, strict gate | `Corrections` |
| Source planning and provenance, `workspace/revisions.py`, `planner.py`, `provenance.py`, `source_scope_validation.py` | inventories in `execution-plan.json`, `source-provenance.json`, `provenance.json`, the scope report | plan, preflight, collect, validate, post-import | `SourceEvidence` |
| CodeQL databases, `workspace/codeql_database.py`, `scripts/prepare_codeql.py` | `<cache>/databases/<key>/`, the partial trees beside them | `prepare_database` | `DatabaseCache`; `SourceEvidence` for identity and content |
| CodeQL query results, `workspace/codeql_runner.py` | `<cache>/cache/<key>/`, `normalized/`, `query-run-manifest.json` | `run_queries` | `QueryCache` |
| CodeQL import, `collectors/codeql/decode.py`, `identity.py`, `materializer.py` | `method_definition`, `call_site`, `call_target`, `dataflow_path`, `security_trace`, edges | `import_codeql_facts` | `CallFacts`; `SourceEvidence` for the acceptance of a database |
| Vendor artifacts, `workspace/vendor_artifacts.py`, `multi_vendor.py` | `<cache>/vendor/<key>/`, the manifest | prepare, import | `VendorCache`, `SymbolImport` |
| Symbols: `workspace/pipeline.py`, `multi_aidl.py`, `ctags_importer.py`, `aidl_binder_importer.py`, `java_inheritance_importer.py`, `graph/writer.py` | `node`, `edge` of the staged database, the reports of what stayed unresolved | one command per language and kind of fact | `SymbolImport` |
| Services: `workspace/multi_service.py`, `service_registration_importer.py` | `<cache>/service-models/`, the registrations in the staged database | `run_service_pipeline` | `ServiceScan` |
| Validators: `call_dataflow_validation.py`, `symbol_collision_validation.py` | none (queries over a graph) | pass or fail, with a strict gate | `CallFacts`, `Corrections`, `SymbolImport` |
| Native pipeline: Soong, Ninja, C/C++, Rust, JNI | the staged database | scan, resolve, link | `SourceEvidence` (what it reads when) |
| Permission importers and resolver | the staged database | one scan per source | not modelled |
| Fact materializer, migration runner | candidates; `schema_migration` | upserts; `migrate` | not modelled |
| Registry, configuration, language detection | none (pure) | plan from configuration and tree | an input of the other modules |
| Payload manifest, graph comparison, other validators | none | compare, pass or fail | a step that may fail |

### 1.2 How they interact

The driver takes the lock, runs `recover`, then either writes a plan into the
live `workspace/` (discover and plan mode) or begins a batch, lets the planner,
the importers, the native pipeline, the CodeQL import, the correction replay
and the validators fill it, and calls `prepare` and `publish`. Every one of
these is a process of its own, a child of the shell; they share the batch
directory and the lock's descriptor. A child that fails ends the shell through
`set -e` and the EXIT trap, which calls `fail`. `prepare_codeql.py` is run by hand,
takes no lock, and reads the live plan. The source tree is read by all of them
and locked by none. The installer shares nothing
with the driver but the tree: it takes no lock.

### 1.3 What is hard

* **Crashes between two renames.** A publication is two journal phases, up to
  four renames, a database replacement and two more phases; a process may stop
  between any two and a later run must put things right.
* **The handler races the statement that records.** `publish_build` keeps
  `backed_up_names`, `published_names` and `database_committed` in locals that
  are updated one statement after the effect.
* **Two parties clean up.** The publisher's handler, the shell's trap and the
  next run's recovery all act on the same directories.
* **An orphan.** The shell may die while its child publishes.
* **Upgrades move the data.** `data/` and `.venv/` are moved, not copied, into
  the new tree, and moved back when an upgrade fails.
* **The sources move.** A rebuild reads the sources for hours, a dozen times, one
  file after another; a CodeQL database was built from them earlier. The code
  compares inventories taken at four moments.
* **Corrections of corrections.** A correction may name a fact that another
  correction makes, hides or has already replaced.
* **Caches without locks.** Databases, query results, decompiled sources and
  parsed models are kept between runs, shared by processes that take no lock,
  replaced by renames that may be cut off in between, and trusted later by what
  their manifests say.
* **Last writer wins.** A node is overwritten by whichever importer comes last;
  repositories overlap, artifacts repeat classes of the platform, and names are
  resolved against whatever has been imported so far.
* **Repeated imports.** The call materializer commits twice, and may be repeated
  on a database that a killed import, or one with fewer methods, has left.

The hazards, each at its line and with the properties that cover it, are in
`PROJECT.json`.

## 2. Modules

### 2.1 Publication

`Publication` has one variable per piece of `data/` (`live`, `liveDb`, `stage`,
`stageDb`, `backup`, `journal`), one for the shell (`shell`, with `mode` and
`keep` for its options), and for the publish or recover process its program
counter `pc`, its batch `cur`, and the locals `todo`, `backedUp`, `published`.
`database_committed` is the position of `pc` (`p_note_commit` sets it).

A report directory is represented by its owner: the number of the build whose
reports it holds, 0 for reports written by `--discover-only` before any build
was published, `Absent` for none. So "the previous reports" can be told from
"the new reports" wherever they lie. A staged database is `none`, `graph` (being
filled) or `verified` (it has the `GRAPH_BUILD` node and the manifest is
written); the live one is the number of its build.

| Action | Code |
|---|---|
| `Start` | the lock is taken, `recover` begins |
| `Discover` | the planner writes into the live workspace |
| `Begin`, `BeginFails` | `begin_build` |
| `Collect`, `Prepare`, `PrepareFails` | everything up to `prepare_staged_database` |
| `Check`, `Journal`, `EnterTry` | `publish_build` before and at its `try` |
| `BackUp`, `NoteBackUp`, `BackUpDone`, `BackedUpPhase` | the first loop and its phase |
| `Place`, `NotePlace`, `PlaceDone`, `PublishedPhase` | the second loop and its phase |
| `Commit`, `NoteCommit`, `CommittedPhase` | `replace_database`, the flag, the phase |
| `RemoveRollback`, `RemoveStaging`, `Unlink` | the three endings: `publish_build`, `recover_publication`, the handler |
| `RestorePublished`, `RestoreBackups` | `_restore_precommit_reports` |
| `ReadJournal`, `ReadDatabase`, `RecoverLive`, `RecoverBackup`, `RecoverDone` | `recover_publication` |
| `TrapRemoves`, `TrapExits` | `cleanup_failed_batch` |

`shutil.rmtree` removes one entry per step, in any order. The loops over Python
sets (`published_names`, `backed_up_names`) visit their names in any order; the
loops over `("workspace", "raw")` in that order.

Faults are actions of their own, enabled by the constant `Faults` and bounded by
`MaxFaults`: a call that raises before it has an effect (`call_error`, in the
handler `restore_error`), a `KeyboardInterrupt` between a call and the statement
that records it (`interrupt`), the death of the process (`kill`), of everything
(`power`), of the shell alone (`hangup`), and a database that cannot be read
(`unreadable`). A completed rename is durable.

`AtomicPublication` is what a reader is promised: database and reports change
in one step, to a later build. `Publication` implements it (`AtomicSpec`) under
the mapping that shows a reader who waits while there is a journal the owner of
the database.

### 2.2 Install

`Install` represents a tree by the run that made its payload, the runtime
directories it holds and whether it has the local configuration; `target`,
`stage` and `rollback` (one per run, for their paths carry a uuid) are trees.
The actions follow `install_fresh` and `install_upgrade` rename by rename;
`Handler`, `ReturnRuntime`, `RemoveTarget`, `PutBack` and `RemoveStage` are the
`except` and `finally` blocks. A rename moves a tree in one step. `_remove_path(target)`
is `shutil.rmtree`: `OpenTarget` takes hold of what is there, `RemoveEntry` removes
one entry after another (a part of the payload, the rest of it, the local
configuration, a runtime directory), in any order, and `RemoveTarget` the directory,
so a crash or a failure may leave any part. It keeps its hold (`opened`) on a tree that
another run renames meanwhile, and goes on in the other's rollback directory.
`CallFails`, `RestorationFails` and `Crash` are the faults. Where `overlap` is TRUE a
run may start while another is under way, and calls may fail then too: the code takes no
lock.

### 2.3 Corrections

`Corrections` starts from any assignment of well-formed corrections to ids: an
action, a target among the extracted edges, the candidate nodes and the edges
that corrections materialize, the run whose revision it names (0: none), whether
the expected content hash is the target's, and whether the replacement's
endpoints exist. `BeginRun`, `Apply`, `CommitRun` and `TransactionFails` are
`apply_corrections` for one run, one correction per step, with `saved` for what
a ROLLBACK restores; `Validate` is the strict gate. The views are the operator
`Hiding`.

### 2.4 SourceEvidence

`SourceEvidence` asks which sources a published graph describes. `tree` gives each
file its version, `Edit` changes one at any moment, and every reader of the
sources reads them file by file, in any order: `todo` holds what it has still to
read. An inventory is a function from files to versions, and two digests are
equal when the functions are.

| Action | Code |
|---|---|
| `Start` | `rebuild_all.sh`, also with `--plan-only`, with or without `--strict` |
| `PlanFile`, `PlanDone` | `build_workspace_plan` with `inspect_repository_provenance`; `validate_preflight` |
| `ImportFile`, `PassDone` | the importers, from `pipeline java` to `multi_permission` |
| `InventoryFile`, `NativeFile`, `NativeCheck` (`InventoryDone`, `NativeDone`, `NativeChecked`) | `run_native_pipeline`: inventory, extraction, inventory again |
| `SkipCodeQL`, `ImportCodeQL` | `codeql_import --skip`; `_validate_database` and the import |
| `CollectFile`, `PostImport` | `provenance collect`, `validate_post_import` |
| `CollectAgain`, `ValidateProvenance` | `provenance collect` with the scope report, `provenance validate` |
| `Publish` | `_load_source_scope`, and the publication as one step, which replaces the live plan |
| `PrepareStart`, `Extract`, `PrepareDone`, `PrepareFails` | `prepare_codeql.py`: identity from the live plan, extraction, manifest, failure |
| `Abandon` | a build that ends for any other reason |

`snapshot` and the field of that name in `published` are history: they record
what the sources were when the plan was complete, so that the properties can
compare the graph with a state the sources were really in, and not only with
what the plan says. `EmptyRepository` is the one thing preflight and
`prepare_codeql.py` refuse that depends on the sources' state.

### 2.5 DatabaseCache, QueryCache, VendorCache

The three caches are one module each. A file is represented by what it was made
of, so that a digest is the file itself and a manifest names what it should be.

* `DatabaseCache`: processes that prepare databases for some keys. `Reuse`,
  `Reject`, `Create`, `Describe`, `Promote` or `PromoteLost`, and `Clean` are
  `prepare_database`; `entry` is the directory of a key, `partial` the process's
  own. `QueryWrites` is CodeQL writing its own caches into an entry, which the
  fingerprint leaves out; `Tampered` changes anything else.
* `QueryCache`: overlapping runs of `run_queries` over a pack that `EditPack`
  changes. `Begin` is the start of the process, which loads the normalizer
  (`decoder`), `Fingerprint` reads the files of the bundle, those of the normalizer
  too; `late` keeps the versions that were fingerprinted by a run with an older
  normalizer loaded. `Look`, `Execute`, `RemoveResult`, `Replace` and `DescribeResult`
  process one query: a result has two versions, of the libraries as they are when it
  is executed and of the loaded normalizer. `Publish` writes the run manifest and `Import`
  reads the files it names. `StopRun` kills a run anywhere. `DamageResult` overwrites
  or loses a result file or a manifest, which is then one that does not fit
  (`Unfit`) or one whose check raises what `run_queries` does not catch (`Raising`).
* `VendorCache`: `TakeArtifact`, `Decompile`, `RemoveEntry`, `ReplaceEntry` and
  `WriteManifest` are the loop of `prepare_artifacts`, `ImportArtifact` is
  `multi_vendor.py`. Artifacts are replaced, JADX is updated, a run is killed
  between any two steps and entries are damaged.

### 2.6 SymbolImport

The commands of `rebuild_all.sh` from `pipeline java` to the collision validator
are a set of jobs (`Jobs`), each with its turn: the part of the script, the place of
its repository in the plan or of its artifact in the manifest, and the place in the
body of the loop. `NextJob` takes the first that is left (`Before`), `LastJob`
ends the rebuild. A job's items (tags, AIDL files, relations, supertype references)
come in any order, for ctags walks directories in any. `UpsertNode`, `UpsertEdge` and `UpsertDefinition` are `graph/writer.py`.
`ImportSymbol` and `ImportMember` are the two passes over the tags,
`ImportInterface` and `ImportRelation` the AIDL and Binder imports,
`ImportSupertype` the resolution by `TypeIndex` (`Resolve`), `TraceArtifact` the
link of vendor definitions, `Annotate` and `ValidateCollisions` the end. A command is
run for the repositories of a language that has its capability in
`parser_registry.toml` (`Capabilities`): the platform's Kotlin files are not read for
supertypes, those of artifacts are, for `multi_vendor.py` does not ask. `seen` is the
set of the inheritance importer: a relation that one process has drawn it does not
draw again from another declaration. Where the code keeps the last row of an
unordered query, the model takes any.

The path of an artifact's file is stored relative to the directory it was decompiled
to, and `annotate` looks at stored paths alone. An artifact's file `packages/…` is
therefore taken for one of the repository `packages`. `Owner` in the properties has
two readings for that: `InnermostOwner` is who owns a file, `NamedOwner` what
`annotate` calls the owner.

### 2.7 ServiceScan

`LoadFile` loads the model of a source from the cache of parsed models or parses
it, `BuildFacts` resolves every registration call once all constants are known
(`ResolveKey` is `ConstantResolver.resolve`, which follows constants through at most
`MaxDepth` others; `InstanceType` and `Class` find the class), `ImportFact` writes one. Between rebuilds, and within one, sources are edited,
entries of the cache damaged, and the process killed. What the lexer finds in a
file is the data of its content: positions, names and expressions.

### 2.8 CallFacts

`Load` decodes the rows (`Sites`, `WellFormed`), `InsertRun` commits the run,
`MaterializeCall` and `CommitCalls` are the first transaction of the materializer,
with the projection to `CALLS`, `MaterializeFlow` and `CommitFlows` the second,
with paths, program values, guards and identity transitions; `ValidateCalls` is
`call_dataflow_validation.py` up to the strict gate. `db` is what is committed, `tx`
what the transaction sees, so that `KillImport` loses the difference. `Reconcile` and
`ResolveSymbol` find the method of the graph that a definition stands for.
`MethodsAppear` lets more symbols be imported before a repetition.

### 2.9 MCExtraction

The modules of 2.5 to 2.8 and `Corrections` share no state, for each works on
tables, or a cache, of its own. `MCExtraction` puts them side by side for one run:
a behaviour is of one of them and the others stay `Off`. It extends the modules
whose properties it checks, and `SymbolWorlds`, `ServiceWorlds` and `CallWorlds` hold the
sources they start from.

## 3. Runs

| Run | Bounds | Shows |
|---|---|---|
| `publication_expected` | 2 builds, 2 faults of `call_error`, `power`, `hangup` | type invariant, `ReportsMatchDatabase`, `PriorReportsKept`, `CommittedReportsLive`, the inductive invariant `IInv`, `FailureRestoresReports`, and the refinement `AtomicSpec` |
| `publication_keep` | 3 builds, 3 faults, `--keep-failed-db` always | also with `kill` and `restore_error`: `KeptBatchComplete` |
| `publication_all_faults` | 2 builds, 2 faults of any kind, with fairness | `RecoveryNeverBlocked`, `InterruptionSettled` |
| `killed_publisher`, `interrupted_commit`, `unreadable_database` | 2 builds, the fault named | the findings of section 5 |
| `install` | 3 runs: one after another with 3 faults, or 2 at a time with 1 | one after another: the target is missing or whole, or what an interrupted removal left while the tree it replaced is whole in a rollback directory; the old payload survives, failed upgrades are undone, successful ones carry everything local over. In all cases `data/` and `.venv/` are neither destroyed nor doubled, but by a handler's removal after a call has failed while runs overlap |
| `corrections_strict` | 1 correction | finding 4 of section 5 |
| `source_evidence` | 2 repositories of a file, 2 changes of each, 2 importers, 1 CodeQL database, 1 failing build, any number of builds, with fairness | `GraphIsASnapshot`, `CodeQLOfTheSnapshot`, `StrictProvenance`, the inductive invariant, `QuietSourcesPublished` |
| `extraction` | see below | the properties of the caches, the importers and the corrections |
| `chained_calls` | one source with a chain of two calls | finding 6 of section 5 |
| `source_provenance` | the same without CodeQL and failures | finding 5 of section 5 |

**The run `extraction`** has these instances and properties:

| Module | Instance | Shows |
|---|---|---|
| `DatabaseCache` | 2 processes, 2 keys, 2 faults | `HandedOutWhole`: what a process gets is what was extracted for its request; `EntryLeftAlone`: nobody changes an entry that others may query |
| `QueryCache` | 2 runs of 1 query or 1 run of 2, 1 edit, 1 fault | `ImportedAsNamed`: results are of libraries no older than the run names, and of the normalizer it names unless that version was fingerprinted with an older one loaded; `OnlyRaisingBlocks`: a run that is alone fails on an entry whose check raises, and on no other state of the cache |
| `VendorCache` | 2 artifacts of 2 contents, 2 versions of JADX, 1 kill or damage | `SourcesAsRecorded`: imported sources are those of the record |
| `SymbolImport` | 152 source trees of nested and overlapping repositories, AIDL, and vendor artifacts inside and outside a repository's path | `NoDefinitionLost`, `CollisionsExact`, `SupertypesDrawn`, `BindersAccounted` |
| `ServiceScan` | 75 trees with two contents for each file, 1 edit, 1 kill or damage, any number of rebuilds | `KeySound`, `RegistrationsWhole` |
| `CallFacts` | 885 worlds, 2 imports, 1 kill | `CallsSupported`: what the validator passes has exactly the `CALLS` edges of the call sites whose caller is known; `WrittenAsValidated`: what it rejects of what the materializer writes |
| `Corrections` | 2 corrections of any kind, each for one of 2 runs, 2 replays (a correction without a revision is in `corrections_strict`) | replaced facts keep a successor, a run is all or nothing, only reviewed content is corrected, stale corrections do not pass the strict gate, replaying takes nothing back |

**Why these bounds are enough to be interesting.** Two builds are needed for
there to be previous reports that are a build's and not empty; a third lets a
rolled-back batch meet a later one. Two faults are needed for a crash during the
recovery from a crash, and for a failing call followed by a crash of its
handler; three let a second recovery be cut off too. The first build starts from
an empty `data/`, so the case without a previous database is covered. In
`Install` three runs give fresh, upgrade, upgrade, and three faults a failing call, a
failing restoration and a crash of the next run; two runs at a time are enough for one
to fail while the other promotes, and one fault for that failure (what another run does
makes a handler's calls fail without one). In `Corrections` two ids give
every conflict and every correction of a correction; two runs give both orders.
In `SourceEvidence` two files are needed for an inventory that is torn (one file
before, one after a change), three versions for a file that changes twice, once
before and once after a reader passes; two importers for two facts about one
file; the builds are not bounded, so a database, a plan and a graph of an earlier
build meet every later one. In the caches two processes are needed for a race and
one fault for a crash between two renames; a cache that is met again is met by
the run after the fault, and the versions give one entry that is out of date.
The worlds of the importers are chosen by the branches of the resolution: each
rule of `Resolve`, `AidlNames`, `CandidatesFor`, `InstanceType` and `Reconcile`
decides in some world and is tied, or is misled, in another; nested repositories
and both orders of the plan are in all worlds of the platform.

**Fairness.** Two runs use it. In `publication_all_faults`: weak fairness of the steps
of the shell and of the processes together (the operating system runs them on)
and of `Start` (the operator runs the tool again after it has ended). Faults are
not fair, and bounded, so eventually they stop; that is what "a later run
settles it" means. No property relies on a fault happening. In `source_evidence`:
weak fairness of the steps of a rebuild under way (`set -e` leaves nothing that
waits), and strong fairness of starting a rebuild with neither `--plan-only` nor
`--strict` and of building without a CodeQL database, the operator's
choices, who may also do other things in between. Changes of the sources
are bounded, so they stop; failures for other reasons are bounded too.

`CHECK_DEADLOCK FALSE` stands in the runs of `Install`, `Corrections`, `CallFacts`
and in `extraction`: when every invocation, the import or the build has ended,
there is nothing left to do.
`Publication` and `SourceEvidence` never deadlock: the tool can always be started
again.

## 4. Proofs

`PublicationInvariant` defines `IInv` and the assumption `SoundFaults`;
`PublicationProofs` proves, for every value of `MaxBuilds` and `MaxFaults` and
for `Faults` and `KeepModes` such that `SoundFaults`:

| Theorem | Statement |
|---|---|
| `Invariant` | `Spec => []IInv` |
| `TypeCorrect` | `Spec => []TypeOK` |
| `ReportsMatch` | `Spec => []ReportsMatchDatabase` |
| `CommittedLive` | `Spec => []CommittedReportsLive` |
| `PriorKept` | `Spec => []PriorReportsKept` |
| `RecoveryUnblocked` | `Spec => []RecoveryNeverBlocked` |
| `FailureRestores` | `Spec => FailureRestoresReports` |
| `Refinement` | `Spec => AtomicSpec` |
| `KeptWhole` | `AlwaysKept` implies `Spec => []KeptBatchComplete` |

**The assumption.** `SoundFaults` excludes `interrupt` and `unreadable`, and
allows `kill` and `restore_error` only when failed batches are always kept. It
is exactly the set of faults under which the properties hold: each excluded one
is a finding of section 5, with a TLC counterexample. `AlwaysKept` is `SoundFaults` when
every rebuild is started with `--keep-failed-db`; without that option nobody promises
to keep a batch.

**The argument.** None of the properties is inductive. `PriorReportsKept` says
the previous reports are somewhere, but a step of the recovery keeps them only
because it knows where: if a name is live and its staged directory is absent,
the live one must be the new build's. `IInv` therefore says that while a
publication is pending each name is in one of three places, `Untouched`, `Moved`
or `Placed` (`PendingInv`), which of the three at each point of the publisher
(`TryInv`), the handler (`RestoreInv`) and recovery (`RecoverInv`), that the
journal names the batch the process works on (`JournalInv`), which shell step a
process belongs to (`ProcessInv`), and that a batch being built is newer than
anything published and owns nothing else (`FreshInv`). The trap may remove a
batch only when nothing is pending on it: that is the conjunct of `JournalInv`
which fails when a publisher may be killed without `--keep-failed-db`.

The proof has one lemma per action, `<Action>Step`, split by the conjuncts the
action can disturb; `NextStep` puts them together. `FailureRestores` needs two
facts about steps, that only `Unlink` removes the journal (`OnlyUnlinkSettles`)
and that it finds every name untouched; the refinement needs that only `Commit`
changes the database (`OnlyCommitPublishes`), to a newer build. `KeptInv` says
what a verified batch lacks only while the journal names it: its parts are then
live or staged, and the handler and the recovery put them back before they remove
the journal.

`SourceEvidenceInvariant` defines `IInv` and the assumption `OneWay`;
`SourceEvidenceProofs` proves, for any repositories, versions, importers,
databases and failures:

| Theorem | Statement |
|---|---|
| `TypesHold` | `Spec => []TypeOK` |
| `SourceInvariant` | `OneWay` implies `Spec => []IInv` |
| `SnapshotPublished` | `OneWay` implies `Spec => []GraphIsASnapshot` |
| `CodeQLSnapshotPublished` | `OneWay` implies `Spec => []CodeQLOfTheSnapshot` |
| `StrictProvenancePublished` | `OneWay` implies `Spec => []StrictProvenance` |

**The assumption.** `OneWay` says that no file returns to an earlier content. It is
needed: with `Reverts = TRUE` a file that is edited while it is imported and
restored before the provenance is collected leaves facts behind that no
inventory shows, and so does one that is restored after a CodeQL database was
extracted from it. Equality of digests taken at two moments cannot see either.

**The argument.** Under `OneWay` the versions of every file only grow. The plan is
a lower bound of all that is read after it (`PlanInv`, `FactsInv`, `InventoryInv`),
of what a database named after it holds (`OutsideInv`, `CodeQLInv`), and what is
collected at the end is an upper bound of it all (`CollectInv`): when
`validate_post_import` finds the collected inventory equal to the plan, nothing
in between can differ (`CheckedInv`, in `PostImportStep`). Only that step and `EditStep`
need an argument; only `EditStep` needs `OneWay`.

The other components share six proof modules. Each component has an inductive
invariant (`IInv` where no other name is given) and a lemma per action that shows
that it is kept:

| Module | Theorem | Statement |
|---|---|---|
| `InstallProofs` | `RuntimeSurvives` | `Spec => RuntimeKept` |
| | `SerialInvariant` | `Spec => []SInv` |
| | `TargetIsWhole` | `Spec => []TargetWhole` |
| | `OldPayloadStays` | `Spec => []OldPayloadKept` |
| | `UpgradeUndone` | `Spec => FailedUpgradeUndone` |
| | `LocalCarried` | `Spec => UpgradeCarriesLocal` |
| `CacheProofs` | `WholeHandedOut` | `DatabaseSpec => []HandedOutWhole` |
| | `EntriesLeftAlone` | `DatabaseSpec => EntryLeftAlone` |
| | `ImportedAsRecorded` | `VendorSpec => []SourcesAsRecorded` |
| | `ImportsAsNamed` | `QuerySpec => []ImportedAsNamed` |
| | `AloneGetsThrough` | `QuerySpec => OnlyRaisingBlocks` |
| `CorrectionsProofs` | `AppliedAsReviewed` | `Spec => []OnlyReviewedContent` |
| | `OneEffect` | `Spec => []OneEffectPerRun` |
| | `WholeRuns` | `Spec => []RunAllOrNothing` |
| | `SuccessorKept` | `Spec => []ReplacedFactHasSuccessor` |
| | `CommittedStays` | `Spec => CorrectionsStay` |
| | `NothingStale` | `Spec => []NoStalePublished` |
| `CallFactsProofs` | `CallsInvariant` | `SeparateWorlds` implies `CallsSpec => []CInv` |
| | `SupportedCalls` | `SeparateWorlds` implies `CallsSpec => []CallsSupported` |
| | `WrittenAccepted` | `SeparateWorlds` implies `CallsSpec => []WrittenAsValidated` |
| `ServiceScanProofs` | `ServiceInvariant` | `ServiceSpec => []ServiceInv` |
| | `RegistrationsKept` | `TypesNamedOnce` implies `ServiceSpec => []RegistrationsWhole` |
| | `KeysNeverGuessed` | `ServiceSpec => []KeySound` |
| `SymbolImportProofs` | `SymbolInvariant` | `SymbolSpec => []SymbolInv` |
| | `DefinitionsKept` | `SymbolSpec => []NoDefinitionLost` |
| | `CollisionsReported` | `SymbolSpec => []CollisionsExact` |
| | `SupertypesFound` | `SymbolSpec => []SupertypesDrawn` |
| | `BindersKept` | `SymbolSpec => []BindersAccounted` |

They assume what their modules assume of the constants, with no bound on them,
and the hypotheses that the table names, which are explained below.
In the modules that `MCExtraction` extends the initial condition, the next-state
relation and the specification carry the module's name (`DatabaseSpec`, `QuerySpec`,
`VendorSpec`, `CallsSpec`, `ServiceSpec`, `SymbolSpec`).

* **Installer.** A rename keeps a directory only if the tree it lands on has none
  of that name, and `_remove_path(target)` destroys what the target still holds.
  `OneTreeInv` says that a directory is in one tree at most, `RollbackInv` that a run
  has nothing in its rollback tree before it moves the target there, and
  `HandlerInv` that a handler's removal starts only after a failed call, and, where runs do
  not overlap, only after the handler has given back all of the target's directories;
  `OpenedInv` says what a removal can hold. Where runs overlap and a call has failed
  the target may be another run's by the time it is removed: that is the exception
  in `RuntimeKept`, and TLC shows that it is needed. Only one run is under
  way where runs do not overlap (`SerialInv`). A step that moves a directory swaps
  one element of the set of trees that hold it (`Moved`), which keeps its cardinality.
  What is said of payloads and of the local configuration holds where runs do
  not overlap, and there `SInv` says for each position of the run under way what
  its target, stage and rollback are (`Progress`): what it has found is still the
  target, or is in its rollback, whole or in part; and while it takes the target apart its
  rollback is the whole tree it found (`Saved`). `WholeInv` says that a target is in
  part only after such a removal, `PayloadInv` that a payload
  that a run has found belongs to a run that has ended, so that what a later
  handler removes as its own is never the old one. Where calls fail while the
  handler restores, it stops and leaves the old tree in its rollback.
* **Databases.** A manifest in an entry always names what is extracted for the
  entry's key (`EntryInv`), because the partial directory of a process does when it
  is promoted (`PartialInv`), and promotion never replaces an entry.
* **Query results.** Files may be damaged between runs, and an entry may be
  overwritten by an overlapping run, over a later pack too, after a run has
  looked at it; the importer does not look again.
  `FileInv` bounds the versions of every file by its entry's key, the present pack
  and `late` (`Fits`), for a run's loaded normalizer is no newer than what it
  fingerprints, and the same unless that version is in `late` (`MadeInv`).
  `ResultDigestInv` says that no manifest has the digest of a damaged file, so that
  `SettledInv` holds: no damaged file stands where a run has looked.
  That a run which has been alone since it began is stopped by a raising manifest only
  is `AInv`: such a run finds the directory it removes and none where it
  renames (`InOrder`), and the entries it has passed are whole.
* **Vendor artifacts.** A good record names an entry that is whole while the
  preparation goes on (`WholeEntry` in `RecordInv`), and an entry being rewritten is not
  one that a good record names; that a digest in a manifest is of a
  decompilation for its key (`DigestInv`) lets an entry be reused.
* **Corrections.** `TableInv` and `SavedInv` say the same of the tables of statuses
  in the database and of what a ROLLBACK restores: a status belongs to a
  correction of its run, and the run's corrections did not conflict. For the
  chains, `SupportedInv` says that what is applied would be applied again, and
  `ChainsEnd` that every set of replacements has a member that no other of the set
  hides: the one whose edge was made last, since no correction can be applied to
  an edge before it exists.

* **Calls.** A call site is written again by every import that finds its caller to
  be one method of the graph, and left as it is by one that does not. `CInv` says
  what is in the rows of a call that was written (`Written`), which `CALLS` edges
  are projected from them (`Projects`), and that the caller in a row an earlier
  import has left was found for its key (`SitesMeant`), so that the validator either
  finds the same caller or does not count the row. `SeparateWorlds` is what this
  needs of the sources: the ids of methods are finitely many, and nodes of the graph, and
  starts of calls (finding 6), are told apart by their keys. That two definitions look for
  one method is not excluded, and the property says what becomes of it. Two
  definitions of one key in two files, an import that is killed after its calls are
  committed, and a second method of that name that appears before the next import
  make the caller ambiguous. Its site and targets stay, nothing projects them
  again, and the validator passes the graph without the edge, for the other
  definition keeps the old caller among the methods it knows. So `CallsSupported` says
  that the edges are those of the sites whose caller the definitions in the tables know
  (`KnownSites`), and those of all sites only where no two definitions look for one
  method (`DefinedOnce`) or no methods have appeared.
  The other direction, what the validator rejects, is said for as long as no method is
  added. The definitions and sites in the tables are then a function of the
  sources (`Here`, lemma `SitesNow`), so the owner of every value, the site of every
  sink and the guards and transitions of every trace are too, and `FlowsWritten` says
  that each path and trace in the tables, of this import or another, is the one
  that is written now (`PathRow`, `TraceRow`). The edges that mark a restoration are
  taken away and written again with each trace of a site; they stay in step with the
  traces because all traces of a site have the same transitions (`OneSite`).
  `WrittenInv` keeps this through commits and kills, and `VerdictExact` goes through
  the four checks of the validator one by one. `SourcesAssumption` is what CodeQL and
  the decoder guarantee: result sets are finite, `relationKind` of `CallSites.ql`
  gives no candidates exactly to an unresolved call and one to a certain one, and a
  path is named by its digest.
* **Services.** `CacheInv` says that an entry the scan would use was parsed from the
  content of its key, `LoadedInv` that a loaded model is the one of what was read,
  whatever was in the cache, and `FactsInv` that the facts in the graph and those still
  to import are the facts of what was loaded. For the keys, the resolver and the
  language follow the same chain of constants for as long as the resolver finds
  one declaration at each step, and once it does not it resolves nothing; the proof goes
  through the `MaxDepth` steps one by one. `TypesNamedOnce`, which
  `RegistrationsKept` needs, says that types of one qualified name are of one kind (all
  classes, say): without it a class that was found by the end of its name may be
  hidden by a later interface of the same full name, when `import_fact` looks it
  up again, and the registration is left with an instance and no `REGISTERED_AS`
  edge. `TreesAssumption` gives the types of what the lexer reports, and of the list of
  files that `ScanList` flattens, which is induction over data; TLC evaluates it
  on every tree of the run.

* **Symbols.** `SymbolInv` says of each thing in the sources that it is in the graph
  or that a command still to run will bring it there, and of each thing in the
  graph that is reported or related where it comes from (`DefinedInv`, `KnownInv`,
  `BinderInv`, `SupertypesInv`). Which commands have run follows from the turns
  (`ScheduleInv`): every symbol and interface of the platform is in the graph before the
  first relation or supertype is looked up (`PlatformComplete`), and until the
  artifacts come, in part 6, the types in it are those of the platform, so that what
  an artifact declares hides none. A node is written over by every later upsert
  of its identifier; a definition's identifier has its file and line, so its row keeps the
  file, and the repository until the annotation replaces it by the innermost one
  around the path (`NodesInv`). For
  the supertypes, every rule of `Resolve` finds only types of the reference's simple
  name, so the first rule that finds anything finds the one type that is meant
  (lemma `Resolves`); what a process has seen it has drawn, from a declaration in the same
  repository (`SeenInv`). `WorldsAssumption` is what the readers guarantee of the
  sources: names and paths are sequences of names, the plan lists every repository, the
  manifest lists artifacts, and no artifact is called like a repository. Where the
  files of artifacts lie is left open.

**Model-checked only.**

* `InterruptionSettled` and `QuietSourcesPublished`: liveness under fairness.

Every invariant that a passing run checks is stated by a theorem, and so is every action
property and the refinement.

## 5. Findings

Where the code does not do what its documents say, a run states the document's
sentence as a property and TLC refutes it.

1. `killed_publisher`: a killed publisher lets the trap remove the staging batch
   while the journal is pending; recovery then takes the previous reports for
   new ones.
2. `interrupted_commit`: Ctrl-C between `os.replace` of the database and
   `database_committed = True` leaves the new database with the previous
   reports. The same signal between a rename to rollback storage and
   `backed_up_names.add` destroys that report directory.
3. `unreadable_database`: recovery rolls back a committed publication whose
   database it cannot read at that moment.
4. `corrections_strict`: a correction for another source revision is dropped,
   not stale, so strict publication passes.
5. `source_provenance`: the provenance that is published is collected after the
   one that is checked; without `--strict` it may name other sources than the plan
   and the scope report it is published with.

6. `chained_calls`: the id of a call site has the position where the call starts,
   and the calls of `x.run(a).run(b)` all start at `x`. The second takes over the
   call site of the first, whose `CALLS` edge is left without a target; the
   validator passes it.

Two more disagreements are part of a property that holds, `WrittenAsValidated`, for
they stop a build rather than letting a wrong one pass; it says that there is
no third.

* A paired identity transition is counted once by the materializer
  (`materializer.py:867`) and, with its restoration, twice by the validator
  (`call_dataflow_validation.py:156`). If the restoration is not found there is a
  clear without a restore instead (line 163). So neither a trace with a restoration
  that was found nor one whose transitions are all paired is ever published.
* Two callees that differ in the packages of their parameter types may be
  reconciled to one method of the graph (`identity.py` compares the simple names). They are
  two candidates and one target, and the validator wants as many targets as
  candidates (`call_dataflow_validation.py:75`).

In these cases, too, the code does less than one might expect, and the property that
holds says just how much:

* `annotate` (`pipeline.py:130`) gives a vendor symbol the name of a platform
  repository when its path, relative to the directory it was decompiled to
  (`multi_vendor.py:133`), starts like the repository's. A collision of the two then goes
  unseen, and the strict gate passes it; one of two artifacts, or of an artifact and
  another repository, is reported under a wrong name. `CollisionsExact` says what is
  reported for all paths, and that it is all collisions of owners when no artifact's file
  lies below a repository's path.
* `codeql_runner.py` loads the normalizer (lines 15-16) before it takes the fingerprint
  (264). After an edit in between, results of the older normalizer stand under the newer
  key, and later runs take them for hits; `project/README.md:152` says that any change
  forces a new evaluation. `ImportedAsNamed` says that this is the only way.
* A manifest of query results that is not UTF-8, or has null for a path, raises past the
  handlers (`codeql_runner.py:139`, `:289`) and fails every later run; all other damage is
  repaired. `OnlyRaisingBlocks` says so.
* The installer takes no lock. An upgrade that fails while another one has promoted its
  tree removes that tree with `data/` and `.venv/` (`install_project.py:230`):
  `RuntimeKept` has this one exception.
* A call site whose caller becomes ambiguous between two imports keeps its targets
  without a `CALLS` edge, and the validator passes it (`CallsSupported`, section 4).

## 6. What is not modelled

Left out of the modelled parts: the copy of a batch to `data/history`
(`--retain-history`), which nothing reads back; the file system's durability
below the rename; the contents of report directories; the wording of reports.
`Install` checks the payload comparison as one step that may fail. `Corrections`
does not tell ordinary nodes from edges, and leaves out annotations' texts,
the provenance nodes of a replacement, and the views' second reason to hide an
edge, an endpoint that is a candidate node (a promotion may still name one).
`SourceEvidence` leaves out the revision a repository is checked out at, build
inputs, vendor artifacts and configuration files, what an importer makes of a
file, and the refusals that depend on it (a language without a parser, a
capability that was not observed); every importer reads every file.
`DatabaseCache` leaves out the shared `OUT_DIR` of the build that CodeQL traces;
`QueryCache` an edit of the pack that is undone before the run ends, which the
code cannot see; `VendorCache` an artifact that is replaced while JADX reads it
(here artifacts change between rebuilds). `SymbolImport`, `ServiceScan` and `CallFacts` take what a lexer, ctags
or CodeQL reports as data, and leave out evidence rows and the source columns of
nodes that no later step reads. `CallFacts` has one extraction run per graph.

What the properties do not say, because the code does not promise it: which of
several types of one qualified name a supertype edge names
(`java_inheritance_importer.py:194`, the last row wins); that a simple name found
only once is the type that was meant (`:259`); that an import of the file decides
where a type of the default package has the name (`:208`), or that it does not for a
reference with a qualifier (`:212`); that a registered constant of
a unique simple name is (`service_registration_importer.py:931`); that an AIDL
stub that cannot be resolved is reported (`aidl_binder_importer.py:273`, it is
dropped before the report); that a repeated import removes what it no longer
finds, but for its own `CALLS` edges (`materializer.py:279`): guard and identity edges,
and the source and sink of a path, stay as they were (`:627`, `:724`).

Not modelled at all, with the reason:

* the permission importers and resolver: lexical scans of one file at a time,
  whose facts no other step depends on;
* the native facts (Soong, Ninja, C, C++, Rust, JNI) and the fact materializer:
  syntax readers, and a linker over what they find; the pipeline that runs them
  is in `SourceEvidence`;
* configuration, registry and language detection, evaluated once before
  anything is written: the plan is an input here;
* the migration runner: a rebuild migrates a new, empty database in one
  transaction;
* payload manifest, graph fingerprint and graph comparison: read-only
  comparisons without state;
* an upgrade by the installer during a rebuild, which share no lock.
