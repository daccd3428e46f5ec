------------------------------ MODULE QueryCache ------------------------------
(***************************************************************************)
(* The cache of query results: run_queries in workspace/codeql_runner.py   *)
(* and its two callers, scripts/run_codeql_queries.py, which takes no      *)
(* lock, and workspace/codeql_import.py, which imports what the run names. *)
(*                                                                         *)
(* The pack (queries, libraries and the normalizer) is one version number; *)
(* the fingerprint of a run reads all of it, a query that is executed the  *)
(* libraries as they are then, while the normalizer is Python that the     *)
(* process has loaded before it takes the fingerprint.  An edit touches a  *)
(* library or the normalizer, which the hash of the query itself does not  *)
(* show.  The cache key of a query is the query and the version the run    *)
(* read.  A result file holds the two versions that made it: of the        *)
(* libraries, and of the normalizer.                                       *)
(***************************************************************************)
EXTENDS Naturals, FiniteSets

CONSTANTS
    Workers,      \* overlapping runs of run_queries
    Queries,      \* the queries a pack may have
    MaxWork,      \* bound on the number of runs times that of queries
    MaxVersion,   \* bound on edits of the pack
    MaxRunFaults  \* bound on kills, failing calls and damaged files

ASSUME MaxVersionAssumption == MaxVersion \in Nat

VARIABLES
    pack,         \* the version of the pack on disk
    queries,      \* the queries of the pack
    cache,        \* cache/<key>, for each key
    decoder,      \* the version whose normalizer each run has loaded
    bundle,       \* the version each run took the fingerprint of
    late,         \* versions a run fingerprinted with an older one loaded
    pending,      \* the queries a run has still to process
    query,        \* the query a run is at
    made,         \* .<query>.partial of a run: the versions that made it
    at,           \* where a run is
    imported,     \* what a run's importer read, for each query
    alone,        \* no other run was active since this one started
    runFaults     \* faults so far

queryVars == <<pack, queries, cache, decoder, bundle, late, pending, query, made, at, imported,
               alone, runFaults>>

\* What no step of a run but its first two changes.
versionVars == <<pack, queries, decoder, bundle, late, alone>>

Versions == 0 .. MaxVersion
Parts == {"raw", "normalized"}
Gone == <<MaxVersion + 1, 0>>      \* a file that is not there
Damaged == <<MaxVersion + 2, 0>>   \* a file that something else has written

\* cache/<key>: its result files and the digests of its manifest, if any.
Absent == [files |-> [f \in Parts |-> Gone], digests |-> {}, dir |-> FALSE]

\* A manifest whose digests fit no files: broken JSON, or other fields.
Unfit == [f \in Parts |-> Gone]

\* A manifest whose check raises what run_queries does not catch: bytes that
\* are not UTF-8, null for a path, a result file that may not be opened.
Raising == [f \in Parts |-> <<MaxVersion + 3, 0>>]

NothingYet == [q \in Queries |-> Gone]

Ended == {"off", "done", "failed", "killed"}
Active(r) == at[r] \notin Ended
CacheKey(r) == <<query[r], bundle[r]>>
RunAt(r, where) == at' = [at EXCEPT ![r] = where]

\* Mutants: the files are not hashed; an entry that is not valid is an error.
HitUnchecked(held) == held.digests # {}
RemoveNever(r) ==
    /\ at[r] = "remove"
    /\ RunAt(r, "failed")
    /\ UNCHANGED <<versionVars, cache, pending, query, made, imported, runFaults>>

\* _load_artifact and _valid_artifact: a manifest, and files that fit it.
Hit(held) ==
    /\ held.digests = {held.files}
    /\ \A f \in Parts : held.files[f] # Gone

----------------------------------------------------------------------------

QueryStart ==
    /\ pack = 0
    /\ cache = [k \in Queries \X Versions |-> Absent]
    /\ decoder = [r \in Workers |-> 0]
    /\ bundle = [r \in Workers |-> 0]
    /\ late = {}
    /\ pending = [r \in Workers |-> {}]
    /\ query = [r \in Workers |-> CHOOSE q \in Queries : TRUE]
    /\ made = [r \in Workers |-> <<0, 0>>]
    /\ imported = [r \in Workers |-> NothingYet]
    /\ alone = [r \in Workers |-> TRUE]
    /\ runFaults = 0

\* What the variables are while the module takes no part.
QueryOff == QueryStart /\ queries = {} /\ at = [r \in Workers |-> "off"]

QueryInit ==
    /\ QueryStart
    /\ queries \in (SUBSET Queries) \ {{}}
    /\ \E active \in (SUBSET Workers) \ {{}} :
          /\ Cardinality(active) * Cardinality(queries) <= MaxWork
          /\ at = [r \in Workers |-> IF r \in active THEN "done" ELSE "off"]

\* A process starts: it loads the normalizer, and lists the queries.
Begin(r) ==
    /\ at[r] \in Ended \ {"off"}
    /\ decoder' = [decoder EXCEPT ![r] = pack]
    /\ pending' = [pending EXCEPT ![r] = queries]
    /\ imported' = [imported EXCEPT ![r] = NothingYet]
    /\ alone' = [s \in Workers |->
                    IF s = r THEN \A o \in Workers \ {r} : ~Active(o)
                    ELSE alone[s] /\ ~Active(s)]
    /\ RunAt(r, "start")
    /\ UNCHANGED <<pack, queries, cache, bundle, late, query, made, runFaults>>

\* _semantic_bundle_fingerprint, once, before the first query: of the files
\* of the normalizer on disk, not of what the process has loaded.
Fingerprint(r) ==
    /\ at[r] = "start"
    /\ bundle' = [bundle EXCEPT ![r] = pack]
    /\ late' = late \cup ({pack} \ {decoder[r]})
    /\ RunAt(r, "look")
    /\ UNCHANGED <<pack, queries, cache, decoder, pending, query, made, imported, alone, runFaults>>

\* for query in queries: a sorted list, but no query depends on another.  A
\* valid entry is a hit, any other one is made again, but an error other than
\* CodeQLRunnerError ends the run.
Look(r) ==
    /\ at[r] = "look"
    /\ \E q \in pending[r] :
          LET held == cache[<<q, bundle[r]>>] IN
          /\ query' = [query EXCEPT ![r] = q]
          /\ pending' = [pending EXCEPT ![r] = @ \ {q}]
          /\ RunAt(r, IF Raising \in held.digests THEN "failed"
                     ELSE IF Hit(held) THEN "publish" ELSE "execute")
    /\ UNCHANGED <<versionVars, cache, made, imported, runFaults>>

\* query run and bqrs decode, into a directory of the run's own: by the
\* libraries that are there now, and by the normalizer that is loaded.
Execute(r) ==
    /\ at[r] = "execute"
    /\ made' = [made EXCEPT ![r] = <<pack, decoder[r]>>]
    /\ RunAt(r, IF cache[CacheKey(r)].dir THEN "remove" ELSE "replace")
    /\ UNCHANGED <<versionVars, cache, pending, query, imported, runFaults>>

\* shutil.rmtree(cache), a file at a time and the directory at last.  It
\* fails when another run has removed the directory under it.
RemoveResult(r) ==
    LET held == cache[CacheKey(r)]
        Drop(new) == cache' = [cache EXCEPT ![CacheKey(r)] = new]
    IN
    /\ at[r] = "remove"
    /\ \/ /\ held.digests # {}
          /\ Drop([held EXCEPT !.digests = {}])
          /\ UNCHANGED at
       \/ \E f \in Parts :
             /\ held.files[f] # Gone
             /\ Drop([held EXCEPT !.files[f] = Gone])
             /\ UNCHANGED at
       \/ /\ held = [Absent EXCEPT !.dir = TRUE]
          /\ Drop(Absent)
          /\ RunAt(r, "replace")
       \/ /\ ~held.dir
          /\ RunAt(r, "failed")
          /\ UNCHANGED cache
    /\ UNCHANGED <<versionVars, pending, query, made, imported, runFaults>>

\* os.replace(partial, cache), onto nothing or onto an empty directory.
Replace(r) ==
    LET held == cache[CacheKey(r)]
        free == held.digests = {} /\ \A f \in Parts : held.files[f] = Gone
    IN
    /\ at[r] = "replace"
    /\ cache' = IF ~free THEN cache
                ELSE [cache EXCEPT ![CacheKey(r)] =
                        [files |-> [f \in Parts |-> made[r]], digests |-> {}, dir |-> TRUE]]
    /\ made' = [made EXCEPT ![r] = <<0, 0>>]
    /\ RunAt(r, IF free THEN "describe" ELSE "failed")
    /\ UNCHANGED <<versionVars, pending, query, imported, runFaults>>

\* The digests are those of the files in the cache, and the manifest is
\* written next to them; another run may have removed them meanwhile.
DescribeResult(r) ==
    LET held == cache[CacheKey(r)] IN
    /\ at[r] = "describe"
    /\ IF \A f \in Parts : held.files[f] # Gone
       THEN /\ cache' = [cache EXCEPT ![CacheKey(r)].digests = {held.files}]
            /\ RunAt(r, "publish")
       ELSE RunAt(r, "failed") /\ UNCHANGED cache
    /\ UNCHANGED <<versionVars, pending, query, made, imported, runFaults>>

\* _publish copies the normalized file; after the last query the run's
\* manifest is written and the importer starts.
Publish(r) ==
    /\ at[r] = "publish"
    /\ RunAt(r, IF cache[CacheKey(r)].files["normalized"] = Gone THEN "failed"
               ELSE IF pending[r] = {} THEN "import" ELSE "look")
    /\ UNCHANGED <<versionVars, cache, pending, query, made, imported, runFaults>>

\* _load_records: the normalized files of the cache, query by query.
Import(r) ==
    /\ at[r] = "import"
    /\ \E q \in queries :
          LET file == cache[<<q, bundle[r]>>].files["normalized"] IN
          /\ imported[r][q] = Gone
          /\ imported' = [imported EXCEPT ![r][q] = file]
          /\ RunAt(r, IF file = Gone THEN "failed"
                     ELSE IF \A o \in queries \ {q} : imported[r][o] # Gone
                     THEN "done" ELSE "import")
    /\ UNCHANGED <<versionVars, cache, pending, query, made, runFaults>>

----------------------------------------------------------------------------

\* A developer edits the pack.
EditPack ==
    /\ pack < MaxVersion
    /\ \E r \in Workers : at[r] # "off"
    /\ pack' = pack + 1
    /\ UNCHANGED <<queries, cache, decoder, bundle, late, pending, query, made, at, imported, alone,
                   runFaults>>

RunFault == runFaults < MaxRunFaults /\ runFaults' = runFaults + 1

\* The run is killed, or codeql fails: what is in the cache stays as it is.
StopRun(r) ==
    /\ Active(r)
    /\ RunFault
    /\ RunAt(r, "killed")
    /\ made' = [made EXCEPT ![r] = <<0, 0>>]
    /\ pending' = [pending EXCEPT ![r] = {}]
    /\ UNCHANGED <<versionVars, cache, query, imported>>

\* Between two runs a result file or a manifest of the cache is overwritten
\* or lost.
DamageResult ==
    /\ \A r \in Workers : ~Active(r)
    /\ RunFault
    /\ \E k \in DOMAIN cache :
          \/ \E f \in Parts, found \in {Gone, Damaged} :
                /\ cache[k].files[f] # Gone
                /\ cache' = [cache EXCEPT ![k].files[f] = found]
          \/ \E found \in {{}, {Unfit}, {Raising}} :
                /\ cache[k].digests # {}
                /\ cache' = [cache EXCEPT ![k].digests = found]
    /\ UNCHANGED <<versionVars, pending, query, made, at, imported>>

RunStep(r) ==
    \/ Begin(r) \/ Fingerprint(r) \/ Look(r) \/ Execute(r) \/ RemoveResult(r)
    \/ Replace(r) \/ DescribeResult(r) \/ Publish(r) \/ Import(r)

QueryNext == EditPack \/ DamageResult \/ \E r \in Workers : RunStep(r) \/ StopRun(r)

QuerySpec == QueryInit /\ [][QueryNext]_queryVars

----------------------------------------------------------------------------

(***************************************************************************)
(* A run that imports completely has, for every query, an undamaged result *)
(* of libraries no older than those it fingerprinted, and of just those if *)
(* nothing was edited after that.  The normalizer of a result is never a   *)
(* later one than was fingerprinted, and an earlier one only if some run   *)
(* took the fingerprint of this version with an earlier one loaded: the    *)
(* key does not show it, and the result is a hit for every later run       *)
(* (import_codeql_facts reads the cache without checking it again).        *)
(***************************************************************************)
ImportedAsNamed ==
    \A r \in Workers : at[r] = "done" /\ imported[r] # NothingYet =>
        \A q \in queries :
            \E rows \in bundle[r] .. MaxVersion, by \in 0 .. bundle[r] :
                /\ imported[r][q] = <<rows, by>>
                /\ pack = bundle[r] => rows = bundle[r]
                /\ bundle[r] \notin late => by = bundle[r]

(***************************************************************************)
(* Whatever crashes, failures and damage left in the cache, a run that     *)
(* overlaps with no other one fails at one place only: on an entry whose   *)
(* check raises what run_queries does not catch.  Any other entry that is  *)
(* not valid is made again (unlike prepare_database, which refuses it).    *)
(***************************************************************************)
OnlyRaisingBlocks ==
    [][\A r \in Workers : alone[r] /\ Active(r) /\ at'[r] = "failed" =>
          Raising \in cache[<<query'[r], bundle[r]>>].digests]_queryVars
=============================================================================
