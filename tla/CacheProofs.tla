---------------------------- MODULE CacheProofs ----------------------------
(***************************************************************************)
(* What the caches hand out: CodeQL databases, decompiled artifacts and    *)
(* query results, for any number of processes, artifacts, versions, edits, *)
(* kills and damaged entries.                                              *)
(***************************************************************************)
EXTENDS DatabaseCache, VendorCache, QueryCache, TLAPS

(***************************************************************************)
(* prepare_database: the inductive invariant says what the manifest of an  *)
(* entry, and each process's own directory, vouch for.                     *)
(***************************************************************************)
Pairs == (Covered \cup Runtime) \X (Keys \cup {"changed", "runtime"})
Manifests == [key : Keys, content : SUBSET Pairs]
DatabaseTrees == [files : SUBSET Pairs, manifest : SUBSET Manifests]

(* Every manifest of a key describes what is extracted for that key.         *)
Described(t, key) == \A m \in t.manifest : m = Manifest(key, Files(key))

DatabaseTypeInv ==
  /\ wants \in [Preparers -> Keys]
  /\ step \in [Preparers -> {"look", "describe", "promote", "clean", "clean, returned",
                             "returned", "failed", "killed"}]
  /\ entry \in [Keys -> DatabaseTrees]
  /\ partial \in [Preparers -> DatabaseTrees]
  /\ returned \in [Preparers -> DatabaseTrees]
  /\ dbFaults \in Nat

EntryInv == \A k \in Keys : Described(entry[k], k)

PartialInv ==
  \A p \in Preparers :
    /\ step[p] = "describe" => partial[p].files = Files(wants[p])
    /\ step[p] = "promote" =>
         /\ partial[p].files = Files(wants[p])
         /\ Described(partial[p], wants[p])

ReturnedInv ==
  \A p \in Preparers :
    step[p] \in {"returned", "clean, returned"} =>
      Content(returned[p].files) = Files(wants[p])

DatabaseInv == DatabaseTypeInv /\ EntryInv /\ PartialInv /\ ReturnedInv

(* What is extracted for a key is covered by the fingerprint. *)
LEMMA FilesCovered == ASSUME NEW k PROVE Content(Files(k)) = Files(k)
  BY DEF Content, Files, Covered

(* A valid entry holds what was extracted for its key. *)
LEMMA ValidIsWhole ==
  ASSUME NEW k, NEW t, Described(t, k), Valid(t, k)
  PROVE Content(t.files) = Files(k)
  BY FilesCovered DEF Described, Valid, SelfConsistent, Manifest

(* What the steps write has its type. *)
LEMMA DatabaseTreeTypes ==
  /\ NoTree \in DatabaseTrees
  /\ \A k \in Keys : Files(k) \in SUBSET Pairs
  /\ \A k \in Keys, t \in DatabaseTrees : Manifest(k, t.files) \in Manifests
  <1>1. \A k \in Keys : Files(k) \in SUBSET Pairs
    BY DEF Files, Pairs
  <1>2. \A k \in Keys, t \in DatabaseTrees : Manifest(k, t.files) \in Manifests
    <2> SUFFICES ASSUME NEW k \in Keys, NEW t \in DatabaseTrees
                 PROVE  Manifest(k, t.files) \in Manifests
      OBVIOUS
    <2>1. Content(t.files) \in SUBSET Pairs BY DEF DatabaseTrees, Content
    <2> QED BY <2>1 DEF Manifest, Manifests
  <1>3. NoTree \in DatabaseTrees BY DEF NoTree, DatabaseTrees
  <1> QED BY <1>1, <1>2, <1>3

LEMMA FaultCounts ==
  ASSUME dbFaults \in Nat, Fault PROVE dbFaults' \in Nat /\ dbFaults' # dbFaults
  <1>1. dbFaults' = dbFaults + 1 BY DEF Fault
  <1> QED BY <1>1

LEMMA InitDatabaseInv == DatabaseInit => DatabaseInv
  <1> SUFFICES ASSUME DatabaseInit PROVE DatabaseInv OBVIOUS
  <1>1. DatabaseTypeInv BY DatabaseTreeTypes DEF DatabaseInit, DatabaseTypeInv
  <1>2. EntryInv BY DEF DatabaseInit, EntryInv, NoTree, Described
  <1>3. PartialInv /\ ReturnedInv BY DEF DatabaseInit, PartialInv, ReturnedInv
  <1> QED BY <1>1, <1>2, <1>3 DEF DatabaseInv

LEMMA ReuseStep ==
  ASSUME DatabaseInv, NEW p \in Preparers, Reuse(p) PROVE DatabaseInv'
  <1> USE DEF DatabaseInv
  <1>1. wants[p] \in Keys BY DEF DatabaseTypeInv
  <1>2. Content(entry[wants[p]].files) = Files(wants[p])
    BY <1>1, ValidIsWhole DEF Reuse, KeyOf, EntryInv
  <1>3. DatabaseTypeInv' BY <1>1 DEF Reuse, KeyOf, Goto, DatabaseTypeInv
  <1>4. EntryInv' /\ PartialInv'
    BY DEF Reuse, Goto, DatabaseTypeInv, EntryInv, PartialInv
  <1>5. ReturnedInv'
    BY <1>2 DEF Reuse, KeyOf, Goto, DatabaseTypeInv, ReturnedInv
  <1> QED BY <1>3, <1>4, <1>5

LEMMA RejectStep ==
  ASSUME DatabaseInv, NEW p \in Preparers, Reject(p) PROVE DatabaseInv'
  BY DEF DatabaseInv, Reject, Goto, DatabaseTypeInv, EntryInv, PartialInv, ReturnedInv

LEMMA CreateStep ==
  ASSUME DatabaseInv, NEW p \in Preparers, Create(p) PROVE DatabaseInv'
  <1> USE DEF DatabaseInv
  <1> DEFINE whole == [files |-> Files(wants[p]), manifest |-> {}]
  <1>1. whole \in DatabaseTrees BY DatabaseTreeTypes DEF DatabaseTypeInv, DatabaseTrees
  <1>2. partial' = [partial EXCEPT ![p] = whole] /\ step' = [step EXCEPT ![p] = "describe"]
    BY DEF Create, KeyOf, Goto
  <1>3. whole.files = Files(wants[p]) OBVIOUS
  <1> HIDE DEF whole
  <1>4. DatabaseTypeInv' BY <1>1, <1>2 DEF Create, DatabaseTypeInv
  <1>5. PartialInv' BY <1>2, <1>3 DEF Create, DatabaseTypeInv, PartialInv
  <1>6. EntryInv' /\ ReturnedInv' BY <1>2 DEF Create, DatabaseTypeInv, EntryInv, ReturnedInv
  <1> QED BY <1>4, <1>5, <1>6

LEMMA DescribeStep ==
  ASSUME DatabaseInv, NEW p \in Preparers, Describe(p) PROVE DatabaseInv'
  <1> USE DEF DatabaseInv
  <1>1. partial[p] \in DatabaseTrees /\ wants[p] \in Keys BY DEF DatabaseTypeInv
  <1>2. partial[p].files = Files(wants[p]) BY DEF Describe, PartialInv
  <1> DEFINE whole == [partial[p] EXCEPT !.manifest = {Manifest(wants[p], partial[p].files)}]
  <1>3. partial' = [partial EXCEPT ![p] = whole] /\ step' = [step EXCEPT ![p] = "promote"]
    BY DEF Describe, KeyOf, Goto
  <1>4. whole = [files |-> Files(wants[p]), manifest |-> {Manifest(wants[p], Files(wants[p]))}]
    BY <1>1, <1>2 DEF DatabaseTrees
  <1>5. whole \in DatabaseTrees
    <2>1. Manifest(wants[p], Files(wants[p])) \in Manifests BY <1>1, <1>2, DatabaseTreeTypes
    <2> QED BY <1>1, <1>4, <2>1, DatabaseTreeTypes DEF DatabaseTrees
  <1>6. whole.files = Files(wants[p]) /\ whole.manifest = {Manifest(wants[p], Files(wants[p]))}
    BY <1>4
  <1> HIDE DEF whole
  <1>7. DatabaseTypeInv' BY <1>3, <1>5 DEF Describe, DatabaseTypeInv
  <1>8. PartialInv'
    BY <1>3, <1>6 DEF Describe, DatabaseTypeInv, PartialInv, Described
  <1>9. EntryInv' /\ ReturnedInv'
    BY <1>3 DEF Describe, EntryInv, ReturnedInv, DatabaseTypeInv
  <1> QED BY <1>7, <1>8, <1>9

LEMMA PromoteStep ==
  ASSUME DatabaseInv, NEW p \in Preparers, Promote(p) PROVE DatabaseInv'
  <1> USE DEF DatabaseInv
  <1>1. partial[p].files = Files(wants[p]) /\ Described(partial[p], wants[p])
    BY DEF Promote, PartialInv
  <1>2. DatabaseTypeInv' BY DatabaseTreeTypes DEF Promote, KeyOf, Goto, DatabaseTypeInv
  <1>3. EntryInv' BY <1>1 DEF Promote, KeyOf, DatabaseTypeInv, EntryInv
  <1>4. PartialInv' BY DEF Promote, Goto, DatabaseTypeInv, PartialInv
  <1>5. ReturnedInv' BY <1>1, FilesCovered DEF Promote, Goto, DatabaseTypeInv, ReturnedInv
  <1> QED BY <1>2, <1>3, <1>4, <1>5

LEMMA PromoteLostStep ==
  ASSUME DatabaseInv, NEW p \in Preparers, PromoteLost(p) PROVE DatabaseInv'
  <1> USE DEF DatabaseInv
  <1>1. wants[p] \in Keys BY DEF DatabaseTypeInv
  <1>2. Valid(entry[wants[p]], wants[p]) => Content(entry[wants[p]].files) = Files(wants[p])
    BY <1>1, ValidIsWhole DEF EntryInv
  <1>3. DatabaseTypeInv' BY <1>1 DEF PromoteLost, KeyOf, Goto, DatabaseTypeInv
  <1>4. EntryInv' /\ PartialInv'
    BY DEF PromoteLost, Goto, DatabaseTypeInv, EntryInv, PartialInv
  <1>5. ReturnedInv'
    BY <1>2 DEF PromoteLost, KeyOf, Goto, DatabaseTypeInv, ReturnedInv
  <1> QED BY <1>3, <1>4, <1>5

LEMMA CleanStep ==
  ASSUME DatabaseInv, NEW p \in Preparers, Clean(p) PROVE DatabaseInv'
  <1> USE DEF DatabaseInv
  <1>1. DatabaseTypeInv' BY DatabaseTreeTypes DEF Clean, Goto, DatabaseTypeInv
  <1>2. EntryInv' BY DEF Clean, EntryInv
  <1>3. PartialInv' /\ ReturnedInv'
    BY DEF Clean, Goto, DatabaseTypeInv, PartialInv, ReturnedInv
  <1> QED BY <1>1, <1>2, <1>3

LEMMA AgainStep ==
  ASSUME DatabaseInv, NEW p \in Preparers, Again(p) PROVE DatabaseInv'
  <1> USE DEF DatabaseInv
  <1>1. DatabaseTypeInv' BY DatabaseTreeTypes DEF Again, Goto, DatabaseTypeInv
  <1>2. EntryInv' BY DEF Again, EntryInv
  <1>3. PartialInv' /\ ReturnedInv'
    BY DEF Again, Goto, DatabaseTypeInv, PartialInv, ReturnedInv
  <1> QED BY <1>1, <1>2, <1>3

(* Another set of files leaves the manifests of an entry alone. *)
LEMMA FilesReplaced ==
  ASSUME DatabaseInv, NEW k \in Keys, NEW files \in SUBSET Pairs,
         entry' = [entry EXCEPT ![k] = [@ EXCEPT !.files = files]]
  PROVE  /\ entry' \in [Keys -> DatabaseTrees]
         /\ EntryInv'
         /\ entry'[k].files = files
  <1> USE DEF DatabaseInv
  <1>1. entry[k] \in DatabaseTrees BY DEF DatabaseTypeInv
  <1>2. [entry[k] EXCEPT !.files = files] = [files |-> files, manifest |-> entry[k].manifest]
    BY <1>1 DEF DatabaseTrees
  <1>3. entry' = [entry EXCEPT ![k] = [files |-> files, manifest |-> entry[k].manifest]]
    BY <1>2
  <1>4. [files |-> files, manifest |-> entry[k].manifest] \in DatabaseTrees BY <1>1 DEF DatabaseTrees
  <1>5. entry' \in [Keys -> DatabaseTrees] BY <1>3, <1>4 DEF DatabaseTypeInv
  <1>6. entry'[k].files = files BY <1>3 DEF DatabaseTypeInv
  <1>7. \A j \in Keys : entry'[j].manifest = entry[j].manifest
    <2>1. entry'[k].manifest = entry[k].manifest BY <1>3 DEF DatabaseTypeInv
    <2>2. \A j \in Keys \ {k} : entry'[j] = entry[j] BY <1>3 DEF DatabaseTypeInv
    <2> QED BY <2>1, <2>2
  <1> QED BY <1>5, <1>6, <1>7 DEF EntryInv, Described

LEMMA QueryWritesStep ==
  ASSUME DatabaseInv, NEW k \in Keys, QueryWrites(k)
  PROVE  DatabaseInv' /\ Content(entry'[k].files) = Content(entry[k].files)
  <1> USE DEF DatabaseInv
  <1> DEFINE files == entry[k].files \cup {<<f, "runtime">> : f \in Runtime}
  <1>1. entry[k].files \in SUBSET Pairs BY DEF DatabaseTypeInv, DatabaseTrees
  <1>2. files \in SUBSET Pairs BY <1>1 DEF Pairs
  <1>3. entry' = [entry EXCEPT ![k] = [@ EXCEPT !.files = files]]
    BY DEF QueryWrites, DatabaseTypeInv
  <1>4. Content(files) = Content(entry[k].files)
    <2>1. \A pair \in {<<f, "runtime">> : f \in Runtime} : pair[1] \notin Covered
      <3>1. "query cache" \notin Covered BY DEF Covered
      <3>2. {<<f, "runtime">> : f \in Runtime} = {<<"query cache", "runtime">>} BY DEF Runtime
      <3>3. <<"query cache", "runtime">>[1] = "query cache" OBVIOUS
      <3> QED BY <3>1, <3>2, <3>3
    <2> QED BY <2>1 DEF Content
  <1> HIDE DEF files
  <1>5. entry' \in [Keys -> DatabaseTrees] /\ EntryInv' /\ entry'[k].files = files
    BY <1>2, <1>3, FilesReplaced
  <1>6. DatabaseTypeInv' /\ PartialInv' /\ ReturnedInv'
    BY <1>5 DEF QueryWrites, DatabaseTypeInv, PartialInv, ReturnedInv
  <1> QED BY <1>4, <1>5, <1>6

LEMMA TamperedStep ==
  ASSUME DatabaseInv, NEW k \in Keys, Tampered(k) PROVE DatabaseInv'
  <1> USE DEF DatabaseInv
  <1>1. PICK pair \in Content(entry[k].files) :
          \E change \in {{}, Changed({pair})} :
             entry' = [entry EXCEPT ![k].files = (@ \ {pair}) \cup change]
    BY DEF Tampered
  <1>2. PICK change \in {{}, Changed({pair})} :
          entry' = [entry EXCEPT ![k].files = (@ \ {pair}) \cup change]
    BY <1>1
  <1> DEFINE files == (entry[k].files \ {pair}) \cup change
  <1>3. entry[k].files \in SUBSET Pairs BY DEF DatabaseTypeInv, DatabaseTrees
  <1>4. change \in SUBSET Pairs
    BY <1>3 DEF Changed, Content, Pairs
  <1>5. entry' = [entry EXCEPT ![k] = [@ EXCEPT !.files = files]]
    BY <1>2 DEF DatabaseTypeInv
  <1>6. files \in SUBSET Pairs BY <1>3, <1>4
  <1> HIDE DEF files
  <1>7. entry' \in [Keys -> DatabaseTrees] /\ EntryInv'
    BY <1>5, <1>6, FilesReplaced
  <1>8. DatabaseTypeInv' /\ PartialInv' /\ ReturnedInv'
    BY <1>7, FaultCounts DEF Tampered, DatabaseTypeInv, PartialInv, ReturnedInv
  <1> QED BY <1>7, <1>8

LEMMA CreateFailsStep ==
  ASSUME DatabaseInv, NEW p \in Preparers, CreateFails(p) PROVE DatabaseInv'
  BY FaultCounts DEF DatabaseInv, CreateFails, Goto, DatabaseTypeInv, EntryInv, PartialInv, ReturnedInv

LEMMA KilledStep ==
  ASSUME DatabaseInv, NEW p \in Preparers, Killed(p) PROVE DatabaseInv'
  <1> USE DEF DatabaseInv
  <1>1. DatabaseTypeInv' BY DatabaseTreeTypes, FaultCounts DEF Killed, Goto, DatabaseTypeInv
  <1>2. EntryInv' BY DEF Killed, EntryInv
  <1>3. PartialInv' /\ ReturnedInv'
    BY DEF Killed, Goto, DatabaseTypeInv, PartialInv, ReturnedInv
  <1> QED BY <1>1, <1>2, <1>3

LEMMA DatabaseStep == DatabaseInv /\ [DatabaseNext]_dbVars => DatabaseInv'
  <1> SUFFICES ASSUME DatabaseInv, [DatabaseNext]_dbVars PROVE DatabaseInv' OBVIOUS
  <1>1. ASSUME NEW p \in Preparers, Preparation(p) PROVE DatabaseInv'
    BY <1>1, ReuseStep, RejectStep, CreateStep, DescribeStep, PromoteStep,
       PromoteLostStep, CleanStep DEF Preparation
  <1>2. CASE UNCHANGED dbVars
    BY <1>2 DEF dbVars, DatabaseInv, DatabaseTypeInv, EntryInv, PartialInv, ReturnedInv, KeyOf
  <1> QED
    BY <1>1, <1>2, AgainStep, CreateFailsStep, KilledStep, QueryWritesStep,
       TamperedStep DEF DatabaseNext

(* Every part of the invariant holds throughout: prepare_database by any      *)
(* number of processes, killed, failing, or with an entry tampered with.     *)
THEOREM DatabaseInvariant == DatabaseSpec => []DatabaseInv
  BY InitDatabaseInv, DatabaseStep, PTL DEF DatabaseSpec

(* A database is handed out only as it was extracted for the request, by the *)
(* process itself, by an earlier run or by the winner of a race.             *)
THEOREM WholeHandedOut == DatabaseSpec => []HandedOutWhole
  <1>1. DatabaseInv => HandedOutWhole BY DEF DatabaseInv, ReturnedInv, HandedOutWhole
  <1> QED BY <1>1, DatabaseInvariant, PTL

(* No step of any preparation changes the covered files of an entry.         *)
THEOREM EntriesLeftAlone == DatabaseSpec => EntryLeftAlone
  <1> DEFINE Kept == \A k \in Keys :
               Cached(k) /\ dbFaults' = dbFaults =>
                 Content(entry'[k].files) = Content(entry[k].files)
  <1>1. DatabaseInv /\ [DatabaseNext]_dbVars => [Kept]_dbVars
    <2> SUFFICES ASSUME DatabaseInv, DatabaseNext, NEW k \in Keys, Cached(k), dbFaults' = dbFaults
                 PROVE Content(entry'[k].files) = Content(entry[k].files)
      BY DEF dbVars
    <2>1. ASSUME NEW p \in Preparers, Promote(p)
          PROVE  Content(entry'[k].files) = Content(entry[k].files)
      <3>1. entry[wants[p]] = NoTree /\ entry[k] # NoTree BY <2>1 DEF Promote, Cached, KeyOf
      <3> QED BY <2>1, <3>1 DEF DatabaseInv, DatabaseTypeInv, Promote, KeyOf
    <2>2. ASSUME NEW j \in Keys, QueryWrites(j)
          PROVE Content(entry'[k].files) = Content(entry[k].files)
      <3>1. CASE j = k BY <2>2, <3>1, QueryWritesStep
      <3>2. CASE j # k BY <2>2, <3>2 DEF DatabaseInv, DatabaseTypeInv, QueryWrites
      <3> QED BY <3>1, <3>2
    <2>3. ASSUME NEW p \in Preparers, Preparation(p), ~Promote(p) PROVE entry' = entry
      BY <2>3 DEF Preparation, Reuse, Reject, Create, Describe, PromoteLost, Clean
    <2>4. ASSUME NEW p \in Preparers, Again(p) PROVE entry' = entry
      BY <2>4 DEF Again
    <2>5. ~Fault
      BY FaultCounts DEF DatabaseInv, DatabaseTypeInv
    <2>6. ASSUME NEW p \in Preparers, CreateFails(p) \/ Killed(p) PROVE FALSE
      BY <2>5, <2>6 DEF CreateFails, Killed
    <2>7. ASSUME NEW j \in Keys, Tampered(j) PROVE FALSE
      BY <2>5, <2>7 DEF Tampered
    <2> QED BY <2>1, <2>2, <2>3, <2>4, <2>6, <2>7 DEF DatabaseNext
  <1>2. DatabaseSpec => [][Kept]_dbVars
    BY <1>1, DatabaseInvariant, PTL DEF DatabaseSpec
  <1> QED BY <1>2 DEF EntryLeftAlone

----------------------------------------------------------------------------
(***************************************************************************)
(* The vendor artifacts.  SourcesAsRecorded is not inductive: an import    *)
(* copies an entry, so the entries that good records name must be whole;   *)
(* an entry is trusted for its digest, so the digests must be those of the *)
(* key; and a decompiled artifact replaces an entry, which no good record  *)
(* may name by then.                                                       *)
(***************************************************************************)
USE MaxBytesAssumption, MaxToolAssumption

KeySet == Bytes \X Tools
Good == {"prepared", "degraded"}

VendorTrees == [bytes : Bytes, tool : Tools, quality : Qualities, state : {"whole", "partly", "none"}]
Entries == [sources : VendorTrees, manifest : {"none", "torn"} \cup Good, digest : VendorTrees]
Records == [status : {"none", "failed"} \cup Good, key : KeySet]

Making == {"decompile", "remove", "replace", "manifest"}
Filling == {"remove", "replace", "manifest"}
Preparing == {"prepare"} \cup Making

VendorTypeInv ==
    /\ bytes \in [Artifacts -> Bytes]
    /\ tool \in Tools
    /\ entries \in [KeySet -> Entries]
    /\ phase \in {"off", "idle", "import"} \cup Preparing
    /\ left \subseteq Artifacts
    /\ phase \in Making => current \in Artifacts
    /\ output \in VendorTrees
    /\ records \in [Artifacts -> Records]
    /\ imports \in [Artifacts -> VendorTrees]

\* The digest in a manifest is that of a decompilation for the entry's key.
DigestInv ==
    \A k \in KeySet :
        entries[k].manifest \in Good =>
            entries[k].digest = Tree(k[1], k[2], entries[k].manifest)

\* The output is of the current artifact, and what the entry has at last.
OutputInv ==
    /\ phase \in Filling =>
          /\ output.quality \in Good
          /\ output = Tree(bytes[current], tool, output.quality)
    /\ phase = "manifest" => entries[Key(current)].sources = output

\* What a good record names is whole, and described as the record says.
WholeEntry(a) ==
    LET named == records[a].key
        sources == Tree(named[1], named[2], records[a].status) IN
    entries[named] = [sources |-> sources, manifest |-> records[a].status, digest |-> sources]

RecordInv ==
    \A a \in Artifacts :
        records[a].status \in Good =>
            /\ phase \in {"import"} \cup Preparing => WholeEntry(a)
            /\ phase \in Making => records[a].key # Key(current)

\* Every artifact that is not left has a record, and only good ones are imported.
ProgressInv ==
    /\ phase \in Preparing =>
          \A a \in Artifacts \ left :
              records[a].status = "none" => phase \in Making /\ a = current
    /\ phase = "import" => \A a \in Artifacts : records[a].status \in Good
    /\ phase \in Preparing => \A a \in Artifacts : imports[a] = NoSources

VendorInv ==
    /\ VendorTypeInv /\ DigestInv /\ OutputInv
    /\ RecordInv /\ ProgressInv /\ SourcesAsRecorded

----------------------------------------------------------------------------

\* What the steps write has its type.
LEMMA VendorTreeTypes ==
    /\ \A b \in Bytes, t \in Tools, q \in Qualities : Tree(b, t, q) \in VendorTrees
    /\ \A b \in Bytes, t \in Tools, q \in Qualities : Tree(b, t, q) # NoSources
    /\ \A b \in Bytes, t \in Tools, q \in Qualities : Tree(b, t, q).quality = q
  BY DEF Tree, VendorTrees, NoSources

LEMMA ZeroTypes ==
    /\ 0 \in Bytes /\ 0 \in Tools
    /\ NoSources \in VendorTrees
    /\ NoEntry \in Entries
    /\ NoRecord \in Records
    /\ NoEntry.manifest = "none"
    /\ NoRecord.status = "none"
  <1>1. 0 \in Bytes /\ 0 \in Tools BY DEF Bytes, Tools
  <1>2. NoSources \in VendorTrees BY <1>1 DEF NoSources, VendorTrees, Qualities
  <1>3. NoEntry \in Entries BY <1>2 DEF NoEntry, Entries
  <1>4. NoRecord \in Records BY <1>1 DEF NoRecord, Records, KeySet
  <1> QED BY <1>1, <1>2, <1>3, <1>4 DEF NoEntry, NoRecord

\* A reusable entry has the sources its key and its manifest name.
LEMMA ReusableIsWhole ==
    ASSUME VendorTypeInv, DigestInv, NEW k \in KeySet, Reusable(entries[k])
    PROVE  /\ entries[k].manifest \in Good
           /\ entries[k] = [sources  |-> Tree(k[1], k[2], entries[k].manifest),
                            manifest |-> entries[k].manifest,
                            digest   |-> Tree(k[1], k[2], entries[k].manifest)]
  <1>1. entries[k] \in Entries BY DEF VendorTypeInv
  <1>2. entries[k].manifest \in Good /\ entries[k].sources = entries[k].digest
    BY DEF Reusable, Good
  <1>3. entries[k].digest = Tree(k[1], k[2], entries[k].manifest)
    BY <1>2 DEF DigestInv
  <1> QED BY <1>1, <1>2, <1>3 DEF Entries

\* And an entry that a good record names is reusable.
LEMMA WholeIsReusable ==
    ASSUME NEW a \in Artifacts, records[a].status \in Good, WholeEntry(a)
    PROVE  Reusable(entries[records[a].key])
  BY DEF WholeEntry, Reusable, Tree, Good

\* The key of an artifact is a key of the cache.
LEMMA KeyTypes ==
    ASSUME VendorTypeInv, NEW a \in Artifacts
    PROVE  Key(a) \in KeySet /\ Key(a)[1] = bytes[a] /\ Key(a)[2] = tool
  BY DEF VendorTypeInv, Key, KeySet

----------------------------------------------------------------------------

LEMMA InitVendorInv == ASSUME VendorInit PROVE VendorInv
  <1> USE DEF VendorInit, VendorStart
  <1>1. VendorTypeInv BY ZeroTypes DEF VendorTypeInv, KeySet, Making
  <1>2. \A k \in KeySet : entries[k].manifest = "none" BY ZeroTypes DEF KeySet
  <1>3. DigestInv BY <1>2 DEF DigestInv, Good
  <1>4. OutputInv BY DEF OutputInv, Filling
  <1>5. RecordInv BY DEF RecordInv, Preparing, Making
  <1>6. ProgressInv BY DEF ProgressInv, Preparing, Making
  <1>7. SourcesAsRecorded BY DEF SourcesAsRecorded
  <1> QED BY <1>1, <1>3, <1>4, <1>5, <1>6, <1>7 DEF VendorInv

LEMMA BeginRebuildStep ==
    ASSUME VendorInv, BeginRebuild PROVE VendorInv'
  <1> USE DEF VendorInv, BeginRebuild
  <1>1. VendorTypeInv' BY ZeroTypes DEF VendorTypeInv, Preparing, Making
  <1>2. DigestInv' BY DEF DigestInv
  <1>3. OutputInv' BY DEF OutputInv, Filling
  <1>4. RecordInv' BY ZeroTypes DEF RecordInv, Good
  <1>5. ProgressInv' BY DEF ProgressInv
  <1>6. SourcesAsRecorded' BY DEF SourcesAsRecorded
  <1> QED BY <1>1, <1>2, <1>3, <1>4, <1>5, <1>6

LEMMA TakeArtifactStep == ASSUME VendorInv, TakeArtifact PROVE VendorInv'
  <1> USE DEF VendorInv
  <1>1. PICK a \in left :
          /\ left' = left \ {a}
          /\ current' = a
          /\ IF Reusable(entries[Key(a)])
             THEN Record(a, entries[Key(a)].manifest) /\ UNCHANGED phase
             ELSE phase' = "decompile" /\ UNCHANGED records
    BY DEF TakeArtifact
  <1>2. /\ phase = "prepare" /\ a \in Artifacts
        /\ UNCHANGED <<bytes, tool, entries, output, imports, stops>>
    BY DEF TakeArtifact, VendorTypeInv
  <1>3. Key(a) \in KeySet BY <1>2, KeyTypes
  <1>4. \A b \in Artifacts : imports[b] = NoSources
    BY <1>2 DEF ProgressInv, Preparing
  <1>5. DigestInv' BY <1>2 DEF DigestInv
  <1>6. SourcesAsRecorded' BY <1>2, <1>4 DEF SourcesAsRecorded
  <1>7. \A b \in Artifacts : records[b].status \in Good => WholeEntry(b)
    BY <1>2 DEF RecordInv, Preparing
  <1>8. CASE Reusable(entries[Key(a)])
    <2> DEFINE new == [status |-> entries[Key(a)].manifest, key |-> Key(a)]
    <2>1. records' = [records EXCEPT ![a] = new] /\ phase' = "prepare"
      BY <1>1, <1>2, <1>8 DEF Record
    <2>2. /\ new.status \in Good /\ new.key = Key(a)
          /\ entries[Key(a)] = [sources  |-> Tree(Key(a)[1], Key(a)[2], new.status),
                                manifest |-> new.status,
                                digest   |-> Tree(Key(a)[1], Key(a)[2], new.status)]
      BY <1>3, <1>8, ReusableIsWhole
    <2>3. new \in Records BY <1>3, <2>2 DEF Records
    <2> HIDE DEF new
    <2>4. VendorTypeInv' BY <1>1, <1>2, <2>1, <2>3 DEF VendorTypeInv, Making
    <2>5. OutputInv' BY <2>1 DEF OutputInv, Filling
    <2>6. RecordInv'
      <3>1. ASSUME NEW b \in Artifacts, records'[b].status \in Good
            PROVE  WholeEntry(b)'
        <4>1. CASE b = a BY <1>2, <2>1, <2>2, <4>1 DEF WholeEntry, VendorTypeInv
        <4>2. CASE b # a BY <1>2, <1>7, <2>1, <3>1, <4>2 DEF WholeEntry, VendorTypeInv
        <4> QED BY <4>1, <4>2
      <3> QED BY <2>1, <3>1 DEF RecordInv, Making
    <2>7. ProgressInv'
      <3>1. new.status # "none" BY <2>2 DEF Good
      <3> QED BY <1>1, <1>2, <1>4, <2>1, <3>1 DEF ProgressInv, VendorTypeInv, Preparing, Making
    <2> QED BY <1>5, <1>6, <2>4, <2>5, <2>6, <2>7
  <1>9. CASE ~Reusable(entries[Key(a)])
    <2>1. phase' = "decompile" /\ records' = records /\ current' = a
      BY <1>1, <1>9
    <2>2. VendorTypeInv' BY <1>1, <1>2, <2>1 DEF VendorTypeInv, Preparing, Making
    <2>3. OutputInv' BY <2>1 DEF OutputInv, Filling
    <2>4. Key(current)' = Key(a) BY <1>2, <2>1 DEF Key
    <2>5. RecordInv'
      <3>1. ASSUME NEW b \in Artifacts, records[b].status \in Good
            PROVE  records[b].key # Key(a)
        BY <1>7, <1>9, <3>1, WholeIsReusable
      <3>2. ASSUME NEW b \in Artifacts, records[b].status \in Good
            PROVE  WholeEntry(b)'
        BY <1>2, <1>7, <2>1, <3>2 DEF WholeEntry
      <3> QED BY <2>1, <2>4, <3>1, <3>2 DEF RecordInv
    <2>6. ProgressInv'
      BY <1>1, <1>2, <1>4, <2>1 DEF ProgressInv, Preparing, Making
    <2> QED BY <1>5, <1>6, <2>2, <2>3, <2>5, <2>6
  <1> QED BY <1>8, <1>9

LEMMA DecompileStep == ASSUME VendorInv, Decompile PROVE VendorInv'
  <1> USE DEF VendorInv
  <1>1. PICK quality \in Qualities :
          IF quality = "failed"
          THEN /\ Record(current, "failed")
               /\ phase' = "prepare"
               /\ UNCHANGED output
          ELSE /\ output' = Tree(bytes[current], tool, quality)
               /\ phase' = "remove"
               /\ UNCHANGED records
    BY DEF Decompile
  <1>2. /\ phase = "decompile" /\ current \in Artifacts
        /\ UNCHANGED <<bytes, tool, entries, left, current, imports, stops>>
    BY DEF Decompile, VendorTypeInv, Making
  <1>3. /\ Key(current) \in KeySet /\ Key(current)' = Key(current)
        /\ bytes[current] \in Bytes /\ tool \in Tools
    BY <1>2, KeyTypes DEF Key, VendorTypeInv
  <1>4. \A b \in Artifacts : imports[b] = NoSources
    BY <1>2 DEF ProgressInv, Preparing, Making
  <1>5. DigestInv' BY <1>2 DEF DigestInv
  <1>6. SourcesAsRecorded' BY <1>2, <1>4 DEF SourcesAsRecorded
  <1>7. \A b \in Artifacts :
          records[b].status \in Good => WholeEntry(b) /\ records[b].key # Key(current)
    BY <1>2 DEF RecordInv, Preparing, Making
  <1>8. CASE quality = "failed"
    <2> DEFINE new == [status |-> "failed", key |-> Key(current)]
    <2>1. records' = [records EXCEPT ![current] = new] /\ phase' = "prepare" /\ output' = output
      BY <1>1, <1>8 DEF Record
    <2>2. new \in Records /\ new.status = "failed" BY <1>3 DEF Records
    <2> HIDE DEF new
    <2>3. VendorTypeInv' BY <1>2, <2>1, <2>2 DEF VendorTypeInv, Preparing, Making
    <2>4. OutputInv' BY <2>1 DEF OutputInv, Filling
    <2>5. RecordInv'
      <3>1. ASSUME NEW b \in Artifacts, records'[b].status \in Good
            PROVE  WholeEntry(b)'
        <4>1. b # current BY <1>2, <2>1, <2>2, <3>1 DEF VendorTypeInv, Good
        <4> QED BY <1>2, <1>7, <2>1, <3>1, <4>1 DEF WholeEntry, VendorTypeInv
      <3> QED BY <2>1, <3>1 DEF RecordInv, Making
    <2>6. ProgressInv'
      BY <1>2, <1>4, <2>1, <2>2 DEF ProgressInv, VendorTypeInv, Preparing, Making
    <2> QED BY <1>5, <1>6, <2>3, <2>4, <2>5, <2>6
  <1>9. CASE quality # "failed"
    <2>1. /\ output' = Tree(bytes[current], tool, quality)
          /\ phase' = "remove" /\ records' = records
      BY <1>1, <1>9
    <2>2. quality \in Good BY <1>9 DEF Qualities, Good
    <2>3. VendorTypeInv' BY <1>2, <1>3, <2>1, VendorTreeTypes DEF VendorTypeInv, Preparing, Making
    <2>4. OutputInv' BY <1>2, <1>3, <2>1, <2>2, VendorTreeTypes DEF OutputInv
    <2>5. RecordInv'
      <3>1. ASSUME NEW b \in Artifacts, records[b].status \in Good
            PROVE  WholeEntry(b)'
        BY <1>2, <1>7, <2>1, <3>1 DEF WholeEntry
      <3> QED BY <1>3, <1>7, <2>1, <3>1 DEF RecordInv
    <2>6. ProgressInv'
      BY <1>2, <1>4, <2>1 DEF ProgressInv, Preparing, Making
    <2> QED BY <1>5, <1>6, <2>3, <2>4, <2>5, <2>6
  <1> QED BY <1>8, <1>9

\* What a manifest of the current artifact's entry may say.
Sound(new) ==
    new.manifest \in Good => new.digest = Tree(bytes[current], tool, new.manifest)

\* The entry of the current artifact changes, which no good record names.
LEMMA EntryRewritten ==
    ASSUME VendorInv, phase \in Filling, NEW new \in Entries, Sound(new),
           SetEntry(new), phase' \in Filling,
           phase' = "manifest" => new.sources = output,
           UNCHANGED <<bytes, tool, left, current, output, records, imports, stops>>
    PROVE  VendorInv'
  <1> USE DEF VendorInv
  <1>1. current \in Artifacts BY DEF VendorTypeInv, Filling, Making
  <1>2. Key(current) \in KeySet /\ Key(current)' = Key(current)
    BY <1>1, KeyTypes DEF Key
  <1>3. /\ entries' = [entries EXCEPT ![Key(current)] = new]
        /\ entries'[Key(current)] = new
        /\ \A k \in KeySet \ {Key(current)} : entries'[k] = entries[k]
    BY <1>2 DEF SetEntry, VendorTypeInv
  <1>4. VendorTypeInv' BY <1>1, <1>3 DEF VendorTypeInv, Filling, Preparing, Making
  <1>5. DigestInv'
    BY <1>1, <1>2, <1>3, KeyTypes DEF DigestInv, Sound
  <1>6. OutputInv' BY <1>2, <1>3 DEF OutputInv
  <1>7. RecordInv'
    <2> SUFFICES ASSUME NEW a \in Artifacts, records[a].status \in Good
                 PROVE  WholeEntry(a)' /\ records[a].key # Key(current)
      BY <1>2 DEF RecordInv
    <2>1. WholeEntry(a) /\ records[a].key # Key(current)
      BY DEF RecordInv, Filling, Preparing, Making
    <2>2. records[a].key \in KeySet BY DEF VendorTypeInv, Records
    <2> QED BY <1>3, <2>1, <2>2 DEF WholeEntry
  <1>8. ProgressInv' BY DEF ProgressInv, Filling, Preparing, Making
  <1>9. SourcesAsRecorded' BY DEF SourcesAsRecorded
  <1> QED BY <1>4, <1>5, <1>6, <1>7, <1>8, <1>9

LEMMA RemoveEntryStep ==
    ASSUME VendorInv, RemoveEntry PROVE VendorInv'
  <1> USE DEF VendorInv
  <1> DEFINE held == entries[Key(current)]
  <1>1. phase = "remove" /\ phase \in Filling BY DEF RemoveEntry, Filling
  <1>2. held \in Entries
    BY <1>1, KeyTypes DEF VendorTypeInv, Making
  <1>3. UNCHANGED <<bytes, tool, left, current, output, records, imports, stops>>
    BY DEF RemoveEntry
  <1>4. CASE SetEntry([held EXCEPT !.manifest = "none"]) /\ UNCHANGED phase
    <2> DEFINE new == [held EXCEPT !.manifest = "none"]
    <2>1. new \in Entries /\ Sound(new) BY <1>2 DEF Entries, Sound, Good
    <2> HIDE DEF new
    <2> QED BY <1>1, <1>3, <1>4, <2>1, EntryRewritten DEF new
  <1>5. CASE /\ held.sources.state = "whole"
             /\ SetEntry([held EXCEPT !.sources.state = "partly"]) /\ UNCHANGED phase
    <2> DEFINE new == [held EXCEPT !.sources = [held.sources EXCEPT !.state = "partly"]]
    <2>1. held.sources \in VendorTrees BY <1>2 DEF Entries
    <2>2. [held.sources EXCEPT !.state = "partly"] \in VendorTrees BY <2>1 DEF VendorTrees
    <2>3. /\ new \in Entries
          /\ new.manifest = held.manifest /\ new.digest = held.digest
      BY <1>2, <2>2 DEF Entries
    <2>4. held.manifest \in Good => held.digest = Tree(bytes[current], tool, held.manifest)
      BY <1>1, KeyTypes DEF VendorTypeInv, Making, DigestInv
    <2>5. Sound(new) BY <2>3, <2>4 DEF Sound
    <2>6. SetEntry(new) BY <1>5
    <2> HIDE DEF new
    <2> QED BY <1>1, <1>3, <1>5, <2>3, <2>5, <2>6, EntryRewritten
  <1>6. CASE SetEntry(NoEntry) /\ phase' = "replace"
    <2>1. NoEntry \in Entries /\ Sound(NoEntry) BY ZeroTypes DEF Good, Sound
    <2> QED BY <1>1, <1>3, <1>6, <2>1, EntryRewritten DEF Filling
  <1> QED BY <1>4, <1>5, <1>6 DEF RemoveEntry
LEMMA ReplaceEntryStep ==
    ASSUME VendorInv, ReplaceEntry PROVE VendorInv'
  <1> USE DEF VendorInv
  <1> DEFINE new == [NoEntry EXCEPT !.sources = output]
  <1>1. output \in VendorTrees BY DEF VendorTypeInv
  <1>2. new = [sources |-> output, manifest |-> "none", digest |-> NoSources]
    BY DEF NoEntry
  <1>3. new \in Entries /\ Sound(new) /\ new.sources = output
    BY <1>1, <1>2, ZeroTypes DEF Entries, Sound, Good
  <1>4. /\ phase \in Filling /\ phase' \in Filling
        /\ SetEntry(new)
        /\ UNCHANGED <<bytes, tool, left, current, output, records, imports, stops>>
    BY DEF ReplaceEntry, Filling
  <1> HIDE DEF new
  <1> QED BY <1>3, <1>4, EntryRewritten

LEMMA WriteManifestStep ==
    ASSUME VendorInv, WriteManifest PROVE VendorInv'
  <1> USE DEF VendorInv
  <1> DEFINE held == entries[Key(current)]
             quality == output.quality
             new == [held EXCEPT !.manifest = quality, !.digest = output]
             record == [status |-> quality, key |-> Key(current)]
  <1>1. /\ phase = "manifest" /\ phase \in Filling /\ current \in Artifacts
        /\ UNCHANGED <<bytes, tool, left, current, imports, stops>>
    BY DEF WriteManifest, Filling, VendorTypeInv, Making
  <1>2. /\ Key(current) \in KeySet /\ Key(current)' = Key(current)
        /\ Key(current)[1] = bytes[current] /\ Key(current)[2] = tool
    BY <1>1, KeyTypes DEF Key
  <1>3. held \in Entries BY <1>2 DEF VendorTypeInv
  <1>4. held.sources = output BY <1>1 DEF OutputInv
  <1>5. CASE /\ held.manifest = "none"
             /\ SetEntry([held EXCEPT !.manifest = "torn"])
             /\ UNCHANGED <<phase, records, output>>
    <2> DEFINE torn == [held EXCEPT !.manifest = "torn"]
    <2>1. torn \in Entries /\ Sound(torn) /\ torn.sources = output
      BY <1>3, <1>4 DEF Entries, Sound, Good
    <2> HIDE DEF torn
    <2> QED BY <1>1, <1>5, <2>1, EntryRewritten DEF torn
  <1>6. CASE /\ SetEntry(new) /\ Record(current, quality)
             /\ output' = NoSources /\ phase' = "prepare"
    <2>1. quality \in Good /\ output = Tree(bytes[current], tool, quality)
      BY <1>1 DEF OutputInv
    <2>2. new = [sources |-> output, manifest |-> quality, digest |-> output]
      <3>1. /\ new \in Entries /\ new.sources = held.sources
            /\ new.manifest = quality /\ new.digest = output
        BY <1>3, <2>1 DEF Entries, VendorTypeInv
      <3> HIDE DEF new
      <3> QED BY <1>4, <3>1 DEF Entries
    <2>3. new \in Entries /\ new.manifest = quality /\ new.digest = output
      BY <2>1, <2>2 DEF Entries, VendorTypeInv
    <2>4. record \in Records /\ record.status = quality /\ record.key = Key(current)
      BY <1>2, <2>1 DEF Records
    <2>5. entries' = [entries EXCEPT ![Key(current)] = new] BY <1>6 DEF SetEntry
    <2>6. records' = [records EXCEPT ![current] = record] BY <1>6 DEF Record
    <2>7. \A b \in Artifacts : imports[b] = NoSources
      BY <1>1 DEF ProgressInv, Preparing, Making
    <2>8. ASSUME NEW a \in Artifacts, a = current PROVE WholeEntry(a)'
      BY <2>8, <1>1, <1>2, <2>1, <2>2, <2>4, <2>5, <2>6 DEF WholeEntry, VendorTypeInv
    <2> HIDE DEF new, record
    <2>9. VendorTypeInv'
      BY <1>1, <1>6, <2>3, <2>4, <2>5, <2>6, ZeroTypes DEF VendorTypeInv, Preparing, Making
    <2>10. DigestInv'
      BY <1>1, <1>2, <2>1, <2>3, <2>5 DEF DigestInv, VendorTypeInv
    <2>11. OutputInv' BY <1>6 DEF OutputInv, Filling
    <2>12. RecordInv'
      <3>1. ASSUME NEW a \in Artifacts, a # current, records'[a].status \in Good
            PROVE  WholeEntry(a)'
        <4>1. records'[a] = records[a] BY <2>6, <3>1 DEF VendorTypeInv
        <4>2. WholeEntry(a) /\ records[a].key # Key(current)
          BY <1>1, <3>1, <4>1 DEF RecordInv, Filling, Preparing, Making
        <4>3. records[a].key \in KeySet BY DEF VendorTypeInv, Records
        <4> QED BY <2>5, <4>1, <4>2, <4>3 DEF WholeEntry, VendorTypeInv
      <3> QED BY <1>6, <2>8, <3>1 DEF RecordInv, Making
    <2>13. ProgressInv'
      BY <1>1, <1>6, <2>1, <2>4, <2>6, <2>7
      DEF ProgressInv, VendorTypeInv, Preparing, Making, Good
    <2>14. SourcesAsRecorded' BY <1>1, <2>7 DEF SourcesAsRecorded
    <2> QED BY <2>9, <2>10, <2>11, <2>12, <2>13, <2>14
  <1> QED BY <1>5, <1>6 DEF WriteManifest

LEMMA EndPreparationStep == ASSUME VendorInv, EndPreparation PROVE VendorInv'
  <1> USE DEF VendorInv
  <1>1. /\ phase = "prepare" /\ left = {}
        /\ UNCHANGED <<bytes, tool, entries, current, output, records, imports, stops>>
    BY DEF EndPreparation
  <1>2. \/ phase' = "idle" /\ left' = left
        \/ /\ \A a \in Artifacts : records[a].status # "failed"
           /\ phase' = "import" /\ left' = Artifacts
    BY DEF EndPreparation
  <1>3. VendorTypeInv' BY <1>1, <1>2 DEF VendorTypeInv, Preparing, Making
  <1>4. DigestInv' BY <1>1 DEF DigestInv
  <1>5. OutputInv' BY <1>2 DEF OutputInv, Filling
  <1>6. RecordInv'
    BY <1>1, <1>2 DEF RecordInv, WholeEntry, Preparing, Making
  <1>7. ProgressInv'
    <2>1. \A a \in Artifacts : records[a].status # "none"
      BY <1>1 DEF ProgressInv, Preparing, Making
    <2>2. \A a \in Artifacts : records[a].status \in {"none", "failed"} \cup Good
      BY DEF VendorTypeInv, Records
    <2> QED BY <1>1, <1>2, <2>1, <2>2 DEF ProgressInv, Preparing, Making
  <1>8. SourcesAsRecorded' BY <1>1 DEF SourcesAsRecorded
  <1> QED BY <1>3, <1>4, <1>5, <1>6, <1>7, <1>8

LEMMA ImportArtifactStep == ASSUME VendorInv, ImportArtifact PROVE VendorInv'
  <1> USE DEF VendorInv
  <1>1. /\ phase = "import"
        /\ UNCHANGED <<bytes, tool, entries, current, output, records, stops>>
    BY DEF ImportArtifact
  <1>2. PICK a \in left :
          LET sources == entries[records[a].key].sources IN
          \/ phase' = "idle" /\ UNCHANGED <<left, imports>>
          \/ /\ imports' = [imports EXCEPT ![a] = sources]
             /\ left' = left \ {a}
             /\ UNCHANGED phase
    BY DEF ImportArtifact
  <1>3. a \in Artifacts BY DEF VendorTypeInv
  <1>4. /\ records[a].status \in Good
        /\ entries[records[a].key].sources
             = Tree(records[a].key[1], records[a].key[2], records[a].status)
    <2>1. records[a].status \in Good BY <1>1, <1>3 DEF ProgressInv
    <2>2. WholeEntry(a) BY <1>1, <1>3, <2>1 DEF RecordInv
    <2> QED BY <2>1, <2>2 DEF WholeEntry
  <1>5. phase' \in {"idle", "import"} /\ left' \subseteq Artifacts
    BY <1>1, <1>2 DEF VendorTypeInv
  <1>6. imports' \in [Artifacts -> VendorTrees]
    <2>1. records[a].key \in KeySet BY <1>3 DEF VendorTypeInv, Records
    <2>2. entries[records[a].key].sources \in VendorTrees BY <2>1 DEF VendorTypeInv, Entries
    <2> QED BY <1>2, <2>2 DEF VendorTypeInv
  <1>7. VendorTypeInv' BY <1>1, <1>5, <1>6 DEF VendorTypeInv, Making
  <1>8. DigestInv' BY <1>1 DEF DigestInv
  <1>9. OutputInv' BY <1>5 DEF OutputInv, Filling
  <1>10. RecordInv' BY <1>1, <1>5 DEF RecordInv, WholeEntry, Making
  <1>11. ProgressInv' BY <1>1, <1>5 DEF ProgressInv, Preparing, Making
  <1>12. SourcesAsRecorded'
    BY <1>1, <1>2, <1>3, <1>4 DEF SourcesAsRecorded, VendorTypeInv
  <1> QED BY <1>7, <1>8, <1>9, <1>10, <1>11, <1>12

\* Outside a rebuild nothing is vouched for but the digests.
LEMMA OutsideRebuild ==
    ASSUME VendorInv, VendorTypeInv', DigestInv', phase' = "idle", UNCHANGED <<records, imports>>
    PROVE  VendorInv'
  <1>1. OutputInv' BY DEF OutputInv, Filling
  <1>2. RecordInv' BY DEF RecordInv, Preparing, Making
  <1>3. ProgressInv' BY DEF ProgressInv, Preparing, Making
  <1>4. SourcesAsRecorded' BY DEF VendorInv, SourcesAsRecorded
  <1> QED BY <1>1, <1>2, <1>3, <1>4 DEF VendorInv

LEMMA OutsideSteps ==
    ASSUME VendorInv,
           EndImport \/ ArtifactReplaced \/ ToolUpdated \/ Kill \/ Damage
    PROVE  VendorInv'
  <1> USE DEF VendorInv
  <1>1. CASE EndImport
    BY <1>1, OutsideRebuild DEF EndImport, VendorTypeInv, DigestInv, Making
  <1>2. CASE ArtifactReplaced
    <2>1. VendorTypeInv' BY <1>2 DEF ArtifactReplaced, VendorTypeInv, Making
    <2> QED BY <1>2, <2>1, OutsideRebuild DEF ArtifactReplaced, DigestInv
  <1>3. CASE ToolUpdated
    <2>1. tool' \in Tools BY <1>3 DEF ToolUpdated, VendorTypeInv, Tools
    <2>2. VendorTypeInv' BY <1>3, <2>1 DEF ToolUpdated, VendorTypeInv, Making
    <2> QED BY <1>3, <2>2, OutsideRebuild DEF ToolUpdated, DigestInv
  <1>4. CASE Kill
    <2>1. VendorTypeInv' BY <1>4, ZeroTypes DEF Kill, VendorTypeInv, Making
    <2> QED BY <1>4, <2>1, OutsideRebuild DEF Kill, DigestInv
  <1>5. CASE Damage
    <2>1. PICK k \in KeySet : entries' = [entries EXCEPT ![k].sources.state = "partly"]
      BY <1>5 DEF Damage, VendorTypeInv
    <2> DEFINE new == [entries[k] EXCEPT !.sources = [entries[k].sources EXCEPT !.state = "partly"]]
    <2>2. entries' = [entries EXCEPT ![k] = new] BY <2>1
    <2>3. entries[k] \in Entries /\ entries[k].sources \in VendorTrees BY DEF VendorTypeInv, Entries
    <2>4. [entries[k].sources EXCEPT !.state = "partly"] \in VendorTrees BY <2>3 DEF VendorTrees
    <2>5. /\ new \in Entries
          /\ new.manifest = entries[k].manifest /\ new.digest = entries[k].digest
      BY <2>3, <2>4 DEF Entries
    <2> HIDE DEF new
    <2>6. VendorTypeInv' BY <1>5, <2>2, <2>5 DEF Damage, VendorTypeInv, Making
    <2>7. DigestInv' BY <2>2, <2>5 DEF DigestInv, VendorTypeInv
    <2> QED BY <1>5, <2>6, <2>7, OutsideRebuild DEF Damage
  <1> QED BY <1>1, <1>2, <1>3, <1>4, <1>5

LEMMA VendorStep ==
    ASSUME VendorInv, [VendorNext]_vendorVars PROVE VendorInv'
  <1>1. CASE VendorNext
    BY <1>1, BeginRebuildStep, TakeArtifactStep, DecompileStep, RemoveEntryStep,
       ReplaceEntryStep, WriteManifestStep, EndPreparationStep, ImportArtifactStep,
       OutsideSteps DEF VendorNext
  <1>2. CASE UNCHANGED vendorVars
    BY <1>2 DEF vendorVars, VendorInv, VendorTypeInv, DigestInv, OutputInv, RecordInv, WholeEntry,
                ProgressInv, SourcesAsRecorded, Key
  <1> QED BY <1>1, <1>2

\* Each part of the invariant holds throughout (prepare_artifacts, main and
\* import_vendor_artifacts, killed anywhere).
THEOREM VendorInvariant == VendorSpec => []VendorInv
  <1>1. VendorInit => VendorInv BY InitVendorInv
  <1>2. VendorInv /\ [VendorNext]_vendorVars => VendorInv' BY VendorStep
  <1> QED BY <1>1, <1>2, PTL DEF VendorSpec

(***************************************************************************)
(* Whatever is killed or damaged, and however artifacts and JADX change,   *)
(* what is imported for an artifact is the whole decompilation its record  *)
(* names: _cached_record checks the digest before an entry is reused, and  *)
(* prepare_artifacts writes the manifest after the sources it describes.   *)
(***************************************************************************)
THEOREM ImportedAsRecorded == VendorSpec => []SourcesAsRecorded
  <1>1. VendorInv => SourcesAsRecorded BY DEF VendorInv
  <1> QED BY <1>1, VendorInvariant, PTL

(***************************************************************************)
(* run_queries: what overlapping runs import from the cache they share, for *)
(* any number of runs, queries, edits and faults.                          *)
(*                                                                         *)
(* The importer does not check an entry again, so the invariant follows    *)
(* the entries a run relies on: files that something else has written may  *)
(* stand in the cache, but not where a run has looked, and the digests of  *)
(* a manifest are never theirs.                                            *)
(***************************************************************************)
USE MaxVersionAssumption

Made == Versions \X Versions
QueryFiles == Made \cup {Gone, Damaged}
ResultManifests == [Parts -> QueryFiles] \cup {Raising}
ResultKeys == Queries \X Versions
ResultEntries == [files : [Parts -> QueryFiles], digests : SUBSET ResultManifests, dir : BOOLEAN]
Working == {"execute", "remove", "replace"}
QuerySteps == Ended \cup Working \cup {"start", "look", "describe", "publish", "import"}

ResultTypeInv ==
    /\ pack \in Versions
    /\ queries \in SUBSET Queries
    /\ cache \in [ResultKeys -> ResultEntries]
    /\ decoder \in [Workers -> Versions]
    /\ bundle \in [Workers -> Versions]
    /\ late \in SUBSET Versions
    /\ pending \in [Workers -> SUBSET Queries]
    /\ query \in [Workers -> Queries]
    /\ made \in [Workers -> Made]
    /\ at \in [Workers -> QuerySteps]
    /\ imported \in [Workers -> [Queries -> QueryFiles]]

\* What the results under a fingerprint are made of: libraries no older than
\* the fingerprint, a normalizer no younger, nor older unless a run had one.
Fits(m, v, now, mixed) ==
    /\ m \in Made
    /\ v <= m[1] /\ m[1] <= now /\ m[2] <= v
    /\ v \notin mixed => m[2] = v

\* A file of an entry is of what its key names, or not of a pack.
FileInv ==
    \A q \in Queries, v \in Versions, f \in Parts :
        cache[<<q, v>>].files[f] \in {Gone, Damaged} \/ Fits(cache[<<q, v>>].files[f], v, pack, late)

ResultDigestInv ==
    \A k \in ResultKeys : \A digest \in cache[k].digests : \A f \in Parts : digest[f] # Damaged

\* What a run has executed is of the pack as it was then.
MadeInv ==
    \A r \in Workers :
        /\ bundle[r] <= pack /\ decoder[r] <= pack
        /\ at[r] = "start" => pending[r] = queries /\ imported[r] = NothingYet
        /\ Active(r) /\ at[r] # "start" =>
              decoder[r] <= bundle[r] /\ (bundle[r] \notin late => decoder[r] = bundle[r])
        /\ at[r] \in {"remove", "replace"} => Fits(made[r], bundle[r], pack, late)

\* The query a run is at is one of the pack, and no longer to do.
QueryInv ==
    \A r \in Workers :
        /\ pending[r] \subseteq queries
        /\ at[r] \in Working \cup {"describe"} => query[r] \in queries \ pending[r]

\* A run has looked at a query, or has made its result.
Settled(r, q) == q \notin pending[r] /\ ~(q = query[r] /\ at[r] \in Working)

SettledInv ==
    \A r \in Workers, q \in queries :
        Active(r) /\ Settled(r, q) =>
            \A f \in Parts : cache[<<q, bundle[r]>>].files[f] # Damaged

ImportInv ==
    \A r \in Workers :
        /\ at[r] = "import" => pending[r] = {}
        /\ \A q \in queries :
              imported[r][q] = Gone \/ Fits(imported[r][q], bundle[r], pack, late)
        /\ at[r] = "done" /\ imported[r] # NothingYet =>
              \A q \in queries : imported[r][q] # Gone

ResultsInv ==
    /\ ResultTypeInv /\ FileInv /\ ResultDigestInv /\ MadeInv
    /\ QueryInv /\ SettledInv /\ ImportInv

----------------------------------------------------------------------------

\* The values a file may have are told apart.
LEMMA Numbers ==
    /\ 0 \in Versions /\ <<0, 0>> \in Made /\ Made \subseteq QueryFiles
    /\ Gone \in QueryFiles /\ Damaged \in QueryFiles /\ Gone # Damaged
    /\ Gone \notin Made /\ Damaged \notin Made
    /\ \A v \in Versions : v <= v /\ v <= MaxVersion
    /\ \A u, v, w \in Versions : u <= v /\ v <= w => u <= w
  BY DEF Versions, Made, QueryFiles, Gone, Damaged

USE DEF Fits

LEMMA ManifestTypes ==
    /\ [Parts -> QueryFiles] \subseteq ResultManifests
    /\ Unfit \in ResultManifests /\ Raising \in ResultManifests
    /\ \A f \in Parts : Unfit[f] # Damaged /\ Raising[f] # Damaged
    /\ Raising \notin [Parts -> QueryFiles]
  <1>1. "raw" \in Parts /\ Raising["raw"] = <<MaxVersion + 3, 0>> BY DEF Raising, Parts
  <1>2. <<MaxVersion + 3, 0>> \notin QueryFiles
    BY DEF QueryFiles, Made, Versions, Gone, Damaged
  <1>3. Raising \notin [Parts -> QueryFiles] BY <1>1, <1>2
  <1>4. <<MaxVersion + 3, 0>> # Damaged BY DEF Damaged
  <1>5. Unfit \in [Parts -> QueryFiles] BY Numbers DEF Unfit
  <1> QED BY <1>3, <1>4, <1>5, Numbers DEF ResultManifests, Unfit, Raising

LEMMA AbsentTypes ==
    /\ Absent \in ResultEntries
    /\ \A f \in Parts : Absent.files[f] = Gone
    /\ Absent.digests = {}
  BY Numbers DEF Absent, ResultEntries

LEMMA ResultKeyTypes == ASSUME ResultTypeInv, NEW r \in Workers PROVE CacheKey(r) \in ResultKeys
  BY DEF ResultTypeInv, CacheKey, ResultKeys

LEMMA InitResultsInv == ASSUME QueryInit PROVE ResultsInv
  <1> USE DEF QueryInit, QueryStart
  <1>1. \E q : q \in Queries
    <2>1. queries \in (SUBSET Queries) \ {{}} OBVIOUS
    <2> QED BY <2>1
  <1>2. ResultTypeInv
    <2>1. (CHOOSE c \in Queries : TRUE) \in Queries BY <1>1
    <2>2. NothingYet \in [Queries -> QueryFiles] BY Numbers DEF NothingYet
    <2>3. at \in [Workers -> QuerySteps] BY DEF QuerySteps, Ended
    <2> QED BY <2>1, <2>2, <2>3, Numbers, AbsentTypes DEF ResultTypeInv, ResultKeys
  <1>3. FileInv BY AbsentTypes DEF FileInv
  <1>4. ResultDigestInv BY AbsentTypes DEF ResultDigestInv, ResultKeys
  <1>5. \A r \in Workers : at[r] \in {"done", "off"} OBVIOUS
  <1>6. MadeInv BY <1>5, Numbers DEF MadeInv
  <1>7. QueryInv BY <1>5 DEF QueryInv, Working
  <1>8. SettledInv BY <1>5 DEF SettledInv, Active, Ended
  <1>9. ImportInv BY <1>5 DEF ImportInv, NothingYet
  <1> QED BY <1>2, <1>3, <1>4, <1>6, <1>7, <1>8, <1>9 DEF ResultsInv

----------------------------------------------------------------------------

\* An entry loses files, or gets those the run has made, or a manifest.
LEMMA EntryWritten ==
    ASSUME ResultsInv, NEW r \in Workers, NEW new \in ResultEntries,
           cache' = [cache EXCEPT ![CacheKey(r)] = new],
           \A f \in Parts : \/ new.files[f] = cache[CacheKey(r)].files[f]
                            \/ new.files[f] = Gone \/ Fits(new.files[f], bundle[r], pack, late),
           \A digest \in new.digests : \A f \in Parts : digest[f] # Damaged,
           UNCHANGED <<pack, late>>
    PROVE  /\ cache' \in [ResultKeys -> ResultEntries] /\ FileInv' /\ ResultDigestInv'
           /\ \A k \in ResultKeys, f \in Parts :
                 cache'[k].files[f] = Damaged => cache[k].files[f] = Damaged
  <1> USE DEF ResultsInv
  <1>1. CacheKey(r) \in ResultKeys /\ bundle[r] \in Versions /\ query[r] \in Queries
    BY ResultKeyTypes DEF ResultTypeInv
  <1>2. /\ cache' \in [ResultKeys -> ResultEntries] /\ cache'[CacheKey(r)] = new
        /\ \A k \in ResultKeys \ {CacheKey(r)} : cache'[k] = cache[k]
    BY <1>1 DEF ResultTypeInv
  <1>3. FileInv'
    <2> SUFFICES ASSUME NEW q \in Queries, NEW v \in Versions, NEW f \in Parts
                 PROVE  cache'[<<q, v>>].files[f] \in {Gone, Damaged}
                        \/ Fits(cache'[<<q, v>>].files[f], v, pack', late')
      BY DEF FileInv, Gone, Damaged
    <2>1. cache[<<q, v>>].files[f] \in {Gone, Damaged}
          \/ Fits(cache[<<q, v>>].files[f], v, pack, late)
      BY DEF FileInv
    <2>2. CASE <<q, v>> = CacheKey(r)
      BY <1>2, <2>1, <2>2 DEF CacheKey
    <2>3. CASE <<q, v>> # CacheKey(r)
      <3>1. <<q, v>> \in ResultKeys BY DEF ResultKeys
      <3> QED BY <1>2, <2>1, <2>3, <3>1
    <2> QED BY <2>2, <2>3
  <1>4. ResultDigestInv' BY <1>2 DEF ResultDigestInv, Damaged
  <1>5. ~Fits(Damaged, bundle[r], pack, late) /\ Gone # Damaged BY Numbers
  <1>6. \A k \in ResultKeys, f \in Parts :
           cache'[k].files[f] = Damaged => cache[k].files[f] = Damaged
    BY <1>2, <1>5
  <1> QED BY <1>2, <1>3, <1>4, <1>6

\* What the other runs rely on stays as good as it was.
LEMMA OthersSettled ==
    ASSUME ResultsInv, NEW r \in Workers, UNCHANGED <<queries, bundle>>,
           \A k \in ResultKeys, f \in Parts :
              cache'[k].files[f] = Damaged => cache[k].files[f] = Damaged,
           \A s \in Workers \ {r} :
              at'[s] = at[s] /\ pending'[s] = pending[s] /\ query'[s] = query[s],
           \A q \in queries : (at'[r] \notin Ended /\ Settled(r, q)') =>
              \A f \in Parts : cache'[<<q, bundle[r]>>].files[f] # Damaged
    PROVE  SettledInv'
  <1> SUFFICES ASSUME NEW s \in Workers, NEW q \in queries, at'[s] \notin Ended, Settled(s, q)',
                      NEW f \in Parts
               PROVE  cache'[<<q, bundle[s]>>].files[f] # Damaged
    BY DEF SettledInv, Active, Damaged
  <1>1. CASE s = r BY <1>1
  <1>2. CASE s # r
    <2>1. at[s] \notin Ended /\ Settled(s, q) BY <1>2 DEF Settled
    <2>2. cache[<<q, bundle[s]>>].files[f] # Damaged
      BY <2>1 DEF ResultsInv, SettledInv, Active
    <2>3. <<q, bundle[s]>> \in ResultKeys BY DEF ResultsInv, ResultTypeInv, ResultKeys
    <2> QED BY <2>2, <2>3
  <1> QED BY <1>1, <1>2

LEMMA BeginStep == ASSUME ResultsInv, NEW r \in Workers, Begin(r) PROVE ResultsInv'
  <1> USE DEF ResultsInv
  <1>1. /\ decoder' = [decoder EXCEPT ![r] = pack]
        /\ pending' = [pending EXCEPT ![r] = queries]
        /\ imported' = [imported EXCEPT ![r] = NothingYet]
        /\ at' = [at EXCEPT ![r] = "start"]
        /\ UNCHANGED <<pack, queries, cache, bundle, late, query, made>>
    BY DEF Begin, RunAt
  <1>2. NothingYet \in [Queries -> QueryFiles] /\ \A q \in Queries : NothingYet[q] = Gone
    BY Numbers DEF NothingYet
  <1>3. ResultTypeInv' BY <1>1, <1>2 DEF ResultTypeInv, QuerySteps
  <1>4. FileInv' /\ ResultDigestInv' BY <1>1 DEF FileInv, ResultDigestInv, Gone, Damaged
  <1>5. MadeInv'
    <2> SUFFICES ASSUME NEW s \in Workers
                 PROVE  /\ bundle[s] <= pack /\ decoder'[s] <= pack
                        /\ at'[s] = "start" => pending'[s] = queries /\ imported'[s] = NothingYet
                        /\ at'[s] \notin Ended \cup {"start"} =>
                              /\ decoder'[s] <= bundle[s]
                              /\ bundle[s] \notin late => decoder'[s] = bundle[s]
                        /\ at'[s] \in {"remove", "replace"} =>
                              Fits(made[s], bundle[s], pack, late)
      BY <1>1 DEF MadeInv, Active, NothingYet, Gone
    <2>1. CASE s = r BY <1>1, <2>1, Numbers DEF MadeInv, ResultTypeInv
    <2>2. CASE s # r BY <1>1, <2>2 DEF MadeInv, Active, ResultTypeInv
    <2> QED BY <2>1, <2>2
  <1>6. SettledInv'
    <2> SUFFICES ASSUME NEW s \in Workers, NEW q \in queries, Active(s)', Settled(s, q)',
                        NEW f \in Parts
                 PROVE  cache'[<<q, bundle'[s]>>].files[f] # Damaged
      BY <1>1 DEF SettledInv, Damaged
    <2>1. s # r BY <1>1 DEF Settled, ResultTypeInv
    <2>2. Active(s) /\ Settled(s, q)
      BY <1>1, <2>1 DEF Active, Settled, ResultTypeInv
    <2> QED BY <1>1, <2>2 DEF SettledInv
  <1>7. ImportInv'
    <2> SUFFICES ASSUME NEW s \in Workers
                 PROVE  /\ at'[s] = "import" => pending'[s] = {}
                        /\ \A q \in queries' :
                              imported'[s][q] = Gone
                                 \/ Fits(imported'[s][q], bundle'[s], pack', late')
                        /\ at'[s] = "done" /\ imported'[s] # NothingYet =>
                              \A q \in queries' : imported'[s][q] # Gone
      BY DEF ImportInv, Gone, NothingYet
    <2>1. CASE s = r BY <1>1, <1>2, <2>1 DEF ResultTypeInv
    <2>2. CASE s # r BY <1>1, <2>2 DEF ResultTypeInv, ImportInv
    <2> QED BY <2>1, <2>2
  <1>8. QueryInv' BY <1>1 DEF QueryInv, Working, ResultTypeInv
  <1> QED BY <1>3, <1>4, <1>5, <1>6, <1>7, <1>8

LEMMA FingerprintStep == ASSUME ResultsInv, NEW r \in Workers, Fingerprint(r) PROVE ResultsInv'
  <1> USE DEF ResultsInv
  <1>1. /\ at[r] = "start"
        /\ bundle' = [bundle EXCEPT ![r] = pack]
        /\ late' = late \cup ({pack} \ {decoder[r]})
        /\ at' = [at EXCEPT ![r] = "look"]
        /\ UNCHANGED <<pack, decoder, queries, cache, pending, query, made, imported>>
    BY DEF Fingerprint, RunAt
  <1>2. /\ bundle'[r] = pack /\ at'[r] = "look" /\ late \subseteq late'
        /\ \A s \in Workers \ {r} : at'[s] = at[s] /\ bundle'[s] = bundle[s]
        /\ pending[r] = queries /\ imported[r] = NothingYet
    BY <1>1 DEF ResultTypeInv, MadeInv
  <1>3. ResultTypeInv' BY <1>1 DEF ResultTypeInv, QuerySteps
  <1>4. \A m : \A v \in Versions : Fits(m, v, pack, late) => Fits(m, v, pack, late')
    BY <1>2
  <1>5. FileInv' /\ ResultDigestInv'
    BY <1>1, <1>4 DEF FileInv, ResultDigestInv, Gone, Damaged
  <1>6. MadeInv'
    <2> SUFFICES ASSUME NEW s \in Workers
                 PROVE  /\ bundle'[s] <= pack /\ decoder[s] <= pack
                        /\ at'[s] = "start" => pending[s] = queries /\ imported[s] = NothingYet
                        /\ at'[s] \notin Ended \cup {"start"} =>
                              /\ decoder[s] <= bundle'[s]
                              /\ bundle'[s] \notin late' => decoder[s] = bundle'[s]
                        /\ at'[s] \in {"remove", "replace"} =>
                              Fits(made[s], bundle'[s], pack, late')
      BY <1>1 DEF MadeInv, Active, NothingYet, Gone
    <2>1. CASE s = r
      <3>1. pack \notin late' => decoder[r] = pack BY <1>1
      <3> QED BY <1>2, <2>1, <3>1, Numbers DEF MadeInv, ResultTypeInv
    <2>2. CASE s # r
      <3>1. bundle[s] \in Versions BY DEF ResultTypeInv
      <3> QED BY <1>2, <1>4, <2>2, <3>1 DEF MadeInv, Active
    <2> QED BY <2>1, <2>2
  <1>7. QueryInv' BY <1>1, <1>2 DEF QueryInv, Working
  <1>8. SettledInv'
    <2> SUFFICES ASSUME NEW s \in Workers, NEW q \in queries, Active(s)', Settled(s, q)',
                        NEW f \in Parts
                 PROVE  cache[<<q, bundle'[s]>>].files[f] # Damaged
      BY <1>1 DEF SettledInv, Damaged
    <2>1. s # r BY <1>1, <1>2 DEF Settled
    <2>2. Active(s) /\ Settled(s, q) BY <1>1, <1>2, <2>1 DEF Active, Settled
    <2> QED BY <1>2, <2>1, <2>2 DEF SettledInv
  <1>9. ImportInv'
    <2> SUFFICES ASSUME NEW s \in Workers
                 PROVE  /\ at'[s] = "import" => pending[s] = {}
                        /\ \A q \in queries :
                              imported[s][q] = Gone
                                 \/ Fits(imported[s][q], bundle'[s], pack, late')
                        /\ at'[s] = "done" /\ imported[s] # NothingYet =>
                              \A q \in queries : imported[s][q] # Gone
      BY <1>1 DEF ImportInv, Gone, NothingYet
    <2>1. CASE s = r BY <1>2, <2>1 DEF ResultTypeInv, NothingYet
    <2>2. CASE s # r
      <3>1. bundle[s] \in Versions BY DEF ResultTypeInv
      <3> QED BY <1>2, <1>4, <2>2, <3>1 DEF ImportInv
    <2> QED BY <2>1, <2>2
  <1> QED BY <1>3, <1>5, <1>6, <1>7, <1>8, <1>9

\* What a step at work on a query leaves of the versions, and of the others.
LEMMA MadeKept ==
    ASSUME ResultsInv, NEW r \in Workers, UNCHANGED <<pack, decoder, late, queries, bundle>>,
           at'[r] # "start", at'[r] \notin Ended => Active(r) /\ at[r] # "start",
           \A s \in Workers \ {r} :
              at'[s] = at[s] /\ made'[s] = made[s] /\ pending'[s] = pending[s]
                             /\ imported'[s] = imported[s],
           at'[r] \in {"remove", "replace"} => Fits(made'[r], bundle[r], pack, late)
    PROVE  MadeInv'
  <1> SUFFICES ASSUME NEW s \in Workers
               PROVE  /\ bundle[s] <= pack /\ decoder[s] <= pack
                      /\ at'[s] = "start" => pending'[s] = queries /\ imported'[s] = NothingYet
                      /\ at'[s] \notin Ended \cup {"start"} =>
                            /\ decoder[s] <= bundle[s]
                            /\ bundle[s] \notin late => decoder[s] = bundle[s]
                      /\ at'[s] \in {"remove", "replace"} =>
                            Fits(made'[s], bundle[s], pack, late)
    BY DEF MadeInv, Active, NothingYet, Gone
  <1>1. CASE s = r BY <1>1 DEF ResultsInv, MadeInv, Active
  <1>2. CASE s # r BY <1>2 DEF ResultsInv, MadeInv, Active
  <1> QED BY <1>1, <1>2

LEMMA LookStep == ASSUME ResultsInv, NEW r \in Workers, Look(r) PROVE ResultsInv'
  <1> USE DEF ResultsInv
  <1>1. PICK q \in pending[r] :
          /\ query' = [query EXCEPT ![r] = q]
          /\ pending' = [pending EXCEPT ![r] = @ \ {q}]
          /\ at' = [at EXCEPT ![r] = IF Raising \in cache[<<q, bundle[r]>>].digests THEN "failed"
                                     ELSE IF Hit(cache[<<q, bundle[r]>>]) THEN "publish"
                                     ELSE "execute"]
    BY DEF Look, RunAt, versionVars
  <1>2. at[r] = "look" /\ UNCHANGED <<pack, decoder, late, queries, cache, bundle, made, imported>>
    BY DEF Look, versionVars
  <1>3. q \in Queries /\ <<q, bundle[r]>> \in ResultKeys BY DEF ResultTypeInv, ResultKeys
  <1>4. ResultTypeInv' BY <1>1, <1>2, <1>3 DEF ResultTypeInv, QuerySteps, Working, Ended
  <1>5. FileInv' /\ ResultDigestInv' BY <1>2 DEF FileInv, ResultDigestInv
  <1>6. at'[r] \in {"failed", "publish", "execute"} /\ \A s \in Workers \ {r} : at'[s] = at[s]
    BY <1>1 DEF ResultTypeInv
  <1>7. MadeInv'
    <2>1. \A s \in Workers \ {r} : pending'[s] = pending[s] BY <1>1 DEF ResultTypeInv
    <2> QED BY <1>2, <1>6, <2>1, MadeKept DEF Active, Ended
  <1>8. \A p \in queries : (at'[r] \notin Ended /\ Settled(r, p)') =>
           \A f \in Parts : cache'[<<p, bundle[r]>>].files[f] # Damaged
    <2> SUFFICES ASSUME NEW p \in queries, at'[r] \notin Ended, Settled(r, p)', NEW f \in Parts
                 PROVE  cache[<<p, bundle[r]>>].files[f] # Damaged
      BY <1>2
    <2>1. CASE p = q
      <3>1. at'[r] # "execute" BY <1>1, <2>1 DEF Settled, Working, ResultTypeInv
      <3>2. Hit(cache[<<q, bundle[r]>>]) BY <1>1, <3>1 DEF ResultTypeInv, Ended
      <3>3. cache[<<q, bundle[r]>>].files \in cache[<<q, bundle[r]>>].digests
        BY <3>2 DEF Hit
      <3> QED BY <1>3, <2>1, <3>3 DEF ResultDigestInv
    <2>2. CASE p # q
      <3>1. Settled(r, p) BY <1>1, <1>2, <2>2 DEF Settled, Working, ResultTypeInv
      <3> QED BY <1>2, <3>1 DEF SettledInv, Active, Ended
    <2> QED BY <2>1, <2>2
  <1>9. \A s \in Workers \ {r} : at'[s] = at[s] /\ pending'[s] = pending[s] /\ query'[s] = query[s]
    BY <1>1 DEF ResultTypeInv
  <1>10. SettledInv'
    BY <1>2, <1>8, <1>9, OthersSettled
  <1>11. ImportInv'
    BY <1>2, <1>6, <1>9 DEF ImportInv, NothingYet, Gone
  <1>12. QueryInv'
    <2>1. q \in queries \ pending'[r] /\ query'[r] = q /\ pending'[r] \subseteq queries
      BY <1>1 DEF QueryInv, ResultTypeInv
    <2> QED BY <1>2, <1>9, <2>1 DEF QueryInv
  <1> QED BY <1>4, <1>5, <1>7, <1>10, <1>11, <1>12

\* A step that leaves a run at work on its query makes nothing settled.
LEMMA SameSettled ==
    ASSUME ResultsInv, NEW r \in Workers, UNCHANGED <<queries, bundle, pending, query>>,
           Active(r), at' \in [Workers -> QuerySteps],
           at[r] \in Working => at'[r] \in Working \cup Ended,
           \A s \in Workers \ {r} : at'[s] = at[s],
           \A k \in ResultKeys, f \in Parts :
              cache'[k].files[f] = Damaged => cache[k].files[f] = Damaged
    PROVE  SettledInv'
  <1>1. ASSUME NEW q \in queries, at'[r] \notin Ended, Settled(r, q)', NEW f \in Parts
        PROVE  cache'[<<q, bundle[r]>>].files[f] # Damaged
    <2>1. Settled(r, q) BY <1>1 DEF Settled
    <2>2. cache[<<q, bundle[r]>>].files[f] # Damaged
      BY <2>1 DEF ResultsInv, SettledInv
    <2>3. <<q, bundle[r]>> \in ResultKeys BY DEF ResultsInv, ResultTypeInv, ResultKeys
    <2> QED BY <2>2, <2>3
  <1> QED BY <1>1, OthersSettled

LEMMA ExecuteStep == ASSUME ResultsInv, NEW r \in Workers, Execute(r) PROVE ResultsInv'
  <1> USE DEF ResultsInv
  <1>1. /\ at[r] = "execute" /\ made' = [made EXCEPT ![r] = <<pack, decoder[r]>>]
        /\ UNCHANGED <<pack, decoder, late, queries, cache, bundle, pending, query, imported>>
        /\ at' = [at EXCEPT ![r] = IF cache[CacheKey(r)].dir THEN "remove" ELSE "replace"]
    BY DEF Execute, RunAt, versionVars
  <1>2. ResultTypeInv'
    <2>1. <<pack, decoder[r]>> \in Made BY DEF ResultTypeInv, Made
    <2>2. made' \in [Workers -> Made] BY <1>1, <2>1 DEF ResultTypeInv
    <2> QED BY <1>1, <2>2 DEF ResultTypeInv, QuerySteps, Working
  <1>3. FileInv' /\ ResultDigestInv' BY <1>1 DEF FileInv, ResultDigestInv
  <1>4. /\ at'[r] \in {"remove", "replace"}
        /\ \A s \in Workers \ {r} : at'[s] = at[s] /\ made'[s] = made[s]
        /\ made'[r] = <<pack, decoder[r]>>
    BY <1>1 DEF ResultTypeInv
  <1>5. MadeInv'
    <2>1. Active(r) /\ at[r] # "start" BY <1>1 DEF Active, Ended
    <2>2. Fits(<<pack, decoder[r]>>, bundle[r], pack, late)
      <3>1. <<pack, decoder[r]>> \in Made BY DEF ResultTypeInv, Made
      <3>2. /\ bundle[r] <= pack /\ pack <= pack /\ decoder[r] <= bundle[r]
            /\ bundle[r] \notin late => decoder[r] = bundle[r]
        BY <2>1, Numbers DEF MadeInv, ResultTypeInv
      <3> QED BY <3>1, <3>2
    <2> HIDE DEF Fits
    <2> QED BY <1>1, <1>4, <2>1, <2>2, MadeKept
  <1>6. SettledInv'
    BY <1>1, <1>2, <1>4, SameSettled DEF Active, Ended, Working, ResultTypeInv
  <1>7. ImportInv' BY <1>1, <1>4 DEF ImportInv, NothingYet, Gone
  <1>8. QueryInv' BY <1>1, <1>4 DEF QueryInv, Working
  <1> QED BY <1>2, <1>3, <1>5, <1>6, <1>7, <1>8

\* An entry of the run is written while the run stays at work, or fails.
LEMMA EntryStep ==
    ASSUME ResultsInv, NEW r \in Workers, NEW new \in ResultEntries,
           cache' = [cache EXCEPT ![CacheKey(r)] = new],
           \A f \in Parts : \/ new.files[f] = cache[CacheKey(r)].files[f]
                            \/ new.files[f] = Gone \/ Fits(new.files[f], bundle[r], pack, late),
           \A digest \in new.digests : \A f \in Parts : digest[f] # Damaged,
           Active(r), at[r] \notin {"start", "import"},
           NEW where \in QuerySteps \ {"start", "import", "done", "execute"},
           at' = [at EXCEPT ![r] = where],
           where = "describe" => /\ at[r] \in Working
                                 /\ \A f \in Parts : new.files[f] # Damaged,
           where # "describe" /\ at[r] \in Working => where \in Working \cup Ended,
           where \in Working => at[r] \in {"remove", "replace"},
           made' = made \/ (made' = [made EXCEPT ![r] = <<0, 0>>] /\ where \notin Working),
           UNCHANGED <<pack, decoder, late, queries, bundle, pending, query, imported>>
    PROVE  ResultsInv'
  <1> USE DEF ResultsInv
  <1>1. /\ at'[r] = where /\ \A s \in Workers \ {r} : at'[s] = at[s] /\ made'[s] = made[s]
        /\ at' \in [Workers -> QuerySteps]
    BY DEF ResultTypeInv
  <1>2. /\ cache' \in [ResultKeys -> ResultEntries] /\ FileInv' /\ ResultDigestInv'
        /\ \A k \in ResultKeys, f \in Parts :
              cache'[k].files[f] = Damaged => cache[k].files[f] = Damaged
    BY EntryWritten
  <1>3. ResultTypeInv'
    <2>1. made' \in [Workers -> Made]
      <3>1. made \in [Workers -> Made] BY DEF ResultTypeInv
      <3>2. CASE made' = made BY <3>1, <3>2
      <3>3. CASE made' = [made EXCEPT ![r] = <<0, 0>>] BY <3>1, <3>3, Numbers
      <3> QED BY <3>2, <3>3
    <2> QED BY <1>1, <1>2, <2>1 DEF ResultTypeInv
  <1>4. MadeInv'
    <2>1. at[r] # "start" /\ where # "start" OBVIOUS
    <2>2. at'[r] \in {"remove", "replace"} => Fits(made'[r], bundle[r], pack, late)
      BY <1>1 DEF MadeInv, Working
    <2> QED BY <1>1, <2>1, <2>2, MadeKept
  <1>5. QueryInv' BY <1>1 DEF QueryInv, Working
  <1>6. SettledInv'
    <2>1. CASE where = "describe"
      <3>1. ASSUME NEW q \in queries, at'[r] \notin Ended, Settled(r, q)', NEW f \in Parts
            PROVE  cache'[<<q, bundle[r]>>].files[f] # Damaged
        <4>1. q \notin pending[r] BY <3>1 DEF Settled
        <4>2. CASE q = query[r]
          <5>1. cache'[<<q, bundle[r]>>] = new
            BY <4>2, ResultKeyTypes DEF CacheKey, ResultTypeInv
          <5> QED BY <2>1, <5>1
        <4>3. CASE q # query[r]
          <5>1. Settled(r, q) BY <4>1, <4>3 DEF Settled
          <5>2. cache[<<q, bundle[r]>>].files[f] # Damaged BY <5>1 DEF SettledInv
          <5>3. <<q, bundle[r]>> \in ResultKeys BY DEF ResultTypeInv, ResultKeys
          <5> QED BY <1>2, <5>2, <5>3
        <4> QED BY <4>2, <4>3
      <3> QED BY <1>1, <1>2, <3>1, OthersSettled
    <2>2. CASE where # "describe"
      BY <1>1, <1>2, <2>2, SameSettled
    <2> QED BY <2>1, <2>2
  <1>7. ImportInv' BY <1>1 DEF ImportInv, NothingYet, Gone
  <1> QED BY <1>2, <1>3, <1>4, <1>5, <1>6, <1>7

\* What an entry holds, and what it is written with.
LEMMA HeldTypes ==
    ASSUME ResultTypeInv, NEW r \in Workers
    PROVE  /\ cache[CacheKey(r)] \in ResultEntries
           /\ cache[CacheKey(r)] = [files   |-> cache[CacheKey(r)].files,
                               digests |-> cache[CacheKey(r)].digests,
                               dir     |-> cache[CacheKey(r)].dir]
  BY ResultKeyTypes DEF ResultTypeInv, ResultEntries

LEMMA RemoveStep == ASSUME ResultsInv, NEW r \in Workers, RemoveResult(r) PROVE ResultsInv'
  <1> USE DEF ResultsInv
  <1> DEFINE held == cache[CacheKey(r)]
             Drop(new) == cache' = [cache EXCEPT ![CacheKey(r)] = new]
  <1>1. at[r] = "remove" /\ UNCHANGED <<pack, decoder, late, queries, bundle, pending, query, made, imported>>
    BY DEF RemoveResult, versionVars
  <1>2. held \in ResultEntries /\ \A digest \in held.digests : \A f \in Parts : digest[f] # Damaged
    BY HeldTypes, ResultKeyTypes DEF ResultDigestInv
  <1>3. at = [at EXCEPT ![r] = "remove"] BY <1>1 DEF ResultTypeInv
  <1>4. cache = [cache EXCEPT ![CacheKey(r)] = held] BY DEF ResultTypeInv
  <1>5. ASSUME NEW new \in ResultEntries, Drop(new), new.digests \subseteq held.digests,
               \A f \in Parts : new.files[f] \in {held.files[f], Gone},
               NEW where \in {"remove", "replace", "failed"},
               at' = [at EXCEPT ![r] = where]
        PROVE  ResultsInv'
    <2>1. where \in QuerySteps \ {"start", "import", "done", "execute"} BY DEF QuerySteps, Working, Ended
    <2>2. Active(r) BY <1>1 DEF Active, Ended
    <2> HIDE DEF held
    <2> QED BY <1>1, <1>2, <1>5, <2>1, <2>2, EntryStep DEF Working, Ended, held
  <1>6. CASE Drop([held EXCEPT !.digests = {}]) /\ UNCHANGED at
    <2> DEFINE new == [held EXCEPT !.digests = {}]
    <2>1. new \in ResultEntries /\ new.digests = {} /\ new.files = held.files
      BY <1>2 DEF ResultEntries
    <2> HIDE DEF new, held
    <2> QED BY <1>3, <1>5, <1>6, <2>1 DEF new
  <1>7. ASSUME NEW g \in Parts, Drop([held EXCEPT !.files[g] = Gone]), UNCHANGED at
        PROVE  ResultsInv'
    <2> DEFINE files == [held.files EXCEPT ![g] = Gone]
               new == [held EXCEPT !.files = files]
    <2>1. files \in [Parts -> QueryFiles] /\ \A f \in Parts : files[f] \in {held.files[f], Gone}
      BY <1>2, Numbers DEF ResultEntries
    <2>2. Drop(new) BY <1>7
    <2> HIDE DEF files
    <2>3. new \in ResultEntries /\ new.digests = held.digests /\ new.files = files
      BY <1>2, <2>1 DEF ResultEntries
    <2> HIDE DEF new, held
    <2> QED BY <1>3, <1>5, <1>7, <2>1, <2>2, <2>3
  <1>8. CASE Drop(Absent) /\ RunAt(r, "replace")
    BY <1>5, <1>8, AbsentTypes DEF RunAt
  <1>9. CASE RunAt(r, "failed") /\ UNCHANGED cache
    BY <1>2, <1>4, <1>5, <1>9 DEF RunAt
  <1> QED BY <1>6, <1>7, <1>8, <1>9 DEF RemoveResult, versionVars

LEMMA ReplaceStep == ASSUME ResultsInv, NEW r \in Workers, Replace(r) PROVE ResultsInv'
  <1> USE DEF ResultsInv
  <1> DEFINE held == cache[CacheKey(r)]
             new == [files |-> [f \in Parts |-> made[r]], digests |-> {}, dir |-> TRUE]
  <1>1. /\ at[r] = "replace" /\ made' = [made EXCEPT ![r] = <<0, 0>>]
        /\ UNCHANGED <<pack, decoder, late, queries, bundle, pending, query, imported>>
    BY DEF Replace, versionVars
  <1>2. made[r] \in Made /\ Fits(made[r], bundle[r], pack, late)
    BY <1>1 DEF MadeInv, ResultTypeInv
  <1>3. Active(r) /\ "describe" \in QuerySteps /\ "failed" \in QuerySteps
    BY <1>1 DEF Active, Ended, QuerySteps
  <1>4. held \in ResultEntries /\ \A digest \in held.digests : \A f \in Parts : digest[f] # Damaged
    BY HeldTypes, ResultKeyTypes DEF ResultDigestInv
  <1>5. new \in ResultEntries /\ new.digests = {} /\ \A f \in Parts : new.files[f] = made[r]
    BY <1>2, Numbers DEF ResultEntries
  <1>6. CASE cache' = [cache EXCEPT ![CacheKey(r)] = new] /\ RunAt(r, "describe")
    <2>1. made[r] # Damaged BY <1>2, Numbers
    <2> HIDE DEF new, held, Fits
    <2> QED BY <1>1, <1>2, <1>3, <1>5, <1>6, <2>1, EntryStep DEF RunAt, Working
  <1>7. CASE cache' = cache /\ RunAt(r, "failed")
    <2>1. cache' = [cache EXCEPT ![CacheKey(r)] = held] BY <1>7 DEF ResultTypeInv
    <2> HIDE DEF new
    <2> QED BY <1>1, <1>3, <1>4, <1>7, <2>1, EntryStep DEF RunAt, Working, Ended
  <1> QED BY <1>6, <1>7 DEF Replace, versionVars

LEMMA QueryDescribeStep == ASSUME ResultsInv, NEW r \in Workers, DescribeResult(r) PROVE ResultsInv'
  <1> USE DEF ResultsInv
  <1> DEFINE held == cache[CacheKey(r)]
             new == [held EXCEPT !.digests = {held.files}]
  <1>1. at[r] = "describe" /\ UNCHANGED <<pack, decoder, late, queries, bundle, pending, query, made, imported>>
    BY DEF DescribeResult, versionVars
  <1>2. Active(r) /\ "publish" \in QuerySteps /\ "failed" \in QuerySteps
    BY <1>1 DEF Active, Ended, QuerySteps
  <1>3. held \in ResultEntries /\ \A digest \in held.digests : \A f \in Parts : digest[f] # Damaged
    BY HeldTypes, ResultKeyTypes DEF ResultDigestInv
  <1>4. \A f \in Parts : held.files[f] # Damaged
    <2>1. query[r] \in queries /\ Settled(r, query[r])
      BY <1>1 DEF QueryInv, Settled, Working
    <2> QED BY <1>2, <2>1 DEF SettledInv, CacheKey
  <1>5. /\ new \in ResultEntries /\ new.files = held.files
        /\ \A digest \in new.digests : \A f \in Parts : digest[f] # Damaged
    <2>1. held.files \in [Parts -> QueryFiles] BY <1>3 DEF ResultEntries
    <2>2. {held.files} \in SUBSET ResultManifests BY <2>1, ManifestTypes
    <2>3. new \in ResultEntries /\ new.files = held.files /\ new.digests = {held.files}
      BY <1>3, <2>2 DEF ResultEntries
    <2> HIDE DEF new
    <2> QED BY <1>4, <2>3
  <1>6. CASE cache' = [cache EXCEPT ![CacheKey(r)].digests = {held.files}] /\ RunAt(r, "publish")
    <2>1. cache' = [cache EXCEPT ![CacheKey(r)] = new] BY <1>6
    <2> HIDE DEF new, held
    <2> QED BY <1>1, <1>2, <1>5, <1>6, <2>1, EntryStep DEF RunAt, Working, held
  <1>7. CASE cache' = cache /\ RunAt(r, "failed")
    <2>1. cache' = [cache EXCEPT ![CacheKey(r)] = held] BY <1>7 DEF ResultTypeInv
    <2> HIDE DEF new
    <2> QED BY <1>1, <1>2, <1>3, <1>7, <2>1, EntryStep DEF RunAt, Working, Ended
  <1> QED BY <1>6, <1>7 DEF DescribeResult, versionVars

LEMMA PublishStep == ASSUME ResultsInv, NEW r \in Workers, Publish(r) PROVE ResultsInv'
  <1> USE DEF ResultsInv
  <1>1. /\ at[r] = "publish"
        /\ UNCHANGED <<pack, decoder, late, queries, cache, bundle, pending, query, made, imported>>
    BY DEF Publish, versionVars
  <1>2. PICK where \in {"failed", "import", "look"} :
          /\ at' = [at EXCEPT ![r] = where]
          /\ where = "import" => pending[r] = {}
    BY DEF Publish, RunAt, versionVars
  <1>3. /\ at'[r] = where /\ \A s \in Workers \ {r} : at'[s] = at[s]
        /\ at' \in [Workers -> QuerySteps]
    BY <1>2 DEF ResultTypeInv, QuerySteps, Ended
  <1>4. ResultTypeInv' BY <1>1, <1>3 DEF ResultTypeInv
  <1>5. FileInv' /\ ResultDigestInv' BY <1>1 DEF FileInv, ResultDigestInv
  <1>6. MadeInv' /\ QueryInv'
    BY <1>1, <1>2, <1>3, MadeKept DEF QueryInv, Working, Active, Ended
  <1>7. SettledInv'
    <2>1. Active(r) BY <1>1 DEF Active, Ended
    <2> QED BY <1>1, <1>3, <2>1, SameSettled DEF Working
  <1>8. ImportInv' BY <1>1, <1>2, <1>3 DEF ImportInv, NothingYet, Gone
  <1> QED BY <1>4, <1>5, <1>6, <1>7, <1>8

LEMMA ImportStep == ASSUME ResultsInv, NEW r \in Workers, Import(r) PROVE ResultsInv'
  <1> USE DEF ResultsInv
  <1>1. /\ at[r] = "import"
        /\ UNCHANGED <<pack, decoder, late, queries, cache, bundle, pending, query, made>>
    BY DEF Import, versionVars
  <1>2. PICK q \in queries :
          LET file == cache[<<q, bundle[r]>>].files["normalized"] IN
          /\ imported' = [imported EXCEPT ![r][q] = file]
          /\ at' = [at EXCEPT ![r] =
                IF file = Gone THEN "failed"
                ELSE IF \A o \in queries \ {q} : imported[r][o] # Gone THEN "done" ELSE "import"]
    BY DEF Import, RunAt, versionVars
  <1> DEFINE file == cache[<<q, bundle[r]>>].files["normalized"]
  <1>3. /\ q \in Queries /\ bundle[r] \in Versions /\ <<q, bundle[r]>> \in ResultKeys
        /\ "normalized" \in Parts
    BY DEF ResultTypeInv, ResultKeys, Parts
  <1>4. file \in QueryFiles /\ (file = Gone \/ Fits(file, bundle[r], pack, late))
    <2>1. cache[<<q, bundle[r]>>] \in ResultEntries BY <1>3 DEF ResultTypeInv
    <2>2. file \in QueryFiles BY <1>3, <2>1 DEF ResultEntries
    <2>3. Active(r) /\ Settled(r, q)
      BY <1>1 DEF Active, Ended, Settled, Working, ImportInv
    <2>4. file # Damaged BY <1>3, <2>3 DEF SettledInv
    <2>5. file \in {Gone, Damaged} \/ Fits(file, bundle[r], pack, late) BY <1>3 DEF FileInv
    <2> QED BY <2>2, <2>4, <2>5
  <1> HIDE DEF file
  <1>5. /\ imported' \in [Workers -> [Queries -> QueryFiles]]
        /\ imported'[r][q] = file
        /\ \A p \in Queries \ {q} : imported'[r][p] = imported[r][p]
        /\ \A s \in Workers \ {r} : imported'[s] = imported[s]
    BY <1>2, <1>3, <1>4 DEF ResultTypeInv, file
  <1>6. /\ at'[r] \in {"failed", "done", "import"}
        /\ at'[r] = "done" => file # Gone /\ \A o \in queries \ {q} : imported[r][o] # Gone
        /\ \A s \in Workers \ {r} : at'[s] = at[s]
        /\ at' \in [Workers -> QuerySteps]
    BY <1>2 DEF ResultTypeInv, QuerySteps, Ended, file
  <1>7. ResultTypeInv' BY <1>1, <1>5, <1>6 DEF ResultTypeInv
  <1>8. FileInv' /\ ResultDigestInv' BY <1>1 DEF FileInv, ResultDigestInv
  <1>9. MadeInv' /\ QueryInv'
    BY <1>1, <1>5, <1>6, MadeKept DEF QueryInv, Working, Active, Ended
  <1>10. SettledInv'
    <2>1. Active(r) BY <1>1 DEF Active, Ended
    <2> QED BY <1>1, <1>6, <2>1, SameSettled DEF Working
  <1>11. ImportInv'
    <2> SUFFICES ASSUME NEW s \in Workers
                 PROVE  /\ at'[s] = "import" => pending[s] = {}
                        /\ \A p \in queries :
                              imported'[s][p] = Gone \/ Fits(imported'[s][p], bundle[s], pack, late)
                        /\ at'[s] = "done" /\ imported'[s] # NothingYet =>
                              \A p \in queries : imported'[s][p] # Gone
      BY <1>1 DEF ImportInv, Gone, NothingYet
    <2>1. queries \subseteq Queries BY DEF ResultTypeInv
    <2>2. CASE s = r BY <1>1, <1>4, <1>5, <1>6, <2>1, <2>2 DEF ImportInv
    <2>3. CASE s # r BY <1>5, <1>6, <2>3 DEF ImportInv
    <2> QED BY <2>2, <2>3
  <1> QED BY <1>7, <1>8, <1>9, <1>10, <1>11

LEMMA EditStep == ASSUME ResultsInv, EditPack PROVE ResultsInv'
  <1> USE DEF ResultsInv
  <1>1. /\ pack \in Versions /\ pack' \in Versions /\ pack <= pack'
        /\ UNCHANGED <<queries, decoder, late, cache, bundle, pending, query, made, at, imported>>
    BY DEF EditPack, ResultTypeInv, Versions
  <1>2. \A m : \A v \in Versions : Fits(m, v, pack, late) => Fits(m, v, pack', late)
    BY <1>1 DEF Versions, Made
  <1>3. ResultTypeInv' BY <1>1 DEF ResultTypeInv
  <1>4. FileInv'
    <2> SUFFICES ASSUME NEW q \in Queries, NEW v \in Versions, NEW f \in Parts
                 PROVE  cache'[<<q, v>>].files[f] \in {Gone, Damaged}
                        \/ Fits(cache'[<<q, v>>].files[f], v, pack', late')
      BY DEF FileInv, Gone, Damaged
    <2>1. cache[<<q, v>>].files[f] \in {Gone, Damaged}
          \/ Fits(cache[<<q, v>>].files[f], v, pack, late)
      BY DEF FileInv
    <2> QED BY <1>1, <1>2, <2>1
  <1>5. ResultDigestInv' BY <1>1 DEF ResultDigestInv, Damaged
  <1>6. \A r \in Workers : bundle[r] \in Versions BY DEF ResultTypeInv
  <1>7. MadeInv'
    <2> SUFFICES ASSUME NEW s \in Workers
                 PROVE  /\ bundle[s] <= pack' /\ decoder[s] <= pack'
                        /\ at[s] = "start" => pending[s] = queries /\ imported[s] = NothingYet
                        /\ at[s] \notin Ended \cup {"start"} =>
                              /\ decoder[s] <= bundle[s]
                              /\ bundle[s] \notin late => decoder[s] = bundle[s]
                        /\ at[s] \in {"remove", "replace"} =>
                              Fits(made[s], bundle[s], pack', late)
      BY <1>1 DEF MadeInv, Active, NothingYet, Gone
    <2>1. bundle[s] <= pack' /\ decoder[s] <= pack'
      BY <1>1, <1>6 DEF MadeInv, ResultTypeInv, Versions
    <2> QED BY <1>2, <1>6, <2>1 DEF MadeInv, Active
  <1>8. QueryInv' /\ SettledInv' BY <1>1 DEF QueryInv, SettledInv, Active, Settled, Damaged
  <1>9. ImportInv' BY <1>1, <1>2, <1>6 DEF ImportInv, Gone, NothingYet
  <1> QED BY <1>3, <1>4, <1>5, <1>7, <1>8, <1>9

LEMMA StopStep == ASSUME ResultsInv, NEW r \in Workers, StopRun(r) PROVE ResultsInv'
  <1> USE DEF ResultsInv
  <1>1. /\ at' = [at EXCEPT ![r] = "killed"]
        /\ made' = [made EXCEPT ![r] = <<0, 0>>] /\ pending' = [pending EXCEPT ![r] = {}]
        /\ UNCHANGED <<pack, decoder, late, queries, cache, bundle, query, imported>>
    BY DEF StopRun, RunAt, versionVars
  <1>2. /\ at'[r] = "killed" /\ pending'[r] = {}
        /\ \A s \in Workers \ {r} : at'[s] = at[s] /\ pending'[s] = pending[s] /\ made'[s] = made[s]
    BY <1>1 DEF ResultTypeInv
  <1>3. ResultTypeInv' BY <1>1, Numbers DEF ResultTypeInv, QuerySteps, Ended
  <1>4. FileInv' /\ ResultDigestInv' BY <1>1 DEF FileInv, ResultDigestInv
  <1>5. MadeInv' /\ QueryInv'
    BY <1>1, <1>2, MadeKept DEF QueryInv, Working, Ended
  <1>6. SettledInv' BY <1>1, <1>2, OthersSettled DEF Ended
  <1>7. ImportInv' BY <1>1, <1>2 DEF ImportInv, NothingYet, Gone
  <1> QED BY <1>3, <1>4, <1>5, <1>6, <1>7

LEMMA DamageStep == ASSUME ResultsInv, DamageResult PROVE ResultsInv'
  <1> USE DEF ResultsInv
  <1>1. /\ \A r \in Workers : ~Active(r)
        /\ UNCHANGED <<pack, decoder, late, queries, bundle, pending, query, made, at, imported>>
    BY DEF DamageResult, versionVars
  <1>2. PICK k \in ResultKeys :
          \/ \E f \in Parts, found \in {Gone, Damaged} :
                cache' = [cache EXCEPT ![k].files[f] = found]
          \/ \E found \in {{}, {Unfit}, {Raising}} :
                cache' = [cache EXCEPT ![k].digests = found]
    BY DEF DamageResult, ResultTypeInv
  <1>3. cache[k] \in ResultEntries BY DEF ResultTypeInv
  <1>4. PICK new \in ResultEntries :
          /\ cache' = [cache EXCEPT ![k] = new]
          /\ \A g \in Parts : new.files[g] \in {cache[k].files[g], Gone, Damaged}
          /\ \A digest \in new.digests : \A g \in Parts : digest[g] # Damaged
    <2>1. CASE \E f \in Parts, found \in {Gone, Damaged} :
                  cache' = [cache EXCEPT ![k].files[f] = found]
      <3>1. PICK f \in Parts, found \in {Gone, Damaged} :
              cache' = [cache EXCEPT ![k].files[f] = found]
        BY <2>1
      <3> DEFINE files == [cache[k].files EXCEPT ![f] = found]
                 new == [cache[k] EXCEPT !.files = files]
      <3>2. /\ files \in [Parts -> QueryFiles]
            /\ \A g \in Parts : files[g] \in {cache[k].files[g], Gone, Damaged}
        BY <1>3, Numbers DEF ResultEntries
      <3>3. cache' = [cache EXCEPT ![k] = new] BY <3>1
      <3> HIDE DEF files
      <3>4. new \in ResultEntries /\ new.digests = cache[k].digests /\ new.files = files
        BY <1>3, <3>2 DEF ResultEntries
      <3> HIDE DEF new
      <3> QED BY <3>2, <3>3, <3>4 DEF ResultDigestInv
    <2>2. CASE \E found \in {{}, {Unfit}, {Raising}} :
                  cache' = [cache EXCEPT ![k].digests = found]
      <3>1. PICK found \in {{}, {Unfit}, {Raising}} :
              cache' = [cache EXCEPT ![k].digests = found]
        BY <2>2
      <3> DEFINE new == [cache[k] EXCEPT !.digests = found]
      <3>2. cache' = [cache EXCEPT ![k] = new] BY <3>1
      <3>3. /\ found \in SUBSET ResultManifests
            /\ \A digest \in found : \A g \in Parts : digest[g] # Damaged
        BY <3>1, ManifestTypes
      <3>4. new \in ResultEntries /\ new.digests = found /\ new.files = cache[k].files
        BY <1>3, <3>3 DEF ResultEntries
      <3> HIDE DEF new
      <3> QED BY <3>2, <3>3, <3>4
    <2> QED BY <1>2, <2>1, <2>2
  <1>9. cache'[k] = new /\ \A j \in ResultKeys \ {k} : cache'[j] = cache[j]
    BY <1>4 DEF ResultTypeInv
  <1>10. ResultTypeInv' BY <1>1, <1>4 DEF ResultTypeInv
  <1>11. FileInv'
    <2> SUFFICES ASSUME NEW q \in Queries, NEW v \in Versions, NEW g \in Parts
                 PROVE  cache'[<<q, v>>].files[g] \in {Gone, Damaged}
                        \/ Fits(cache'[<<q, v>>].files[g], v, pack', late')
      BY DEF FileInv, Gone, Damaged
    <2>1. <<q, v>> \in ResultKeys BY DEF ResultKeys
    <2>2. cache[<<q, v>>].files[g] \in {Gone, Damaged}
          \/ Fits(cache[<<q, v>>].files[g], v, pack, late)
      BY DEF FileInv
    <2> QED BY <1>1, <1>4, <1>9, <2>1, <2>2
  <1>12. ResultDigestInv' BY <1>4, <1>9 DEF ResultDigestInv, Damaged
  <1>13. MadeInv' /\ QueryInv' BY <1>1 DEF MadeInv, QueryInv, Active, NothingYet, Gone
  <1>14. SettledInv' BY <1>1 DEF SettledInv, Active
  <1>15. ImportInv' BY <1>1 DEF ImportInv, Gone, NothingYet
  <1> QED BY <1>10, <1>11, <1>12, <1>13, <1>14, <1>15

LEMMA QueryNextStep ==
    ASSUME ResultsInv, [QueryNext]_queryVars PROVE ResultsInv'
  <1>1. ASSUME NEW r \in Workers, RunStep(r) PROVE ResultsInv'
    BY <1>1, BeginStep, FingerprintStep, LookStep, ExecuteStep, RemoveStep, ReplaceStep, QueryDescribeStep,
       PublishStep, ImportStep DEF RunStep
  <1>2. CASE UNCHANGED queryVars
    <2>1. UNCHANGED <<pack, decoder, late, queries, cache, bundle, pending, query, made, at, imported>>
      BY <1>2 DEF queryVars
    <2> USE <2>1 DEF ResultsInv
    <2>2. ResultTypeInv' BY DEF ResultTypeInv
    <2>3. FileInv' /\ ResultDigestInv' BY DEF FileInv, ResultDigestInv
    <2>4. MadeInv' /\ QueryInv' BY DEF MadeInv, QueryInv, Active, NothingYet, Gone
    <2>5. SettledInv' BY DEF SettledInv, Active, Settled
    <2>6. ImportInv' BY DEF ImportInv, Gone, NothingYet
    <2> QED BY <2>2, <2>3, <2>4, <2>5, <2>6
  <1> QED BY <1>1, <1>2, EditStep, StopStep, DamageStep DEF QueryNext

\* Each part of the invariant holds throughout (run_queries, by any number of
\* overlapping processes, killed and damaged as the module says).
THEOREM QueryInvariant == QuerySpec => []ResultsInv
  <1>1. QueryInit => ResultsInv BY InitResultsInv
  <1>2. ResultsInv /\ [QueryNext]_queryVars => ResultsInv' BY QueryNextStep
  <1> QED BY <1>1, <1>2, PTL DEF QuerySpec

(***************************************************************************)
(* A run that ends well has imported, for each query, an undamaged result  *)
(* of libraries no older than the ones it fingerprinted, and of exactly    *)
(* those unless the pack was edited since, whichever run made the entry;   *)
(* the normalizer that made it is none that came later, and the very one   *)
(* fingerprinted unless a run took that fingerprint with another decoder.   *)
(***************************************************************************)
THEOREM ImportsAsNamed == QuerySpec => []ImportedAsNamed
  <1>1. ASSUME ResultsInv, NEW r \in Workers, at[r] = "done", imported[r] # NothingYet,
               NEW q \in queries
        PROVE  \E rows \in bundle[r] .. MaxVersion, by \in 0 .. bundle[r] :
                  /\ imported[r][q] = <<rows, by>>
                  /\ pack = bundle[r] => rows = bundle[r]
                  /\ bundle[r] \notin late => by = bundle[r]
    <2>1. Fits(imported[r][q], bundle[r], pack, late)
      BY <1>1 DEF ResultsInv, ImportInv
    <2>2. pack \in Versions /\ bundle[r] \in Versions BY <1>1 DEF ResultsInv, ResultTypeInv
    <2>3. PICK rows \in Versions, by \in Versions : imported[r][q] = <<rows, by>>
      BY <2>1 DEF Made
    <2>4. /\ rows \in bundle[r] .. pack /\ by \in 0 .. bundle[r]
          /\ bundle[r] \notin late => by = bundle[r]
      BY <2>1, <2>2, <2>3 DEF Versions
    <2>5. rows \in bundle[r] .. MaxVersion /\ (pack = bundle[r] => rows = bundle[r])
      BY <2>2, <2>4 DEF Versions
    <2> QED BY <2>3, <2>4, <2>5
  <1>2. ResultsInv => ImportedAsNamed BY <1>1 DEF ImportedAsNamed
  <1> QED BY <1>2, QueryInvariant, PTL

----------------------------------------------------------------------------
(***************************************************************************)
(* A run that no other one overlaps fails on an entry whose check raises,  *)
(* and nowhere else: the directory of an entry is there while something is *)
(* in it, so the run finds what it is about to remove, and nothing where   *)
(* it moves its own result; what it has settled stays whole for its        *)
(* importer.                                                               *)
(***************************************************************************)
Empty(e) == e.digests = {} /\ \A f \in Parts : e.files[f] = Gone
Whole(e) == \A f \in Parts : e.files[f] # Gone

DirInv == \A k \in ResultKeys : ~cache[k].dir => Empty(cache[k])

InOrder(r) ==
    /\ \A s \in Workers \ {r} : ~Active(s)
    /\ at[r] = "remove" => cache[CacheKey(r)].dir
    /\ at[r] = "replace" => ~cache[CacheKey(r)].dir
    /\ at[r] = "publish" => query[r] \in queries \ pending[r]
    /\ \A q \in queries : Settled(r, q) => Whole(cache[<<q, bundle[r]>>])

Unblocked(r) == alone[r] /\ Active(r) => InOrder(r)

\* A step with which a run alone does not fail, or fails on such an entry.
Passes(r) ==
    alone[r] /\ Active(r) /\ at'[r] = "failed" =>
        Raising \in cache[<<query'[r], bundle[r]>>].digests

AInv == alone \in [Workers -> BOOLEAN] /\ DirInv /\ \A r \in Workers : Unblocked(r)

LEMMA InitAInv == ASSUME QueryInit PROVE AInv
  <1> USE DEF QueryInit, QueryStart
  <1>1. DirInv BY AbsentTypes DEF DirInv, Empty, ResultKeys
  <1>2. \A r \in Workers : at[r] \in {"done", "off"} OBVIOUS
  <1>3. \A r \in Workers : Unblocked(r) BY <1>2 DEF Unblocked, Active, Ended
  <1> QED BY <1>1, <1>3 DEF AInv

\* While a run that is alone is at work no other one takes a step.
LEMMA OthersUnblocked ==
    ASSUME ResultsInv, AInv, NEW r \in Workers, Active(r),
           \A s \in Workers \ {r} : at'[s] = at[s], UNCHANGED alone,
           DirInv', Unblocked(r)', Passes(r)
    PROVE  AInv' /\ \A s \in Workers : Passes(s)
  <1>1. \A s \in Workers \ {r} : alone[s] => ~Active(s)
    BY DEF AInv, Unblocked, InOrder
  <1>2. \A s \in Workers \ {r} : Unblocked(s)'
    BY <1>1 DEF AInv, Unblocked, Active
  <1>3. \A s \in Workers \ {r} : Passes(s) BY DEF Passes, Active, Ended
  <1> QED BY <1>2, <1>3 DEF AInv

\* A step that writes an entry of its run at most, and settles no query.
LEMMA AloneStep ==
    ASSUME ResultsInv, AInv, NEW r \in Workers, Active(r), NEW new \in ResultEntries,
           ~new.dir => Empty(new),
           cache' = [cache EXCEPT ![CacheKey(r)] = new],
           NEW where \in QuerySteps, at' = [at EXCEPT ![r] = where],
           UNCHANGED <<queries, bundle, pending, query, alone>>,
           alone[r] => where # "failed",
           where = "remove" => new.dir, where = "replace" => ~new.dir,
           where = "publish" => query[r] \in queries \ pending[r],
           where \notin Ended /\ at[r] \in Working => where \in Working \/ Whole(new),
           where \notin Ended /\ at[r] \notin Working =>
               where \notin Working /\ \A f \in Parts : new.files[f] = cache[CacheKey(r)].files[f]
    PROVE  AInv' /\ \A s \in Workers : Passes(s)
  <1>1. CacheKey(r) \in ResultKeys /\ query[r] \in Queries /\ bundle[r] \in Versions
    BY ResultKeyTypes DEF ResultsInv, ResultTypeInv
  <1>2. /\ cache'[CacheKey(r)] = new
        /\ \A k \in ResultKeys \ {CacheKey(r)} : cache'[k] = cache[k]
        /\ at'[r] = where /\ \A s \in Workers \ {r} : at'[s] = at[s]
    BY <1>1 DEF ResultsInv, ResultTypeInv
  <1>3. DirInv' BY <1>2 DEF AInv, DirInv, Empty, Gone
  <1>4. Unblocked(r)'
    <2> SUFFICES ASSUME alone[r], where \notin Ended PROVE InOrder(r)'
      BY <1>2 DEF Unblocked, Active, Ended
    <2>1. InOrder(r) BY DEF AInv, Unblocked
    <2>2. \A s \in Workers \ {r} : ~Active(s)' BY <1>2, <2>1 DEF InOrder, Active
    <2>3. CacheKey(r)' = CacheKey(r) BY DEF CacheKey
    <2>4. ASSUME NEW q \in queries, Settled(r, q)'
          PROVE  Whole(cache[<<q, bundle[r]>>])'
      <3>1. q \notin pending[r] /\ ~(q = query[r] /\ where \in Working)
        BY <1>2, <2>4 DEF Settled
      <3>2. CASE q = query[r]
        <4>1. <<q, bundle[r]>> = CacheKey(r) BY <3>2 DEF CacheKey
        <4>2. CASE at[r] \in Working BY <1>2, <3>1, <3>2, <4>1, <4>2 DEF Whole, Gone
        <4>3. CASE at[r] \notin Working
          <5>1. Whole(cache[CacheKey(r)])
            BY <2>1, <3>1, <4>1, <4>3 DEF InOrder, Settled
          <5> QED BY <1>2, <4>1, <4>3, <5>1 DEF Whole, Gone
        <4> QED BY <4>2, <4>3
      <3>3. CASE q # query[r]
        <4>1. Settled(r, q) BY <3>1, <3>3 DEF Settled
        <4>2. Whole(cache[<<q, bundle[r]>>]) BY <2>1, <4>1 DEF InOrder
        <4>3. <<q, bundle[r]>> \in ResultKeys /\ <<q, bundle[r]>> # CacheKey(r)
          BY <3>3 DEF ResultKeys, CacheKey, ResultsInv, ResultTypeInv
        <4> QED BY <1>2, <4>2, <4>3 DEF Whole, Gone
      <3> QED BY <3>2, <3>3
    <2> QED BY <1>2, <2>2, <2>3, <2>4 DEF InOrder
  <1>5. Passes(r) BY <1>2 DEF Passes
  <1> QED BY <1>2, <1>3, <1>4, <1>5, OthersUnblocked

\* ... and one that writes nothing.
LEMMA QuietAlone ==
    ASSUME ResultsInv, AInv, NEW r \in Workers, Active(r), UNCHANGED cache,
           NEW where \in QuerySteps, at' = [at EXCEPT ![r] = where],
           UNCHANGED <<queries, bundle, pending, query, alone>>,
           alone[r] => where # "failed",
           where = "remove" => cache[CacheKey(r)].dir, where = "replace" => ~cache[CacheKey(r)].dir,
           where = "publish" => query[r] \in queries \ pending[r],
           where \notin Ended => (at[r] \in Working <=> where \in Working)
    PROVE  AInv' /\ \A s \in Workers : Passes(s)
  <1> DEFINE held == cache[CacheKey(r)]
  <1>1. CacheKey(r) \in ResultKeys /\ held \in ResultEntries BY ResultKeyTypes, HeldTypes DEF ResultsInv, ResultTypeInv
  <1>2. ~held.dir => Empty(held) BY <1>1 DEF AInv, DirInv
  <1>3. cache' = [cache EXCEPT ![CacheKey(r)] = held] BY <1>1 DEF ResultsInv, ResultTypeInv
  <1> HIDE DEF held
  <1> QED BY <1>1, <1>2, <1>3, AloneStep DEF held

LEMMA BeginAlone ==
    ASSUME ResultsInv, AInv, NEW r \in Workers, Begin(r)
    PROVE  AInv' /\ \A s \in Workers : Passes(s)
  <1>1. /\ at[r] \in Ended /\ at' = [at EXCEPT ![r] = "start"]
        /\ pending' = [pending EXCEPT ![r] = queries] /\ UNCHANGED <<queries, cache, bundle, query>>
        /\ alone' = [s \in Workers |->
                        IF s = r THEN \A o \in Workers \ {r} : ~Active(o)
                        ELSE alone[s] /\ ~Active(s)]
    BY DEF Begin, RunAt
  <1>2. /\ at'[r] = "start" /\ \A s \in Workers \ {r} : at'[s] = at[s]
        /\ pending'[r] = queries
    BY <1>1 DEF ResultsInv, ResultTypeInv
  <1>3. alone' \in [Workers -> BOOLEAN] BY <1>1 DEF AInv
  <1>4. DirInv' BY <1>1 DEF AInv, DirInv, Empty, Gone
  <1>5. Unblocked(r)'
    <2>1. alone'[r] => \A s \in Workers \ {r} : ~Active(s)' BY <1>1, <1>2 DEF Active
    <2>2. \A q \in queries : ~Settled(r, q)' BY <1>2 DEF Settled
    <2> QED BY <1>1, <1>2, <2>1, <2>2 DEF Unblocked, InOrder
  <1>6. \A s \in Workers \ {r} : Unblocked(s)'
    BY <1>1, <1>2 DEF Unblocked, Active
  <1>7. \A s \in Workers : Passes(s) BY <1>1, <1>2 DEF Passes, Active, Ended
  <1> QED BY <1>3, <1>4, <1>5, <1>6, <1>7 DEF AInv

LEMMA FingerprintAlone ==
    ASSUME ResultsInv, AInv, NEW r \in Workers, Fingerprint(r)
    PROVE  AInv' /\ \A s \in Workers : Passes(s)
  <1>1. /\ at[r] = "start" /\ at' = [at EXCEPT ![r] = "look"]
        /\ UNCHANGED <<queries, cache, pending, query, alone>>
    BY DEF Fingerprint, RunAt
  <1>2. /\ at'[r] = "look" /\ \A s \in Workers \ {r} : at'[s] = at[s]
        /\ pending[r] = queries /\ Active(r)
    BY <1>1 DEF ResultsInv, ResultTypeInv, MadeInv, Active, Ended
  <1>3. DirInv' BY <1>1 DEF AInv, DirInv, Empty, Gone
  <1>4. Unblocked(r)'
    <2>1. alone[r] => \A s \in Workers \ {r} : ~Active(s)'
      BY <1>2 DEF AInv, Unblocked, InOrder, Active
    <2>2. \A q \in queries : ~Settled(r, q)' BY <1>1, <1>2 DEF Settled
    <2> QED BY <1>1, <1>2, <2>1, <2>2 DEF Unblocked, InOrder
  <1>5. Passes(r) BY <1>2 DEF Passes
  <1>6. \A s \in Workers \ {r} : Unblocked(s)'
    <2> SUFFICES ASSUME NEW s \in Workers \ {r} PROVE Unblocked(s)' OBVIOUS
    <2>1. ~(alone[s] /\ Active(s)) BY <1>2 DEF AInv, Unblocked, InOrder
    <2> QED BY <1>1, <1>2, <2>1 DEF Unblocked, Active
  <1>7. \A s \in Workers \ {r} : Passes(s) BY <1>2 DEF Passes, Active, Ended
  <1> QED BY <1>1, <1>3, <1>4, <1>5, <1>6, <1>7 DEF AInv

\* A hit is settled at once, and whole; a miss is still to be made.
LEMMA LookAlone == ASSUME ResultsInv, AInv, NEW r \in Workers, Look(r) PROVE AInv' /\ \A s \in Workers : Passes(s)
  <1>1. /\ at[r] = "look" /\ UNCHANGED <<queries, cache, bundle, alone>> /\ Active(r)
    BY DEF Look, versionVars, Active, Ended
  <1>2. PICK q \in pending[r] :
          /\ query' = [query EXCEPT ![r] = q]
          /\ pending' = [pending EXCEPT ![r] = @ \ {q}]
          /\ at' = [at EXCEPT ![r] = IF Raising \in cache[<<q, bundle[r]>>].digests THEN "failed"
                                     ELSE IF Hit(cache[<<q, bundle[r]>>]) THEN "publish"
                                     ELSE "execute"]
    BY DEF Look, RunAt, versionVars
  <1>3. /\ query'[r] = q /\ pending'[r] = pending[r] \ {q}
        /\ at'[r] = IF Raising \in cache[<<q, bundle[r]>>].digests THEN "failed"
                    ELSE IF Hit(cache[<<q, bundle[r]>>]) THEN "publish" ELSE "execute"
        /\ \A s \in Workers \ {r} : at'[s] = at[s]
    BY <1>2 DEF ResultsInv, ResultTypeInv
  <1>4. DirInv' BY <1>1 DEF AInv, DirInv, Empty, Gone
  <1>5. Unblocked(r)'
    <2> SUFFICES ASSUME alone[r], at'[r] # "failed" PROVE InOrder(r)'
      BY <1>1, <1>3 DEF Unblocked, Active, Ended
    <2>1. InOrder(r) BY <1>1 DEF AInv, Unblocked
    <2>2. \A s \in Workers \ {r} : ~Active(s)' BY <1>3, <2>1 DEF InOrder, Active
    <2>3. ASSUME NEW p \in queries, Settled(r, p)'
          PROVE  Whole(cache[<<p, bundle[r]>>])'
      <3>1. CASE p = q
        <4>1. Hit(cache[<<q, bundle[r]>>])
          BY <1>3, <2>3, <3>1 DEF Settled, Working
        <4> QED BY <1>1, <3>1, <4>1 DEF Hit, Whole, Gone
      <3>2. CASE p # q
        <4>1. Settled(r, p) BY <1>1, <1>3, <2>3, <3>2 DEF Settled, Working
        <4> QED BY <1>1, <2>1, <4>1 DEF InOrder, Whole, Gone
      <3> QED BY <3>1, <3>2
    <2>4. query'[r] \in queries \ pending'[r] BY <1>3 DEF ResultsInv, QueryInv
    <2> QED BY <1>1, <1>3, <2>2, <2>3, <2>4 DEF InOrder
  <1>6. Passes(r) BY <1>3 DEF Passes
  <1> QED BY <1>1, <1>3, <1>4, <1>5, <1>6, OthersUnblocked

LEMMA ExecuteAlone == ASSUME ResultsInv, AInv, NEW r \in Workers, Execute(r) PROVE AInv' /\ \A s \in Workers : Passes(s)
  <1>1. /\ at[r] = "execute" /\ UNCHANGED <<queries, cache, bundle, pending, query, alone>>
        /\ at' = [at EXCEPT ![r] = IF cache[CacheKey(r)].dir THEN "remove" ELSE "replace"]
    BY DEF Execute, RunAt, versionVars
  <1>2. Active(r) BY <1>1 DEF Active, Ended
  <1>3. CASE cache[CacheKey(r)].dir
    BY <1>1, <1>2, <1>3, QuietAlone DEF QuerySteps, Working
  <1>4. CASE ~cache[CacheKey(r)].dir
    BY <1>1, <1>2, <1>4, QuietAlone DEF QuerySteps, Working
  <1> QED BY <1>3, <1>4

LEMMA RemoveAlone == ASSUME ResultsInv, AInv, NEW r \in Workers, RemoveResult(r) PROVE AInv' /\ \A s \in Workers : Passes(s)
  <1> DEFINE held == cache[CacheKey(r)]
             Drop(new) == cache' = [cache EXCEPT ![CacheKey(r)] = new]
  <1>1. at[r] = "remove" /\ UNCHANGED <<queries, bundle, pending, query, alone>>
    BY DEF RemoveResult, versionVars
  <1>2. held \in ResultEntries /\ CacheKey(r) \in ResultKeys BY HeldTypes, ResultKeyTypes DEF ResultsInv
  <1>3. at = [at EXCEPT ![r] = "remove"] BY <1>1 DEF ResultsInv, ResultTypeInv
  <1>4. Active(r) BY <1>1 DEF Active, Ended
  <1>5. /\ alone[r] => held.dir
        /\ ~held.dir => Empty(held)
    BY <1>1, <1>2, <1>4 DEF AInv, Unblocked, InOrder, DirInv
  <1>6. CASE held.digests # {} /\ Drop([held EXCEPT !.digests = {}]) /\ UNCHANGED at
    <2> DEFINE new == [held EXCEPT !.digests = {}]
    <2>1. new \in ResultEntries /\ new.dir = held.dir BY <1>2 DEF ResultEntries
    <2>2. held.dir BY <1>5, <1>6 DEF Empty
    <2> HIDE DEF new, held
    <2> QED BY <1>1, <1>3, <1>4, <1>6, <2>1, <2>2, AloneStep DEF new, QuerySteps, Working
  <1>7. ASSUME NEW g \in Parts, held.files[g] # Gone, Drop([held EXCEPT !.files[g] = Gone]),
               UNCHANGED at
        PROVE  AInv' /\ \A s \in Workers : Passes(s)
    <2> DEFINE files == [held.files EXCEPT ![g] = Gone]
               new == [held EXCEPT !.files = files]
    <2>1. files \in [Parts -> QueryFiles] BY <1>2, Numbers DEF ResultEntries
    <2>2. Drop(new) BY <1>7
    <2> HIDE DEF files
    <2>3. new \in ResultEntries /\ new.dir = held.dir BY <1>2, <2>1 DEF ResultEntries
    <2>4. held.dir BY <1>5, <1>7 DEF Empty
    <2> HIDE DEF new, held
    <2> QED BY <1>1, <1>3, <1>4, <1>7, <2>2, <2>3, <2>4, AloneStep DEF QuerySteps, Working
  <1>8. CASE Drop(Absent) /\ RunAt(r, "replace")
    <2>1. Absent \in ResultEntries /\ ~Absent.dir /\ Empty(Absent)
      BY AbsentTypes DEF Empty, Absent
    <2> HIDE DEF held
    <2> QED BY <1>1, <1>4, <1>8, <2>1, AloneStep DEF RunAt, QuerySteps, Working
  <1>9. CASE ~held.dir /\ RunAt(r, "failed") /\ UNCHANGED cache
    <2>1. ~alone[r] BY <1>5, <1>9
    <2> HIDE DEF held
    <2> QED BY <1>1, <1>4, <1>9, <2>1, QuietAlone DEF RunAt, QuerySteps, Ended
  <1> QED BY <1>6, <1>7, <1>8, <1>9 DEF RemoveResult, versionVars

LEMMA ReplaceAlone == ASSUME ResultsInv, AInv, NEW r \in Workers, Replace(r) PROVE AInv' /\ \A s \in Workers : Passes(s)
  <1> DEFINE held == cache[CacheKey(r)]
             new == [files |-> [f \in Parts |-> made[r]], digests |-> {}, dir |-> TRUE]
  <1>1. at[r] = "replace" /\ UNCHANGED <<queries, bundle, pending, query, alone>>
    BY DEF Replace, versionVars
  <1>2. Active(r) BY <1>1 DEF Active, Ended
  <1>3. CacheKey(r) \in ResultKeys BY ResultKeyTypes DEF ResultsInv
  <1>4. CASE cache' = [cache EXCEPT ![CacheKey(r)] = new] /\ RunAt(r, "describe")
    <2>1. made[r] \in Made BY DEF ResultsInv, ResultTypeInv
    <2>2. new \in ResultEntries /\ new.dir /\ Whole(new)
      BY <2>1, Numbers DEF ResultEntries, Whole
    <2> HIDE DEF new, held
    <2> QED BY <1>1, <1>2, <1>4, <2>2, AloneStep DEF RunAt, QuerySteps, Working
  <1>5. CASE cache' = cache /\ RunAt(r, "failed") /\ ~Empty(held)
    <2>1. ~alone[r]
      BY <1>1, <1>2, <1>3, <1>5 DEF AInv, Unblocked, InOrder, DirInv
    <2> HIDE DEF new, held
    <2> QED BY <1>1, <1>2, <1>5, <2>1, QuietAlone DEF RunAt, QuerySteps, Ended
  <1> QED BY <1>4, <1>5 DEF Replace, versionVars, Empty

LEMMA DescribeAlone == ASSUME ResultsInv, AInv, NEW r \in Workers, DescribeResult(r) PROVE AInv' /\ \A s \in Workers : Passes(s)
  <1> DEFINE held == cache[CacheKey(r)]
             new == [held EXCEPT !.digests = {held.files}]
  <1>1. at[r] = "describe" /\ UNCHANGED <<queries, bundle, pending, query, alone>>
    BY DEF DescribeResult, versionVars
  <1>2. Active(r) BY <1>1 DEF Active, Ended
  <1>3. held \in ResultEntries /\ CacheKey(r) \in ResultKeys BY HeldTypes, ResultKeyTypes DEF ResultsInv
  <1>4. \E f \in Parts : f = "normalized" BY DEF Parts
  <1>5. CASE Whole(held) /\ cache' = [cache EXCEPT ![CacheKey(r)].digests = {held.files}]
             /\ RunAt(r, "publish")
    <2>1. cache' = [cache EXCEPT ![CacheKey(r)] = new] BY <1>5
    <2>2. held.dir BY <1>3, <1>4, <1>5 DEF AInv, DirInv, Empty, Whole
    <2>3. new \in ResultEntries /\ new.dir = held.dir /\ new.files = held.files
      <3>1. held.files \in [Parts -> QueryFiles] BY <1>3 DEF ResultEntries
      <3>2. {held.files} \in SUBSET ResultManifests BY <3>1, ManifestTypes
      <3> QED BY <1>3, <3>2 DEF ResultEntries
    <2>4. query[r] \in queries \ pending[r] BY <1>1 DEF ResultsInv, QueryInv
    <2> HIDE DEF new, held
    <2> QED BY <1>1, <1>2, <1>5, <2>1, <2>2, <2>3, <2>4, AloneStep
            DEF RunAt, QuerySteps, Working, held
  <1>6. CASE ~Whole(held) /\ cache' = cache /\ RunAt(r, "failed")
    <2>1. query[r] \in queries /\ Settled(r, query[r])
      BY <1>1 DEF ResultsInv, QueryInv, Settled, Working
    <2>2. ~alone[r]
      BY <1>2, <1>6, <2>1 DEF AInv, Unblocked, InOrder, CacheKey
    <2> HIDE DEF new, held
    <2> QED BY <1>1, <1>2, <1>6, <2>2, QuietAlone DEF RunAt, QuerySteps, Ended
  <1> QED BY <1>5, <1>6 DEF DescribeResult, versionVars, Whole

LEMMA PublishAlone == ASSUME ResultsInv, AInv, NEW r \in Workers, Publish(r) PROVE AInv' /\ \A s \in Workers : Passes(s)
  <1>1. at[r] = "publish" /\ UNCHANGED <<queries, cache, bundle, pending, query, alone>>
    BY DEF Publish, versionVars
  <1>2. Active(r) BY <1>1 DEF Active, Ended
  <1>3. alone[r] => cache[CacheKey(r)].files["normalized"] # Gone
    <2> SUFFICES ASSUME alone[r] PROVE cache[CacheKey(r)].files["normalized"] # Gone
      OBVIOUS
    <2>1. InOrder(r) BY <1>2 DEF AInv, Unblocked
    <2>2. query[r] \in queries /\ Settled(r, query[r])
      BY <1>1, <2>1 DEF InOrder, Settled, Working
    <2> QED BY <2>1, <2>2 DEF InOrder, Whole, CacheKey, Parts
  <1>4. PICK where \in {"failed", "import", "look"} :
          at' = [at EXCEPT ![r] = where] /\ (alone[r] => where # "failed")
    BY <1>3 DEF Publish, RunAt, versionVars
  <1> QED BY <1>1, <1>2, <1>4, QuietAlone DEF QuerySteps, Ended, Working

LEMMA ImportAlone == ASSUME ResultsInv, AInv, NEW r \in Workers, Import(r) PROVE AInv' /\ \A s \in Workers : Passes(s)
  <1>1. at[r] = "import" /\ UNCHANGED <<queries, cache, bundle, pending, query, alone>>
    BY DEF Import, versionVars
  <1>2. Active(r) BY <1>1 DEF Active, Ended
  <1>3. ASSUME alone[r], NEW q \in queries
        PROVE  cache[<<q, bundle[r]>>].files["normalized"] # Gone
    <2>1. Settled(r, q) BY <1>1 DEF ResultsInv, ImportInv, Settled, Working
    <2> QED BY <1>2, <1>3, <2>1 DEF AInv, Unblocked, InOrder, Whole, Parts
  <1>4. PICK where \in {"failed", "done", "import"} :
          at' = [at EXCEPT ![r] = where] /\ (alone[r] => where # "failed")
    BY <1>3 DEF Import, RunAt, versionVars
  <1> QED BY <1>1, <1>2, <1>4, QuietAlone DEF QuerySteps, Ended, Working

\* The steps of the environment: between two runs a file may be lost, but
\* no directory is; whoever is killed has not failed.
LEMMA StopAlone ==
    ASSUME ResultsInv, AInv, NEW r \in Workers, StopRun(r)
    PROVE  AInv' /\ \A s \in Workers : Passes(s)
  <1>1. /\ at' = [at EXCEPT ![r] = "killed"] /\ Active(r)
        /\ UNCHANGED <<cache, alone>>
    BY DEF StopRun, RunAt, versionVars
  <1>2. at'[r] = "killed" /\ \A s \in Workers \ {r} : at'[s] = at[s]
    BY <1>1 DEF ResultsInv, ResultTypeInv
  <1>3. DirInv' BY <1>1 DEF AInv, DirInv, Empty, Gone
  <1>4. Unblocked(r)' /\ Passes(r) BY <1>2 DEF Unblocked, Passes, Active, Ended
  <1> QED BY <1>1, <1>2, <1>3, <1>4, OthersUnblocked

LEMMA DamageAlone ==
    ASSUME ResultsInv, AInv, DamageResult
    PROVE  AInv' /\ \A s \in Workers : Passes(s)
  <1>1. (\A r \in Workers : ~Active(r)) /\ UNCHANGED <<at, alone>>
    BY DEF DamageResult, versionVars
  <1>2. PICK k \in ResultKeys :
          \/ \E f \in Parts, found \in {Gone, Damaged} :
                cache[k].files[f] # Gone /\ cache' = [cache EXCEPT ![k].files[f] = found]
          \/ \E found \in {{}, {Unfit}, {Raising}} :
                cache[k].digests # {} /\ cache' = [cache EXCEPT ![k].digests = found]
    BY DEF DamageResult, ResultsInv, ResultTypeInv
  <1>3. cache[k] \in ResultEntries BY DEF ResultsInv, ResultTypeInv
  <1>4. cache[k].dir BY <1>2 DEF AInv, DirInv, Empty
  <1>5. /\ cache'[k].dir = cache[k].dir
        /\ \A j \in ResultKeys \ {k} : cache'[j] = cache[j]
    BY <1>2, <1>3 DEF ResultsInv, ResultTypeInv, ResultEntries
  <1>6. DirInv' BY <1>4, <1>5 DEF AInv, DirInv, Empty, Gone
  <1>7. \A r \in Workers : Unblocked(r)' /\ Passes(r)
    BY <1>1 DEF Unblocked, Passes, Active
  <1> QED BY <1>1, <1>6, <1>7 DEF AInv

LEMMA NextAlone ==
    ASSUME ResultsInv, AInv, [QueryNext]_queryVars
    PROVE  AInv' /\ \A s \in Workers : Passes(s)
  <1>1. ASSUME NEW r \in Workers, RunStep(r)
        PROVE  AInv' /\ \A s \in Workers : Passes(s)
    BY <1>1, BeginAlone, FingerprintAlone, LookAlone, ExecuteAlone, RemoveAlone, ReplaceAlone,
       DescribeAlone, PublishAlone, ImportAlone DEF RunStep
  <1>2. CASE EditPack \/ UNCHANGED queryVars
    <2>1. UNCHANGED <<queries, cache, bundle, pending, query, at, alone>>
      BY <1>2 DEF EditPack, queryVars
    <2>2. DirInv' BY <2>1 DEF AInv, DirInv, Empty, Gone
    <2>3. \A r \in Workers : InOrder(r)' <=> InOrder(r)
      BY <2>1 DEF InOrder, Active, CacheKey, Settled, Whole, Gone
    <2>4. \A r \in Workers : Passes(r) BY <2>1 DEF Passes, Active, Ended
    <2> QED BY <2>1, <2>2, <2>3, <2>4 DEF AInv, Unblocked, Active
  <1> QED BY <1>1, <1>2, StopAlone, DamageAlone DEF QueryNext

(***************************************************************************)
(* A run of queries that no other run overlaps never fails, whatever       *)
(* crashes, failing calls and damage left in the cache, but on an entry    *)
(* whose check raises an error that run_queries does not catch: any other  *)
(* entry that is not valid is removed and made again.                      *)
(***************************************************************************)
THEOREM AloneGetsThrough == QuerySpec => OnlyRaisingBlocks
  <1>1. QueryInit => AInv BY InitAInv
  <1>2. ResultsInv /\ AInv /\ [QueryNext]_queryVars => AInv' BY NextAlone
  <1>3. ResultsInv /\ AInv /\ [QueryNext]_queryVars =>
          [\A r \in Workers : alone[r] /\ Active(r) /\ at'[r] = "failed" =>
              Raising \in cache[<<query'[r], bundle[r]>>].digests]_queryVars
    BY NextAlone DEF Passes
  <1> QED BY <1>1, <1>2, <1>3, QueryInvariant, PTL DEF QuerySpec, OnlyRaisingBlocks
============================================================================
