----------------------------- MODULE VendorCache -----------------------------
(***************************************************************************)
(* The cache of decompiled vendor artifacts: prepare_artifacts and main in *)
(* workspace/vendor_artifacts.py, followed by import_vendor_artifacts in   *)
(* workspace/multi_vendor.py.  Both run inside one rebuild, which holds    *)
(* the rebuild lock, so one process works on the cache at a time; it may   *)
(* be killed at any step.                                                  *)
(*                                                                         *)
(* The bytes of an artifact and the version of JADX are small numbers; two *)
(* artifacts with the same number have the same bytes and share an entry.  *)
(* A tree of sources names the bytes, the tool and how well it went.       *)
(***************************************************************************)
EXTENDS Naturals, FiniteSets

CONSTANTS
    Artifacts,      \* the APK and JAR files of the input directory
    MaxBytes,       \* bound on the versions of an artifact
    MaxTool,        \* bound on the versions of JADX
    MaxStops        \* bound on kills and damaged entries

ASSUME MaxBytesAssumption == MaxBytes \in Nat
ASSUME MaxToolAssumption == MaxTool \in Nat

VARIABLES
    bytes,      \* the bytes of each artifact
    tool,       \* the version of JADX
    entries,    \* cache_dir/<key>, for each key
    phase,      \* where the rebuild is
    left,       \* artifacts to prepare, and then to import
    current,    \* the artifact being prepared
    output,     \* .tmp-<key>-<pid>/output
    records,    \* the records of the preparation report
    imports,    \* the sources imported for each artifact
    stops       \* kills and damaged entries so far

vendorVars == <<bytes, tool, entries, phase, left, current, output, records, imports, stops>>

Bytes == 0 .. MaxBytes
Tools == 0 .. MaxTool
Qualities == {"prepared", "degraded", "failed"}

\* A tree of sources; "partly" is one that lost files, or was changed.
Tree(b, t, quality) == [bytes |-> b, tool |-> t, quality |-> quality, state |-> "whole"]
NoSources == [bytes |-> 0, tool |-> 0, quality |-> "failed", state |-> "none"]

NoEntry == [sources |-> NoSources, manifest |-> "none", digest |-> NoSources]
NoRecord == [status |-> "none", key |-> <<0, 0>>]

Key(a) == <<bytes[a], tool>>

\* A mutant: the files are taken for those the manifest describes.
ReusableUnchecked(held) ==
    held.manifest \in {"prepared", "degraded"} /\ held.sources.state # "none"

\* _cached_record: a manifest that can be read, a status worth reusing and a
\* tree with the digest the manifest has.
Reusable(held) ==
    /\ held.manifest \in {"prepared", "degraded"}
    /\ held.sources.state # "none"
    /\ held.sources = held.digest

----------------------------------------------------------------------------

VendorStart ==
    /\ tool = 0
    /\ entries = [k \in Bytes \X Tools |-> NoEntry]
    /\ left = {}
    /\ current = CHOOSE a \in Artifacts : TRUE
    /\ output = NoSources
    /\ records = [a \in Artifacts |-> NoRecord]
    /\ imports = [a \in Artifacts |-> NoSources]
    /\ stops = 0

\* What the variables are while the module takes no part.
VendorOff == VendorStart /\ bytes = [a \in Artifacts |-> 0] /\ phase = "off"
VendorInit == VendorStart /\ bytes \in [Artifacts -> Bytes] /\ phase = "idle"

\* rebuild_all.sh starts the preparation, and later the import, in the
\* rebuild directory: neither report nor staged database outlives a rebuild.
BeginRebuild ==
    /\ phase = "idle"
    /\ left' = Artifacts
    /\ records' = [a \in Artifacts |-> NoRecord]
    /\ imports' = [a \in Artifacts |-> NoSources]
    /\ phase' = "prepare"
    /\ UNCHANGED <<bytes, tool, entries, current, output, stops>>

Record(a, status) == records' = [records EXCEPT ![a] = [status |-> status, key |-> Key(a)]]

\* The artifact is hashed and its entry is reused when it is whole.
TakeArtifact ==
    /\ phase = "prepare"
    /\ \E a \in left :
          /\ left' = left \ {a}
          /\ current' = a
          /\ IF Reusable(entries[Key(a)])
             THEN Record(a, entries[Key(a)].manifest) /\ UNCHANGED phase
             ELSE phase' = "decompile" /\ UNCHANGED records
    /\ UNCHANGED <<bytes, tool, entries, output, imports, stops>>

\* JADX: sources and status 0, sources and another status, or none at all.
Decompile ==
    /\ phase = "decompile"
    /\ \E quality \in Qualities :
          IF quality = "failed"
          THEN /\ Record(current, "failed")
               /\ phase' = "prepare"
               /\ UNCHANGED output
          ELSE /\ output' = Tree(bytes[current], tool, quality)
               /\ phase' = "remove"
               /\ UNCHANGED records
    /\ UNCHANGED <<bytes, tool, entries, left, current, imports, stops>>

SetEntry(new) == entries' = [entries EXCEPT ![Key(current)] = new]

\* shutil.rmtree(entry): some of it first, in any order, and then the rest.
RemoveEntry ==
    LET held == entries[Key(current)] IN
    /\ phase = "remove"
    /\ \/ /\ held.manifest # "none"
          /\ SetEntry([held EXCEPT !.manifest = "none"])
          /\ UNCHANGED phase
       \/ /\ held.sources.state = "whole"
          /\ SetEntry([held EXCEPT !.sources.state = "partly"])
          /\ UNCHANGED phase
       \/ SetEntry(NoEntry) /\ phase' = "replace"
    /\ UNCHANGED <<bytes, tool, left, current, output, records, imports, stops>>

\* os.replace(output, entry), and then the manifest, which is written in
\* place: a reader may find a part of it.
ReplaceEntry ==
    /\ phase = "replace"
    /\ SetEntry([NoEntry EXCEPT !.sources = output])
    /\ phase' = "manifest"
    /\ UNCHANGED <<bytes, tool, left, current, output, records, imports, stops>>

WriteManifest ==
    LET held == entries[Key(current)] IN
    /\ phase = "manifest"
    /\ \/ /\ held.manifest = "none"
          /\ SetEntry([held EXCEPT !.manifest = "torn"])
          /\ UNCHANGED <<phase, records, output>>
       \/ /\ held.manifest = "torn"
          /\ SetEntry([held EXCEPT !.manifest = output.quality, !.digest = output])
          /\ Record(current, output.quality)
          /\ output' = NoSources
          /\ phase' = "prepare"
    /\ UNCHANGED <<bytes, tool, left, current, imports, stops>>

\* main: one failed artifact fails the preparation, and with it the rebuild.
EndPreparation ==
    /\ phase = "prepare" /\ left = {}
    /\ IF \E a \in Artifacts : records[a].status = "failed"
       THEN phase' = "idle" /\ UNCHANGED left
       ELSE phase' = "import" /\ left' = Artifacts
    /\ UNCHANGED <<bytes, tool, entries, current, output, records, imports, stops>>

\* import_vendor_artifacts reads the sources the record names, as they are.
ImportArtifact ==
    /\ phase = "import"
    /\ \E a \in left :
          LET sources == entries[records[a].key].sources IN
          IF sources.state = "none"
          THEN phase' = "idle" /\ UNCHANGED <<left, imports>>
          ELSE /\ imports' = [imports EXCEPT ![a] = sources]
               /\ left' = left \ {a}
               /\ UNCHANGED phase
    /\ UNCHANGED <<bytes, tool, entries, current, output, records, stops>>

EndImport ==
    /\ phase = "import" /\ left = {}
    /\ phase' = "idle"
    /\ UNCHANGED <<bytes, tool, entries, left, current, output, records, imports, stops>>

----------------------------------------------------------------------------

\* Between two rebuilds another artifact is put in place, or JADX is updated.
ArtifactReplaced ==
    /\ phase = "idle"
    /\ \E a \in Artifacts : \E b \in Bytes \ {bytes[a]} :
          bytes' = [bytes EXCEPT ![a] = b]
    /\ UNCHANGED <<tool, entries, phase, left, current, output, records, imports, stops>>

ToolUpdated ==
    /\ phase = "idle" /\ tool < MaxTool
    /\ tool' = tool + 1
    /\ UNCHANGED <<bytes, entries, phase, left, current, output, records, imports, stops>>

Stop == stops < MaxStops /\ stops' = stops + 1

\* The rebuild is killed; .tmp-<key>-<pid> is left behind, and removed first
\* by a process that gets the same pid.
Kill ==
    /\ phase \notin {"off", "idle"}
    /\ Stop
    /\ phase' = "idle"
    /\ output' = NoSources
    /\ UNCHANGED <<bytes, tool, entries, left, current, records, imports>>

\* Between two rebuilds files of an entry are lost or changed.
Damage ==
    /\ phase = "idle"
    /\ Stop
    /\ \E k \in DOMAIN entries :
          /\ entries[k].sources.state = "whole"
          /\ entries' = [entries EXCEPT ![k].sources.state = "partly"]
    /\ UNCHANGED <<bytes, tool, phase, left, current, output, records, imports>>

VendorNext ==
    \/ BeginRebuild \/ TakeArtifact \/ Decompile \/ RemoveEntry \/ ReplaceEntry
    \/ WriteManifest \/ EndPreparation \/ ImportArtifact \/ EndImport
    \/ ArtifactReplaced \/ ToolUpdated \/ Kill \/ Damage

VendorSpec == VendorInit /\ [][VendorNext]_vendorVars

----------------------------------------------------------------------------

(***************************************************************************)
(* What is imported for an artifact is a whole decompilation of the bytes  *)
(* its record names, by the JADX it names and as good as it says: nothing  *)
(* a killed rebuild or a damaged entry left is imported (the digests of    *)
(* _cached_record, against the order of the writes in prepare_artifacts).  *)
(***************************************************************************)
SourcesAsRecorded ==
    \A a \in Artifacts :
        imports[a] # NoSources =>
            LET named == records[a].key IN
            imports[a] = Tree(named[1], named[2], records[a].status)
=============================================================================
