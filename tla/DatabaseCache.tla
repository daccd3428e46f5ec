---------------------------- MODULE DatabaseCache ----------------------------
(***************************************************************************)
(* The cache of CodeQL databases: prepare_database in                      *)
(* workspace/codeql_database.py, called by scripts/prepare_codeql.py,      *)
(* which takes no lock.  Several preparations of the same request may run  *)
(* at once; a preparation may fail, be killed, or find an entry that has   *)
(* been changed behind its back.                                           *)
(*                                                                         *)
(* A file of a database is a pair: its name and what it was extracted for. *)
(* The files under cache/, log/, results/ ... that queries write are not   *)
(* covered by _database_content_fingerprint.  A manifest holds the covered *)
(* files it was computed from and the key of the request it was made for.  *)
(***************************************************************************)
EXTENDS Naturals, FiniteSets

CONSTANTS
    Preparers,      \* processes that run prepare_database
    Keys,           \* cache keys of requests; a process has one of them
    MaxDbFaults       \* bound on failing calls, kills and changed entries

VARIABLES
    entry,      \* databases/<key>, for each key
    partial,    \* .<key>.partial-<pid>-<uuid>, for each process
    wants,      \* the key of the request of each process
    step,       \* where each process is
    returned,   \* what each process handed out: the database and its manifest
    dbFaults    \* faults so far

dbVars == <<entry, partial, wants, step, returned, dbFaults>>

Covered == {"marker", "relations"}
Runtime == {"query cache"}

\* A cache directory: its files and its manifest, if it has one.
NoTree == [files |-> {}, manifest |-> {}]

\* What database create leaves, and a covered file that was overwritten.
Files(key) == {<<f, key>> : f \in Covered}
Changed(files) == {<<pair[1], "changed">> : pair \in files}

\* The covered part of a database: everything but the runtime directories.
Content(files) == {pair \in files : pair[1] \in Covered}

\* The manifest of a database just created for a key.
Manifest(key, files) == [key |-> key, content |-> Content(files)]

\* preparation_fingerprint: requests that differ have different keys.
KeyOf(p) == wants[p]

\* Mutant: the content of the database is not hashed again.
UncheckedContent(tree) == tree.manifest # {}

\* validate_manifest_self_consistency: every covered byte is the manifest's.
SelfConsistent(tree) ==
    /\ \E pair \in tree.files : pair[1] = "marker"
    /\ \E manifest \in tree.manifest : manifest.content = Content(tree.files)

\* validate_database_manifest: and it was made for this request.
Valid(tree, key) ==
    /\ \E manifest \in tree.manifest : manifest.key = key
    /\ SelfConsistent(tree)

----------------------------------------------------------------------------

\* What the variables are while the module takes no part.
DatabaseOff ==
    /\ entry = [k \in Keys |-> NoTree]
    /\ partial = [p \in Preparers |-> NoTree]
    /\ wants = [p \in Preparers |-> CHOOSE k \in Keys : TRUE]
    /\ step = [p \in Preparers |-> "off"]
    /\ returned = [p \in Preparers |-> NoTree]
    /\ dbFaults = 0

DatabaseInit ==
    /\ entry = [k \in Keys |-> NoTree]
    /\ partial = [p \in Preparers |-> NoTree]
    /\ wants \in [Preparers -> Keys]
    /\ step = [p \in Preparers |-> "look"]
    /\ returned = [p \in Preparers |-> NoTree]
    /\ dbFaults = 0

Goto(p, where) == step' = [step EXCEPT ![p] = where]

Cached(key) == entry[key] # NoTree

\* An entry that exists is handed out when it is valid ...
Reuse(p) ==
    LET key == KeyOf(p) IN
    /\ step[p] = "look"
    /\ Cached(key) /\ Valid(entry[key], key)
    /\ returned' = [returned EXCEPT ![p] = entry[key]]
    /\ Goto(p, "returned")
    /\ UNCHANGED <<entry, partial, wants, dbFaults>>

\* ... and otherwise the preparation fails: it is not built again.
Reject(p) ==
    LET key == KeyOf(p) IN
    /\ step[p] = "look"
    /\ Cached(key) /\ ~Valid(entry[key], key)
    /\ Goto(p, "failed")
    /\ UNCHANGED <<entry, partial, wants, returned, dbFaults>>

\* database create, into a directory of the process's own.
Create(p) ==
    LET key == KeyOf(p) IN
    /\ step[p] = "look"
    /\ ~Cached(key)
    /\ partial' = [partial EXCEPT ![p] = [files |-> Files(key), manifest |-> {}]]
    /\ Goto(p, "describe")
    /\ UNCHANGED <<entry, wants, returned, dbFaults>>

\* The manifest is written into that directory and validated there.
Describe(p) ==
    LET key == KeyOf(p) IN
    /\ step[p] = "describe"
    /\ LET made == [partial[p] EXCEPT !.manifest = {Manifest(key, partial[p].files)}] IN
       /\ Valid(made, key)
       /\ partial' = [partial EXCEPT ![p] = made]
    /\ Goto(p, "promote")
    /\ UNCHANGED <<entry, wants, returned, dbFaults>>

\* Mutant: an entry another process made meanwhile is replaced.
PromoteAnyway(p) ==
    LET key == KeyOf(p) IN
    /\ step[p] = "promote"
    /\ entry' = [entry EXCEPT ![key] = partial[p]]
    /\ partial' = [partial EXCEPT ![p] = NoTree]
    /\ returned' = [returned EXCEPT ![p] = partial[p]]
    /\ Goto(p, "returned")
    /\ UNCHANGED <<wants, dbFaults>>

\* os.replace(partial, entry).
Promote(p) ==
    LET key == KeyOf(p) IN
    /\ step[p] = "promote"
    /\ ~Cached(key)
    /\ entry' = [entry EXCEPT ![key] = partial[p]]
    /\ partial' = [partial EXCEPT ![p] = NoTree]
    /\ returned' = [returned EXCEPT ![p] = partial[p]]
    /\ Goto(p, "returned")
    /\ UNCHANGED <<wants, dbFaults>>

\* Another process was first.  rename(2) reports EEXIST or ENOTEMPTY; only
\* the first is a FileExistsError, after which the winner's entry is used.
PromoteLost(p) ==
    LET key == KeyOf(p) IN
    /\ step[p] = "promote"
    /\ Cached(key)
    /\ \/ /\ Valid(entry[key], key)
          /\ returned' = [returned EXCEPT ![p] = entry[key]]
          /\ Goto(p, "clean, returned")
       \/ /\ Goto(p, "clean")
          /\ UNCHANGED returned
    /\ UNCHANGED <<entry, partial, wants, dbFaults>>

\* finally, and except BaseException: the partial directory is removed.
Clean(p) ==
    /\ step[p] \in {"clean", "clean, returned"}
    /\ partial' = [partial EXCEPT ![p] = NoTree]
    /\ Goto(p, IF step[p] = "clean" THEN "failed" ELSE "returned")
    /\ UNCHANGED <<entry, wants, returned, dbFaults>>

\* The operator runs the preparation again; a request may differ from the
\* last one (another product, other sources).
Again(p) ==
    /\ step[p] \in {"returned", "failed", "killed"}
    /\ \E k \in Keys : wants' = [wants EXCEPT ![p] = k]
    /\ returned' = [returned EXCEPT ![p] = NoTree]
    /\ Goto(p, "look")
    /\ UNCHANGED <<entry, partial, dbFaults>>

\* A query leaves its cache in the database it runs on.
QueryWrites(key) ==
    /\ Cached(key)
    /\ \E p \in Preparers : step[p] = "returned" /\ wants[p] = key
    /\ entry' = [entry EXCEPT ![key].files = @ \cup {<<f, "runtime">> : f \in Runtime}]
    /\ UNCHANGED <<partial, wants, step, returned, dbFaults>>

Fault == dbFaults < MaxDbFaults /\ dbFaults' = dbFaults + 1

\* database create or info fails, or leaves no marker.
CreateFails(p) ==
    /\ step[p] = "describe"
    /\ Fault
    /\ Goto(p, "clean")
    /\ UNCHANGED <<entry, partial, wants, returned>>

\* The process dies: no except and no finally clause runs, and the partial
\* directory stays, under a name no other process uses.
Killed(p) ==
    /\ step[p] \in {"describe", "promote", "clean", "clean, returned"}
    /\ Fault
    /\ partial' = [partial EXCEPT ![p] = NoTree]
    /\ Goto(p, "killed")
    /\ UNCHANGED <<entry, wants, returned>>

\* A covered file of an entry is overwritten, or lost, by something else.
Tampered(key) ==
    /\ Cached(key)
    /\ Fault
    /\ \E pair \in Content(entry[key].files) :
          \E change \in {{}, Changed({pair})} :
             entry' = [entry EXCEPT ![key].files = (@ \ {pair}) \cup change]
    /\ UNCHANGED <<partial, wants, step, returned>>

Preparation(p) ==
    \/ Reuse(p) \/ Reject(p) \/ Create(p) \/ Describe(p)
    \/ Promote(p) \/ PromoteLost(p) \/ Clean(p)

DatabaseNext ==
    \/ \E p \in Preparers : Preparation(p) \/ Again(p) \/ CreateFails(p) \/ Killed(p)
    \/ \E k \in Keys : QueryWrites(k) \/ Tampered(k)

DatabaseSpec == DatabaseInit /\ [][DatabaseNext]_dbVars

----------------------------------------------------------------------------

(***************************************************************************)
(* A database is handed out only when it is the one extracted for the      *)
(* request: no covered file of it is missing or changed, whoever built it  *)
(* and whatever happened to the entry in between (prepare_database, both   *)
(* the reuse of an entry and the lost race).                               *)
(***************************************************************************)
HandedOutWhole ==
    \A p \in Preparers :
        step[p] = "returned" => Content(returned[p].files) = Files(wants[p])

(***************************************************************************)
(* No preparation changes an entry that exists: others may be querying it  *)
(* (codeql query run holds no lock either).  Only a fault does.            *)
(***************************************************************************)
EntryLeftAlone ==
    [][\A k \in Keys :
          Cached(k) /\ dbFaults' = dbFaults =>
              Content(entry'[k].files) = Content(entry[k].files)]_dbVars
=============================================================================
