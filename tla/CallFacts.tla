----------------------------- MODULE CallFacts -----------------------------
(* The calls and flows CodeQL finds, brought into the staged graph:          *)
(* collectors/codeql/decode.py groups the rows of the queries into records,  *)
(* identity.py finds the method of the graph that each definition is,        *)
(* materializer.py writes calls, then flows, in one transaction each, for    *)
(* workspace/codeql_import.py, and call_dataflow_validation.py accepts or    *)
(* rejects what is then in the tables.                                       *)
(*                                                                           *)
(* An import may be killed, and may be repeated on the same database after   *)
(* more methods have been added to it: the statements of the materializer    *)
(* are written for both.  The repetitions are those of one extraction run.   *)
EXTENDS Integers, Sequences, FiniteSets, SequencesExt

CONSTANTS
  Sources,     \* sources as CodeQL and ctags see them: see World below
  MaxImports,  \* bound on the imports into one database
  MaxKills     \* bound on the imports that are killed

(* A world: [methods, later, definitions, rows, paths, guards, identities].  *)
(* A method, early or later: [id, lang, owner, name, params, path, first,    *)
(* last], the last two zero where ctags gives no lines.  A parameter is a    *)
(* package and a simple type, a definition has the fields of a method and a  *)
(* key instead of the id.  A row of CallSites is one target of one call.     *)

VARIABLES
  sources,
  methods,    \* the method nodes of the graph
  db,         \* the tables, as committed
  tx,         \* the tables, as the transaction under way sees them
  queue,      \* the records it has still to write
  projected,  \* the calls it will project to CALLS
  callStep,   \* what the import does next
  attempts, kills,
  verdict     \* of the validator: "none" before it has run

callVars ==
  <<sources, methods, db, tx, queue, projected, callStep, attempts, kills, verdict>>

NoMethod == <<"none">>
Empty == [run |-> "none", defs |-> {}, sites |-> {}, targets |-> {}, edges |-> {},
          calls |-> {}, values |-> {}, paths |-> {}, traces |-> {}]

-----------------------------------------------------------------------------
(* decode.py: the rows of a call differ in their target only; a record with  *)
(* another number of targets than the query counted is an error.             *)
SitesOf(w) ==
  {[caller |-> r.caller, relation |-> r.relation, count |-> r.count,
    text |-> r.text, path |-> r.path, line |-> r.line,
    column |-> r.column, end |-> r.end,
    callees |-> {s.callee : s \in {x \in w.rows :
                   [x EXCEPT !.callee = ""] = [r EXCEPT !.callee = ""]}} \ {""}] :
     r \in w.rows}
Sites == SitesOf(sources)
WellFormed(c) == c.count = Cardinality(c.callees)

(* A result set is finite, only an unresolved call has no candidate, one that *)
(* is certain has one (relationKind), and the digest of a path names it.     *)
Decoded(w) ==
  /\ IsFiniteSet(w.rows) /\ IsFiniteSet(w.guards) /\ IsFiniteSet(w.identities)
  /\ \A c \in SitesOf(w) : /\ c.count \in Nat
                           /\ (c.relation = "unresolved") = (c.count = 0)
                           /\ c.relation = "must" => c.count = 1
  /\ \A p \in w.paths : p.locations \in Seq(ToSet(p.locations))
  /\ \A p, q \in w.paths : p.name = q.name => p = q

ASSUME SourcesAssumption == \A w \in Sources : Decoded(w)

(* Of the locations of a path the first is known to be in the entry method,  *)
(* the last in the owner of the sink, and the others carry no key.           *)
Steps(p) ==
  [i \in DOMAIN p.locations |->
     [key |-> CASE i = 1 -> p.entry [] i = Len(p.locations) -> p.sink [] OTHER -> "",
      path |-> p.locations[i].path, line |-> p.locations[i].line]]

-----------------------------------------------------------------------------
(* identity.py: owner, name and parameters, then path, then lines.           *)
Compatible(actual, expected) ==
  /\ Len(actual) = Len(expected)
  /\ \A i \in DOMAIN actual : actual[i][2] = expected[i][2]

(* path_matches and line_matches: the better ones, if there are any *)
Narrow(S, better) == IF better = {} THEN S ELSE better

Reconcile(d) ==
  LET candidates == {m \in methods : /\ m.lang = d.lang /\ m.owner = d.owner
                                     /\ m.name = d.name
                                     /\ Compatible(m.params, d.params)}
      inPath == Narrow(candidates, {m \in candidates : m.path = d.path})
      inLines == Narrow(inPath, {m \in inPath : m.first # 0 /\ d.first \in m.first..m.last})
      ids == {m.id : m \in inLines}
  IN IF d.synthetic THEN [status |-> "synthetic", ids |-> {}]
     ELSE [status |-> IF ids = {} THEN "unmatched"
                      ELSE IF Cardinality(ids) = 1 THEN "unique" ELSE "ambiguous",
           ids |-> ids]

(* _resolve_symbol: all the definitions of a key must agree *)
ResolveSymbol(key) ==
  LET results == {Reconcile(d) : d \in {x \in sources.definitions : x.key = key}}
      ids == UNION {r.ids : r \in results}
  IN IF \E r \in results : r.status = "synthetic"
       THEN [status |-> "synthetic", ids |-> {}]
     ELSE IF Cardinality(ids) = 1 /\ \A r \in results : r.status = "unique"
       THEN [status |-> "unique", ids |-> ids]
     ELSE [status |-> IF ids = {} THEN "unmatched" ELSE "ambiguous", ids |-> ids]

TheMethod(result) == CHOOSE m \in result.ids : TRUE

-----------------------------------------------------------------------------
(* The tables of a transaction t.                                            *)
Upsert(rows, row) == {r \in rows : r.id # row.id} \cup {row}
GraphEdge(type, from, to) == [type |-> type, from |-> from, to |-> to]
EdgesFrom(t, from, types) == {e \in t.edges : e.from = from /\ e.type \in types}

DefinitionRow(d) ==
  LET result == Reconcile(d)
  IN [id |-> <<d.key, d.path, d.first>>, key |-> d.key, path |-> d.path,
      first |-> d.first, last |-> d.last, status |-> result.status,
      logical |-> IF result.status = "unique" THEN TheMethod(result) ELSE NoMethod]

(* Mutant of BeginTables: the projection of the run before is left. *)
BeginTablesKeeps(t) ==
  [t EXCEPT !.defs = {DefinitionRow(d) : d \in sources.definitions}]
(* The CALLS edges of the run go, the definitions are written again. *)
BeginTables(t) ==
  [t EXCEPT !.calls = {}, !.defs = {DefinitionRow(d) : d \in sources.definitions}]

(* _call_site_id: where the call starts, not where it ends *)
CallSiteId(c) == <<"site", c.path, c.line, c.column, c.caller, c.text>>

(* Mutant of SiteStatus: one target that is found is enough. *)
SiteStatusAny(c) ==
  IF \E k \in c.callees : ResolveSymbol(k).status = "unique"
    THEN "resolved" ELSE "unresolved"
SiteStatus(c) ==
  LET results == {ResolveSymbol(k).status : k \in c.callees}
  IN IF c.relation = "unresolved" THEN "unresolved"
     ELSE IF "ambiguous" \in results THEN "ambiguous"
     ELSE IF results \subseteq {"unique"} THEN "resolved" ELSE "unresolved"

Accepted(c) ==
  IF SiteStatus(c) = "resolved" THEN UNION {ResolveSymbol(k).ids : k \in c.callees}
                                ELSE {}

WriteSite(t, c, caller) ==
  LET id == CallSiteId(c)
      call == IF c.relation = "must" THEN "MUST_CALL" ELSE "MAY_CALL"
  IN [t EXCEPT
       !.sites = Upsert(@, [id |-> id, caller |-> caller, path |-> c.path,
                            line |-> c.line, count |-> c.count,
                            status |-> SiteStatus(c)]),
       !.targets = {x \in @ : x.site # id} \cup
         {[site |-> id, callee |-> m, relation |-> c.relation] : m \in Accepted(c)},
       !.edges = (@ \ EdgesFrom(t, id, {"IN_METHOD", "MUST_CALL", "MAY_CALL"})) \cup
         {GraphEdge("IN_METHOD", id, caller)} \cup
         {GraphEdge(call, id, m) : m \in Accepted(c)}]

(* _logical_method_id and _call_site_at: one, or none *)
LogicalMethod(t, key) ==
  LET ids == {d.logical : d \in {x \in t.defs : x.key = key /\ x.status = "unique"}}
  IN IF Cardinality(ids) = 1 THEN CHOOSE m \in ids : TRUE ELSE NoMethod
CallSiteAt(t, caller, path, line) ==
  LET ids == {s.id : s \in {x \in t.sites :
                x.caller = caller /\ x.path = path /\ x.line = line}}
  IN IF Cardinality(ids) = 1 THEN CHOOSE s \in ids : TRUE ELSE NoMethod

(* _program_value_owner_id: by key, or the innermost definition around it *)
OwnerOf(t, value) ==
  LET around == {d \in t.defs : /\ d.status = "unique" /\ d.path = value.path
                                /\ value.line \in d.first..d.last}
      inner == {d \in around : \A e \in around : d.last - d.first <= e.last - e.first}
      ids == {d.logical : d \in inner}
  IN IF value.key # "" THEN LogicalMethod(t, value.key)
     ELSE IF Cardinality(ids) = 1 THEN CHOOSE m \in ids : TRUE ELSE NoMethod

(* The values of a path are written up to the first one without an owner. *)
Owned(t, p) == {i \in DOMAIN Steps(p) :
                  \A j \in 1..i : OwnerOf(t, Steps(p)[j]) # NoMethod}
Values(t, p) ==
  [i \in Owned(t, p) |-> <<"value", OwnerOf(t, Steps(p)[i]), Steps(p)[i].path,
                           Steps(p)[i].line>>]
WriteValues(t, p) ==
  [t EXCEPT
    !.values = @ \cup {Values(t, p)[i] : i \in Owned(t, p)},
    !.edges = @ \cup
      {GraphEdge("VALUE_IN_METHOD", Values(t, p)[i], OwnerOf(t, Steps(p)[i])) :
         i \in Owned(t, p)}]

PathId(p) == <<"path", p.name>>
(* A path that is already there keeps its source and sink columns. *)
WritePath(t, p) ==
  LET values == Values(t, p)
      source == values[1]
      sink == values[Len(Steps(p))]
      old == {r \in t.paths : r.id = PathId(p)}
      row == [id |-> PathId(p), count |-> Len(Steps(p)), steps |-> values,
              source |-> source, sink |-> sink]
  IN [t EXCEPT
       !.paths = Upsert(@, IF old = {} THEN row
                           ELSE [(CHOOSE r \in old : TRUE) EXCEPT !.steps = values]),
       !.edges = @ \cup {GraphEdge("FLOW_SOURCE", PathId(p), source),
                         GraphEdge("FLOW_SINK", PathId(p), sink)}]

(* The guards and transitions of a sink: same method, path and sink line, at *)
(* a line with one call site.                                                *)
Attached(t, records, p, caller) ==
  {r \in records :
     /\ LogicalMethod(t, r.owner) = caller
     /\ r.path = Last(Steps(p)).path /\ r.sink = Last(Steps(p)).line
     /\ CallSiteAt(t, caller, r.path, r.line) # NoMethod}

TraceStatus(guards, transitions) ==
  IF \E i \in transitions : ~i.paired THEN "identity_unpaired"
  ELSE IF guards # {} THEN "guarded"
  ELSE IF transitions # {} THEN "identity_paired" ELSE "unguarded"

(* The kind of a step and what it is a step of; the rows are numbered as they *)
(* are written.                                                              *)
TraceSteps(site, p, guards, transitions, restored) ==
  {<<"call_site", site>>, <<"dataflow_path", PathId(p)>>} \cup
  {<<"guard", g>> : g \in guards} \cup
  {<<"identity_clear", i>> : i \in transitions} \cup
  {<<"identity_restore", i>> : i \in restored}

WriteTrace(t, p, entry, caller, site) ==
  LET guards == Attached(t, sources.guards, p, caller)
      transitions == Attached(t, sources.identities, p, caller)
      at(r) == CallSiteAt(t, caller, r.path, r.line)
      restore(i) == CallSiteAt(t, caller, i.path, i.restore)
      restored == {i \in transitions : i.paired /\ restore(i) # NoMethod}
      id == <<"trace", PathId(p), entry, site>>
      row == [id |-> id, guards |-> Cardinality(guards),
              transitions |-> Cardinality(transitions),
              status |-> TraceStatus(guards, transitions),
              steps |-> TraceSteps(site, p, guards, transitions, restored)]
  IN [t EXCEPT
       !.traces = Upsert(@, row),
       !.edges =
         (@ \ EdgesFrom(t, site, {"GUARDED_BY", "IDENTITY_CLEARED_BY",
                                  "IDENTITY_RESTORED_BY"})) \cup
         {GraphEdge("TRACE_ENTRY", id, entry), GraphEdge("TRACE_SINK", id, site)} \cup
         {GraphEdge("GUARDED_BY", site, at(g)) : g \in guards} \cup
         {GraphEdge("IDENTITY_CLEARED_BY", site, at(i)) : i \in transitions} \cup
         {GraphEdge("IDENTITY_RESTORED_BY", site, restore(i)) : i \in restored}]

(* _materialize_path and the loop of materialize_security_facts *)
WriteFlow(t, p) ==
  LET entry == LogicalMethod(t, p.entry)
      caller == LogicalMethod(t, Last(Steps(p)).key)
      written == WriteValues(t, p)
      site == CallSiteAt(t, caller, Last(Steps(p)).path, Last(Steps(p)).line)
  IN IF entry = NoMethod THEN t
     ELSE IF Cardinality(Owned(t, p)) < Len(Steps(p)) THEN written
     ELSE IF site = NoMethod THEN WritePath(written, p)
     ELSE WriteTrace(WritePath(written, p), p, entry, caller, site)

-----------------------------------------------------------------------------
(* call_dataflow_validation.py                                               *)
UniqueMethods == {d.logical : d \in {x \in db.defs : x.status = "unique"}}
TargetsOf(s) == {x \in db.targets : x.site = s.id}

EndpointsUnique ==
  \A s \in db.sites : s.status = "resolved" =>
    \A x \in TargetsOf(s) : {s.caller, x.callee} \subseteq UniqueMethods

Classified ==
  \A s \in db.sites :
    LET found == TargetsOf(s)
    IN CASE s.status = "resolved" ->
              /\ s.count > 0 /\ Cardinality(found) = s.count
              /\ (\E x \in found : x.relation = "must") => s.count = 1
         [] s.status = "ambiguous" -> s.count > 0 /\ found = {}
         [] OTHER -> found = {}

PathsWhole ==
  \A r \in db.paths :
    r.steps # <<>> /\ Len(r.steps) = r.count /\ r.steps[1] = r.source
                   /\ Last(r.steps) = r.sink

Kinds(r, kinds) == Cardinality({s \in r.steps : s[1] \in kinds})
TracesConsistent ==
  \A r \in db.traces :
    /\ Kinds(r, {"guard"}) = r.guards
    /\ Kinds(r, {"identity_clear", "identity_restore"}) = r.transitions
    /\ \/ r.status = "identity_unpaired"
       \/ Kinds(r, {"identity_clear"}) = Kinds(r, {"identity_restore"})

-----------------------------------------------------------------------------
CallsInit ==
  /\ sources \in Sources /\ methods = sources.methods
  /\ db = Empty /\ tx = Empty /\ queue = {} /\ projected = {}
  /\ callStep = "idle" /\ attempts = 0 /\ kills = 0 /\ verdict = "none"

\* What the variables are while the module takes no part.
CallsOff ==
  /\ sources = "off" /\ methods = {}
  /\ db = Empty /\ tx = Empty /\ queue = {} /\ projected = {}
  /\ callStep = "off" /\ attempts = 0 /\ kills = 0 /\ verdict = "none"

(* The rows and paths are decoded; one that is not well formed fails them all. *)
Load ==
  /\ callStep = "idle" /\ attempts < MaxImports
  /\ attempts' = attempts + 1 /\ verdict' = "none"
  /\ callStep' = IF /\ \A c \in Sites : WellFormed(c)
                    /\ \A p \in sources.paths : Len(p.locations) >= 2
                  THEN "run" ELSE "failed"
  /\ UNCHANGED <<sources, methods, db, tx, queue, projected, kills>>

(* _insert_run commits, then the transaction of the calls begins *)
InsertRun ==
  /\ callStep = "run"
  /\ db' = [db EXCEPT !.run = "running"]
  /\ tx' = BeginTables(db') /\ queue' = Sites /\ projected' = {}
  /\ callStep' = "calls"
  /\ UNCHANGED <<sources, methods, attempts, kills, verdict>>

(* A call whose caller is not one method is skipped, in whatever state an    *)
(* earlier import has left it.                                               *)
MaterializeCall(c) ==
  LET caller == ResolveSymbol(c.caller) IN
  /\ callStep = "calls"
  /\ queue' = queue \ {c}
  /\ IF caller.status = "unique"
       THEN /\ tx' = WriteSite(tx, c, TheMethod(caller))
            /\ projected' = projected \cup
                 {[caller |-> TheMethod(caller), callee |-> m, relation |-> c.relation] :
                    m \in Accepted(c)}
       ELSE UNCHANGED <<tx, projected>>
  /\ UNCHANGED <<sources, methods, db, callStep, attempts, kills, verdict>>

(* CALLS is projected, the calls are committed, and the flows are begun.     *)
CommitCalls ==
  /\ callStep = "calls" /\ queue = {}
  /\ db' = [tx EXCEPT !.calls = @ \cup projected] /\ tx' = db'
  /\ queue' = sources.paths /\ callStep' = "flows" /\ projected' = {}
  /\ UNCHANGED <<sources, methods, attempts, kills, verdict>>

MaterializeFlow(p) ==
  /\ callStep = "flows"
  /\ tx' = WriteFlow(tx, p) /\ queue' = queue \ {p}
  /\ UNCHANGED <<sources, methods, db, projected, callStep, attempts, kills, verdict>>

CommitFlows ==
  /\ callStep = "flows" /\ queue = {}
  /\ db' = tx /\ callStep' = "closing"
  /\ UNCHANGED <<sources, methods, tx, queue, projected, attempts, kills, verdict>>

Complete ==
  /\ callStep = "closing"
  /\ db' = [db EXCEPT !.run = "complete"] /\ tx' = Empty /\ callStep' = "validate"
  /\ UNCHANGED <<sources, methods, queue, projected, attempts, kills, verdict>>

ValidateCalls ==
  /\ callStep = "validate"
  /\ verdict' = IF EndpointsUnique /\ Classified /\ PathsWhole /\ TracesConsistent
                  THEN "pass" ELSE "fail"
  /\ callStep' = "idle"
  /\ UNCHANGED <<sources, methods, db, tx, queue, projected, attempts, kills>>

(* More symbols are imported into the same database.                         *)
MethodsAppear ==
  /\ callStep = "idle" /\ attempts > 0 /\ methods # methods \cup sources.later
  /\ methods' = methods \cup sources.later
  /\ UNCHANGED <<sources, db, tx, queue, projected, callStep, attempts, kills, verdict>>

(* The process is killed: what it has not committed is rolled back.          *)
KillImport ==
  /\ callStep \in {"run", "calls", "flows", "closing"} /\ kills < MaxKills
  /\ kills' = kills + 1 /\ callStep' = "idle"
  /\ tx' = Empty /\ queue' = {} /\ projected' = {}
  /\ UNCHANGED <<sources, methods, db, attempts, verdict>>

CallsNext ==
  \/ Load \/ InsertRun
  \/ \E c \in queue : MaterializeCall(c)
  \/ CommitCalls
  \/ \E p \in queue : MaterializeFlow(p)
  \/ CommitFlows \/ Complete \/ ValidateCalls \/ MethodsAppear \/ KillImport

CallsSpec == CallsInit /\ [][CallsNext]_callVars

-----------------------------------------------------------------------------
(* No method is the one that two definitions look for, in one file or in two. *)
Matches(m, d) ==
  /\ m.lang = d.lang /\ m.owner = d.owner /\ m.name = d.name
  /\ Compatible(m.params, d.params)
EveryMethod(w) == w.methods \cup w.later
DefinedOnce(w) ==
  \A m \in EveryMethod(w) : \A d, e \in {x \in w.definitions : ~x.synthetic} :
    Matches(m, d) /\ Matches(m, e) => d = e

(* By the definitions in the tables a key is one method. *)
CallerKnown(key) ==
  LET rows == {d \in db.defs : d.key = key}
  IN \E m \in {d.logical : d \in rows} :
       \A d \in rows : d.status = "unique" /\ d.logical = m
KnownSites ==
  {s \in db.sites : \E c \in Sites : s.id = CallSiteId(c) /\ CallerKnown(c.caller)}
CallsOf(sites) ==
  UNION {{[caller |-> s.caller, callee |-> x.callee, relation |-> x.relation] :
            x \in TargetsOf(s)} : s \in sites}

(* In a graph the validator has let through, the CALLS edges say what the    *)
(* accepted targets of the call sites say, no more and no less, whatever     *)
(* imports were killed or repeated before (materialize_call_graph): of all   *)
(* sites, unless methods have appeared and one is what two definitions look  *)
(* for.  Then a site whose caller is no longer one method stays as an earlier *)
(* import has left it, with targets and without CALLS, for the call is       *)
(* skipped (materializer.py:292) and the validator finds the caller by the   *)
(* other definition; all other sites have exactly their CALLS.               *)
CallsSupported ==
  verdict = "pass" =>
    /\ db.calls = CallsOf(KnownSites)
    /\ DefinedOnce(sources) \/ methods = sources.methods => db.calls = CallsOf(db.sites)

(* As long as the methods stay the same the validator rejects what the        *)
(* materializer has written, however often it was killed on the way, in two  *)
(* cases only.  Two callees that the graph has one method for are two         *)
(* candidates and one target.  And a transition that is paired is rejected    *)
(* with its restoration, for it is one transition to                         *)
(* materialize_security_facts and two to _validate_security_traces, and      *)
(* without it, for a clear is then left over, unless another transition of    *)
(* the trace is known to be unpaired.                                        *)
CalleesMerged ==
  \E c \in Sites :
    /\ ResolveSymbol(c.caller).status = "unique" /\ SiteStatus(c) = "resolved"
    /\ \E k, l \in c.callees : k # l /\ ResolveSymbol(k).ids = ResolveSymbol(l).ids
TransitionsPaired ==
  \/ \E e \in db.edges : e.type = "IDENTITY_RESTORED_BY"
  \/ \E r \in db.traces : r.transitions > 0 /\ r.status # "identity_unpaired"
WrittenAsValidated ==
  verdict # "none" /\ methods = sources.methods =>
    (verdict = "fail" <=> CalleesMerged \/ TransitionsPaired)
=============================================================================
