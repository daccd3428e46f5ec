--------------------------- MODULE CallFactsProofs ---------------------------
(* That a call graph the validator has let through is the one its call sites  *)
(* support, for any sources, number of imports, kills and methods that appear *)
(* between them.  A site is written again only while its caller is one method *)
(* of the graph: the invariant says what is then in its rows, and that the    *)
(* rows another import has left behind are of a caller that the validator     *)
(* finds only where two definitions look for one method.  And, while no       *)
(* methods appear, what the validator rejects.                               *)
EXTENDS CallFacts, FiniteSetTheorems, TLAPS

(* The key of a node is its own, and so is the start of a call. *)
SeparateWorlds ==
  \A w \in Sources :
    /\ IsFiniteSet({m.id : m \in EveryMethod(w)})
    /\ \A m, n \in EveryMethod(w) : m.id = n.id => m = n
    /\ \A c, d \in SitesOf(w) : CallSiteId(c) = CallSiteId(d) => c = d

Resolved(key) == ResolveSymbol(key).status = "unique"

(* The caller of a row was found for its key, by this import or another. *)
Meant(key, id) ==
  /\ \E m \in methods : m.id = id /\ \A d \in sources.definitions :
                                       d.key = key => ~d.synthetic /\ Matches(m, d)
  /\ \E d \in sources.definitions : d.key = key
  /\ methods = sources.methods => Resolved(key)

SitesMeant(t) ==
  \A s \in t.sites : \E c \in Sites : s.id = CallSiteId(c) /\ Meant(c.caller, s.caller)

TargetOf(c, m) == [site |-> CallSiteId(c), callee |-> m, relation |-> c.relation]
SiteRow(c) ==
  [id |-> CallSiteId(c), caller |-> TheMethod(ResolveSymbol(c.caller)), path |-> c.path,
   line |-> c.line, count |-> c.count, status |-> SiteStatus(c)]
CallOf(c, m) ==
  [caller |-> TheMethod(ResolveSymbol(c.caller)), callee |-> m, relation |-> c.relation]

(* What WriteSite leaves of a call. *)
Written(t, c) ==
  /\ \E s \in t.sites : s.id = CallSiteId(c)
  /\ \A s \in t.sites : s.id = CallSiteId(c) => s = SiteRow(c)
  /\ \A m \in Accepted(c) : TargetOf(c, m) \in t.targets
  /\ \A x \in t.targets :
       x.site = CallSiteId(c) => \E m \in Accepted(c) : x = TargetOf(c, m)

CallsWritten(t, calls) == \A c \in calls : Resolved(c.caller) => Written(t, c)

(* The calls that are projected from some of the sites. *)
Projects(edges, calls) ==
  /\ \A c \in calls : Resolved(c.caller) => \A m \in Accepted(c) : CallOf(c, m) \in edges
  /\ \A e \in edges : \E c \in calls : Resolved(c.caller) /\ \E m \in Accepted(c) : e = CallOf(c, m)

DefinitionsOf(t) == t.defs = {DefinitionRow(d) : d \in sources.definitions}

(* A record with the fields of Empty *)
Fields == {"run", "defs", "sites", "targets", "edges", "calls", "values", "paths",
           "traces"}
Tables(t) == t = [f \in Fields |-> t[f]]

(* The two hold the same calls. *)
SameCalls(t, u) ==
  /\ t.defs = u.defs /\ t.sites = u.sites /\ t.targets = u.targets /\ t.calls = u.calls

WorldInv ==
  /\ sources \in Sources
  /\ sources.methods \subseteq methods /\ methods \subseteq EveryMethod(sources)
  /\ Tables(db) /\ Tables(tx)

CallsInv ==
  callStep = "calls" =>
    /\ queue \subseteq Sites
    /\ SitesMeant(tx) /\ DefinitionsOf(tx) /\ tx.calls = {}
    /\ CallsWritten(tx, Sites \ queue) /\ Projects(projected, Sites \ queue)

FlowsInv ==
  /\ callStep \in {"flows", "closing", "validate"} =>
       /\ DefinitionsOf(db) /\ CallsWritten(db, Sites) /\ Projects(db.calls, Sites)
  /\ callStep = "flows" => SameCalls(tx, db)

(* Only an import that is over has a verdict. *)
VerdictInv == callStep \notin {"idle", "failed"} => verdict = "none"

CInv == WorldInv /\ SitesMeant(db) /\ CallsInv /\ FlowsInv /\ VerdictInv /\ CallsSupported

-----------------------------------------------------------------------------
(* identity.py *)
LEMMA NarrowIn ==
  ASSUME NEW d
  PROVE  Reconcile(d).status = "unique" =>
           /\ ~d.synthetic
           /\ Cardinality(Reconcile(d).ids) = 1
           /\ \A i \in Reconcile(d).ids : \E m \in methods : m.id = i /\ Matches(m, d)
  <1> DEFINE candidates == {m \in methods : /\ m.lang = d.lang /\ m.owner = d.owner
                                     /\ m.name = d.name
                                     /\ Compatible(m.params, d.params)}
             inPath == Narrow(candidates, {m \in candidates : m.path = d.path})
             inLines == Narrow(inPath, {m \in inPath : m.first # 0 /\ d.first \in m.first..m.last})
             ids == {m.id : m \in inLines}
  <1>1. inPath \subseteq candidates BY DEF Narrow
  <1>2. inLines \subseteq inPath BY DEF Narrow
  <1>3. \A i \in ids : \E m \in methods : m.id = i /\ Matches(m, d)
    BY <1>1, <1>2 DEF Matches
  <1>4. Reconcile(d) = 
  IF d.synthetic THEN [status |-> "synthetic", ids |-> {}]
      ELSE [status |-> IF ids = {} THEN "unmatched"
                      ELSE IF Cardinality(ids) = 1 THEN "unique" ELSE "ambiguous",
           ids |-> ids]
    BY DEF Reconcile
  <1> HIDE DEF ids
  <1> QED BY <1>3, <1>4

LEMMA FoundOne ==
  ASSUME SeparateWorlds, WorldInv, NEW ids, ids \subseteq {m.id : m \in methods}
  PROVE  IsFiniteSet(ids) /\ (Cardinality(ids) = 1 <=> \E i : ids = {i})
  <1>1. IsFiniteSet({m.id : m \in EveryMethod(sources)}) BY DEF SeparateWorlds, WorldInv
  <1>2. ids \in SUBSET {m.id : m \in EveryMethod(sources)} BY DEF WorldInv
  <1>3. IsFiniteSet(ids)
    <2> DEFINE all == {m.id : m \in EveryMethod(sources)}
    <2>1. IsFiniteSet(all) /\ ids \in SUBSET all BY <1>1, <1>2
    <2> HIDE DEF all
    <2> QED BY <2>1, FS_Subset
  <1> QED BY <1>3, FS_Singleton

LEMMA UniqueMethod ==
  ASSUME SeparateWorlds, WorldInv, NEW d, Reconcile(d).status = "unique"
  PROVE  /\ ~d.synthetic
         /\ \E m \in methods : /\ Matches(m, d) /\ Reconcile(d).ids = {m.id}
                               /\ TheMethod(Reconcile(d)) = m.id
  <1>1. \A i \in Reconcile(d).ids : \E m \in methods : m.id = i /\ Matches(m, d)
    BY NarrowIn
  <1>2. Reconcile(d).ids \subseteq {m.id : m \in methods} BY <1>1
  <1>3. \E i : Reconcile(d).ids = {i} BY <1>2, FoundOne, NarrowIn
  <1> QED BY <1>1, <1>3, NarrowIn DEF TheMethod

(* _resolve_symbol: a key that is resolved has definitions, all of one method *)
LEMMA ResolvedKey ==
  ASSUME SeparateWorlds, WorldInv, NEW key, Resolved(key)
  PROVE  \E m \in methods :
           /\ ResolveSymbol(key).ids = {m.id}
           /\ TheMethod(ResolveSymbol(key)) = m.id
           /\ \A d \in sources.definitions :
                d.key = key => ~d.synthetic /\ Matches(m, d)
           /\ \E d \in sources.definitions : d.key = key
  <1> DEFINE results == {Reconcile(d) : d \in {x \in sources.definitions : x.key = key}}
             ids == UNION {r.ids : r \in results}
  <1>1. /\ \A r \in results : r.status = "unique"
        /\ Cardinality(ids) = 1 /\ ResolveSymbol(key).ids = ids
    BY DEF Resolved, ResolveSymbol
  <1>2. \A d \in sources.definitions : d.key = key => Reconcile(d).status = "unique"
    BY <1>1
  <1>3. \A d \in sources.definitions : d.key = key =>
          /\ ~d.synthetic
          /\ \E m \in methods : Matches(m, d) /\ Reconcile(d).ids = {m.id}
    BY <1>2, UniqueMethod
  <1>4. \A i : i \in ids <=> \E d \in sources.definitions : d.key = key /\ i \in Reconcile(d).ids
    OBVIOUS
  <1>5. ids \subseteq {m.id : m \in methods} BY <1>3, <1>4
  <1> HIDE DEF ids, results
  <1>6. PICK i : ids = {i} BY <1>1, <1>5, FoundOne
  <1>7. PICK d \in sources.definitions : d.key = key /\ i \in Reconcile(d).ids BY <1>4, <1>6
  <1>8. PICK m \in methods : m.id = i /\ Matches(m, d) BY <1>3, <1>7
  <1>9. \A e \in sources.definitions : e.key = key => Matches(m, e)
    <2> SUFFICES ASSUME NEW e \in sources.definitions, e.key = key PROVE Matches(m, e)
      OBVIOUS
    <2>1. PICK n \in methods : Matches(n, e) /\ Reconcile(e).ids = {n.id} BY <1>3
    <2>2. n.id = m.id BY <2>1, <1>4, <1>6, <1>8
    <2>3. n = m BY <2>2 DEF SeparateWorlds, WorldInv
    <2> QED BY <2>1, <2>3
  <1>10. TheMethod(ResolveSymbol(key)) = m.id BY <1>1, <1>6, <1>8 DEF TheMethod
  <1> QED BY <1>1, <1>3, <1>6, <1>7, <1>8, <1>9, <1>10

LEMMA ResolvedMeant ==
  ASSUME SeparateWorlds, WorldInv, NEW key, Resolved(key)
  PROVE  Meant(key, TheMethod(ResolveSymbol(key)))
  BY ResolvedKey DEF Meant

(* The validator finds the caller of a site only if its key is resolved now,  *)
(* or another definition is of the same method.                              *)
LEMMA CallerFound ==
  ASSUME SeparateWorlds, WorldInv, NEW key, NEW id, Meant(key, id),
         DefinedOnce(sources) \/ methods = sources.methods,
         NEW e \in sources.definitions, Reconcile(e).status = "unique",
         TheMethod(Reconcile(e)) = id
  PROVE  Resolved(key)
  <1>1. CASE methods = sources.methods BY <1>1 DEF Meant
  <1>2. CASE DefinedOnce(sources)
    <2>1. DefinedOnce(sources) BY <1>2
    <2>2. PICK m \in methods :
            m.id = id /\ \A d \in sources.definitions :
                           d.key = key => ~d.synthetic /\ Matches(m, d)
      BY DEF Meant
    <2>3. PICK n \in methods : /\ Matches(n, e) /\ Reconcile(e).ids = {n.id}
                               /\ TheMethod(Reconcile(e)) = n.id
      BY UniqueMethod
    <2>4. m = n BY <2>2, <2>3 DEF SeparateWorlds, WorldInv
    <2>5. m \in EveryMethod(sources) BY DEF WorldInv
    <2>6. \A d \in sources.definitions : d.key = key => d = e
      BY <2>1, <2>2, <2>3, <2>4, <2>5, UniqueMethod DEF DefinedOnce
    <2>7. PICK d \in sources.definitions : d.key = key BY DEF Meant
    <2>8. {x \in sources.definitions : x.key = key} = {e} BY <2>6, <2>7
    <2>9. {Reconcile(x) : x \in {y \in sources.definitions : y.key = key}} = {Reconcile(e)}
      BY <2>8
    <2>10. UNION {r.ids : r \in {Reconcile(e)}} = {n.id} BY <2>3
    <2>11. Cardinality({n.id}) = 1 BY FS_Singleton
    <2>12. ResolveSymbol(key) = [status |-> "unique", ids |-> {n.id}]
      BY <2>9, <2>10, <2>11 DEF ResolveSymbol
    <2> QED BY <2>12 DEF Resolved
  <1> QED BY <1>1, <1>2

-----------------------------------------------------------------------------
(* While nothing is added to the graph, a key is resolved to the same method. *)
LEMMA SameReconcile ==
  ASSUME UNCHANGED <<sources, methods>>, NEW d
  PROVE  Reconcile(d)' = Reconcile(d)
  BY DEF Reconcile, Narrow

LEMMA SameResolve ==
  ASSUME UNCHANGED <<sources, methods>>, NEW key
  PROVE  ResolveSymbol(key)' = ResolveSymbol(key)
  <1> DEFINE results == {Reconcile(d) : d \in {x \in sources.definitions : x.key = key}}
  <1>1. \A d : Reconcile(d)' = Reconcile(d) BY SameReconcile
  <1>2. results' = results BY <1>1
  <1> QED BY <1>2 DEF ResolveSymbol

LEMMA Same ==
  ASSUME UNCHANGED <<sources, methods>>
  PROVE  /\ Sites' = Sites
         /\ \A key : ResolveSymbol(key)' = ResolveSymbol(key)
         /\ \A key : Resolved(key)' = Resolved(key)
         /\ \A c : Accepted(c)' = Accepted(c)
         /\ \A d : DefinitionRow(d)' = DefinitionRow(d)
         /\ \A key, id : Meant(key, id)' = Meant(key, id)
         /\ \A c, m : CallOf(c, m)' = CallOf(c, m)
         /\ \A c : SiteRow(c)' = SiteRow(c)
  <1>1. Sites' = Sites BY DEF Sites
  <1>2. \A d : Reconcile(d)' = Reconcile(d) BY SameReconcile
  <1>3. \A key : ResolveSymbol(key)' = ResolveSymbol(key) BY SameResolve
  <1>4. \A key : Resolved(key)' = Resolved(key) BY <1>3 DEF Resolved
  <1>5. \A c : SiteStatus(c)' = SiteStatus(c) BY <1>3 DEF SiteStatus
  <1>6. \A c : Accepted(c)' = Accepted(c) BY <1>3, <1>5 DEF Accepted
  <1>7. \A d : DefinitionRow(d)' = DefinitionRow(d) BY <1>2 DEF DefinitionRow
  <1>8. \A key, id : Meant(key, id)' = Meant(key, id) BY <1>4 DEF Meant
  <1>9. \A c, m : CallOf(c, m)' = CallOf(c, m) BY <1>3 DEF CallOf
  <1>10. \A c : SiteRow(c)' = SiteRow(c) BY <1>3, <1>5 DEF SiteRow
  <1> QED BY <1>1, <1>3, <1>4, <1>6, <1>7, <1>8, <1>9, <1>10

(* So what is said of tables does not change but for the tables. *)
LEMMA SameOfTx ==
  ASSUME UNCHANGED <<sources, methods>>, NEW t, tx' = t
  PROVE  /\ SitesMeant(tx)' = SitesMeant(t)
         /\ DefinitionsOf(tx)' = DefinitionsOf(t)
         /\ \A S : CallsWritten(tx, S)' = CallsWritten(t, S)
  <1>1. SitesMeant(tx)' = SitesMeant(t) BY Same DEF SitesMeant
  <1>2. DefinitionsOf(tx)' = DefinitionsOf(t) BY Same DEF DefinitionsOf
  <1>3. \A c : Written(tx, c)' = Written(t, c) BY Same DEF Written
  <1>4. \A S : CallsWritten(tx, S)' = CallsWritten(t, S) BY <1>3, Same DEF CallsWritten
  <1> QED BY <1>1, <1>2, <1>4

LEMMA SameOfDb ==
  ASSUME UNCHANGED <<sources, methods>>, NEW t, db' = t
  PROVE  /\ SitesMeant(db)' = SitesMeant(t)
         /\ DefinitionsOf(db)' = DefinitionsOf(t)
         /\ \A S : CallsWritten(db, S)' = CallsWritten(t, S)
  <1>1. SitesMeant(db)' = SitesMeant(t) BY Same DEF SitesMeant
  <1>2. DefinitionsOf(db)' = DefinitionsOf(t) BY Same DEF DefinitionsOf
  <1>3. \A c : Written(db, c)' = Written(t, c) BY Same DEF Written
  <1>4. \A S : CallsWritten(db, S)' = CallsWritten(t, S) BY <1>3, Same DEF CallsWritten
  <1> QED BY <1>1, <1>2, <1>4

LEMMA SameProjects ==
  ASSUME UNCHANGED <<sources, methods>>
  PROVE  \A edges, S : Projects(edges, S)' = Projects(edges, S)
  BY Same DEF Projects

-----------------------------------------------------------------------------
(* What the statements of a flow leave alone. *)
LEMMA ValuesFrame ==
  ASSUME NEW t, NEW p, Tables(t)
  PROVE  Tables(WriteValues(t, p)) /\ SameCalls(WriteValues(t, p), t)
  BY DEF Tables, Fields, SameCalls, WriteValues

LEMMA PathFrame ==
  ASSUME NEW t, NEW p, Tables(t)
  PROVE  Tables(WritePath(t, p)) /\ SameCalls(WritePath(t, p), t)
  BY DEF Tables, Fields, SameCalls, WritePath

LEMMA TraceFrame ==
  ASSUME NEW t, NEW p, NEW entry, NEW caller, NEW site, Tables(t)
  PROVE  /\ Tables(WriteTrace(t, p, entry, caller, site))
         /\ SameCalls(WriteTrace(t, p, entry, caller, site), t)
  BY DEF Tables, Fields, SameCalls, WriteTrace

LEMMA FlowFrame ==
  ASSUME NEW t, NEW p, Tables(t)
  PROVE  Tables(WriteFlow(t, p)) /\ SameCalls(WriteFlow(t, p), t)
  BY ValuesFrame, PathFrame, TraceFrame DEF SameCalls, WriteFlow

LEMMA SiteFrame ==
  ASSUME NEW t, NEW c, NEW caller, Tables(t)
  PROVE  LET u == WriteSite(t, c, caller) IN
         /\ Tables(u) /\ u.defs = t.defs /\ u.calls = t.calls
         /\ caller = TheMethod(ResolveSymbol(c.caller)) =>
              u.sites = Upsert(t.sites, SiteRow(c))
         /\ u.targets = {x \in t.targets : x.site # CallSiteId(c)} \cup
                          {TargetOf(c, m) : m \in Accepted(c)}
  BY DEF Tables, Fields, WriteSite, TargetOf, SiteRow

LEMMA SiteRest ==
  ASSUME NEW t, NEW c, NEW caller, Tables(t)
  PROVE  /\ Tables(WriteSite(t, c, caller))
         /\ WriteSite(t, c, caller).defs = t.defs
         /\ WriteSite(t, c, caller).calls = t.calls
  BY DEF Tables, Fields, WriteSite

LEMMA SameCallsSame ==
  ASSUME NEW t, NEW u, SameCalls(u, t)
  PROVE  /\ SitesMeant(u) = SitesMeant(t)
         /\ DefinitionsOf(u) = DefinitionsOf(t)
         /\ \A S : CallsWritten(u, S) = CallsWritten(t, S)
  <1>1. \A c : Written(u, c) = Written(t, c) BY DEF SameCalls, Written
  <1> QED BY <1>1 DEF SameCalls, SitesMeant, DefinitionsOf, CallsWritten

-----------------------------------------------------------------------------
(* A call that is written is written, and no other one is touched: the start *)
(* of a call is its own.                                                     *)
LEMMA SiteWritten ==
  ASSUME SeparateWorlds, WorldInv, NEW t, Tables(t), SitesMeant(t),
         NEW done, done \subseteq Sites, CallsWritten(t, done),
         NEW c \in Sites, Resolved(c.caller)
  PROVE  LET u == WriteSite(t, c, TheMethod(ResolveSymbol(c.caller))) IN
         SitesMeant(u) /\ CallsWritten(u, done \cup {c})
  <1> DEFINE caller == TheMethod(ResolveSymbol(c.caller))
             u == WriteSite(t, c, caller)
             row == SiteRow(c)
  <1>1. /\ u.sites = {s \in t.sites : s.id # CallSiteId(c)} \cup {row}
        /\ u.targets = {x \in t.targets : x.site # CallSiteId(c)} \cup
                         {TargetOf(c, m) : m \in Accepted(c)}
    <2>1. row.id = CallSiteId(c) BY DEF SiteRow
    <2> QED BY <2>1, SiteFrame DEF Upsert
  <1>2. row.id = CallSiteId(c) /\ row.caller = caller BY DEF SiteRow
  <1>3. \A m : TargetOf(c, m).site = CallSiteId(c) BY DEF TargetOf
  <1>4. Meant(c.caller, caller) BY ResolvedMeant
  <1>5. \A d \in Sites : CallSiteId(d) = CallSiteId(c) => d = c
    BY DEF SeparateWorlds, WorldInv, Sites
  <1> HIDE DEF row, u, caller
  <1>6. SitesMeant(u) BY <1>1, <1>2, <1>4 DEF SitesMeant
  <1>7. Written(u, c)
    <2>1. row \in u.sites /\ row.id = CallSiteId(c) BY <1>1, <1>2
    <2>2. \A s \in u.sites : s.id = CallSiteId(c) => s = row BY <1>1, <1>2
    <2>3. \A m \in Accepted(c) : TargetOf(c, m) \in u.targets BY <1>1
    <2>4. \A x \in u.targets :
            x.site = CallSiteId(c) => \E m \in Accepted(c) : x = TargetOf(c, m)
      BY <1>1
    <2> QED BY <2>1, <2>2, <2>3, <2>4 DEF Written, row
  <1>8. ASSUME NEW d \in done, d # c, Written(t, d) PROVE Written(u, d)
    <2>1. CallSiteId(d) # CallSiteId(c) BY <1>5, <1>8
    <2>2. \A s : s.id = CallSiteId(d) => (s \in u.sites <=> s \in t.sites)
      BY <1>1, <1>2, <2>1
    <2>3. \A x : x.site = CallSiteId(d) => (x \in u.targets <=> x \in t.targets)
      BY <1>1, <1>3, <2>1
    <2>4. \A m : TargetOf(d, m).site = CallSiteId(d) BY DEF TargetOf
    <2> QED BY <1>8, <2>2, <2>3, <2>4 DEF Written
  <1>9. CallsWritten(u, done \cup {c}) BY <1>7, <1>8 DEF CallsWritten
  <1> QED BY <1>6, <1>9 DEF u, caller

-----------------------------------------------------------------------------
(* The tables say of a key that it is one method when it is resolved to one.  *)
LEMMA CallerKnownResolved ==
  ASSUME SeparateWorlds, WorldInv, DefinitionsOf(db), NEW key
  PROVE  CallerKnown(key) <=> Resolved(key)
  <1> DEFINE rows == {d \in db.defs : d.key = key}
             results == {Reconcile(d) : d \in {x \in sources.definitions : x.key = key}}
             ids == UNION {r.ids : r \in results}
  <1>1. \A d : /\ DefinitionRow(d).key = d.key
               /\ DefinitionRow(d).status = Reconcile(d).status
               /\ Reconcile(d).status = "unique" =>
                    DefinitionRow(d).logical = TheMethod(Reconcile(d))
    BY DEF DefinitionRow
  <1>2. \A d \in sources.definitions : d.key = key => DefinitionRow(d) \in rows
    BY <1>1 DEF DefinitionsOf
  <1>3. \A x \in rows : \E d \in sources.definitions : d.key = key /\ x = DefinitionRow(d)
    BY <1>1 DEF DefinitionsOf
  <1>4. ASSUME CallerKnown(key) PROVE Resolved(key)
    <2>1. PICK m \in {x.logical : x \in rows} :
            \A x \in rows : x.status = "unique" /\ x.logical = m
      BY <1>4 DEF CallerKnown
    <2>2. PICK e \in sources.definitions : e.key = key BY <1>3, <2>1
    <2>3. \A d \in sources.definitions : d.key = key =>
            Reconcile(d).status = "unique" /\ Reconcile(d).ids = {m}
      <3> SUFFICES ASSUME NEW d \in sources.definitions, d.key = key
                   PROVE  Reconcile(d).status = "unique" /\ Reconcile(d).ids = {m}
        OBVIOUS
      <3>1. Reconcile(d).status = "unique" /\ TheMethod(Reconcile(d)) = m
        BY <1>1, <1>2, <2>1
      <3> QED BY <3>1, UniqueMethod
    <2>4. results = {Reconcile(e)}
      <3>1. \A d : Reconcile(d).status = "unique" /\ Reconcile(d).ids = {m} =>
                     Reconcile(d) = [status |-> "unique", ids |-> {m}]
        BY DEF Reconcile
      <3> QED BY <2>2, <2>3, <3>1
    <2>5. ids = {m} BY <2>2, <2>3, <2>4
    <2>6. Cardinality({m}) = 1 BY FS_Singleton
    <2>7. ResolveSymbol(key) = [status |-> "unique", ids |-> {m}]
      <3>1. \A r \in results : r.status = "unique" BY <2>3
      <3> HIDE DEF ids
      <3> QED BY <2>5, <2>6, <3>1 DEF ResolveSymbol, ids
    <2> QED BY <2>7 DEF Resolved
  <1>5. ASSUME Resolved(key) PROVE CallerKnown(key)
    <2>1. (\A r \in results : r.status = "unique") /\ ResolveSymbol(key).ids = ids
      BY <1>5 DEF Resolved, ResolveSymbol
    <2>2. PICK m \in methods : /\ ResolveSymbol(key).ids = {m.id}
                               /\ \E d \in sources.definitions : d.key = key
      BY <1>5, ResolvedKey
    <2>3. \A d \in sources.definitions : d.key = key =>
            /\ DefinitionRow(d).status = "unique"
            /\ DefinitionRow(d).logical = m.id
      <3> SUFFICES ASSUME NEW d \in sources.definitions, d.key = key
                   PROVE  /\ DefinitionRow(d).status = "unique"
                          /\ DefinitionRow(d).logical = m.id
        OBVIOUS
      <3>1. Reconcile(d) \in results OBVIOUS
      <3>2. Reconcile(d).status = "unique" /\ Reconcile(d).ids \subseteq ids BY <2>1, <3>1
      <3>3. PICK n \in methods : /\ Reconcile(d).ids = {n.id}
                                 /\ TheMethod(Reconcile(d)) = n.id
        BY <3>2, UniqueMethod
      <3> HIDE DEF ids
      <3>4. n.id = m.id BY <2>1, <2>2, <3>2, <3>3
      <3> QED BY <1>1, <3>2, <3>3, <3>4
    <2>4. \A x \in rows : x.status = "unique" /\ x.logical = m.id BY <1>3, <2>3
    <2>5. m.id \in {x.logical : x \in rows} BY <1>2, <2>2, <2>3
    <2> QED BY <2>4, <2>5 DEF CallerKnown
  <1> QED BY <1>4, <1>5

(* call_dataflow_validation.py: what is accepted is supported. *)
LEMMA AcceptedSupported ==
  ASSUME SeparateWorlds, WorldInv, SitesMeant(db), DefinitionsOf(db),
         CallsWritten(db, Sites), Projects(db.calls, Sites), EndpointsUnique, Classified
  PROVE  /\ db.calls = CallsOf(KnownSites)
         /\ DefinedOnce(sources) \/ methods = sources.methods => db.calls = CallsOf(db.sites)
  <1>1. ASSUME NEW e \in db.calls PROVE e \in CallsOf(KnownSites)
    <2>1. PICK c \in Sites : Resolved(c.caller) /\ \E m \in Accepted(c) : e = CallOf(c, m)
      BY <1>1 DEF Projects
    <2>2. PICK m \in Accepted(c) : e = CallOf(c, m) BY <2>1
    <2>3. Written(db, c) BY <2>1 DEF CallsWritten
    <2>4. PICK s \in db.sites : s.id = CallSiteId(c) BY <2>3 DEF Written
    <2>5. s.caller = TheMethod(ResolveSymbol(c.caller)) BY <2>3, <2>4 DEF Written, SiteRow
    <2>6. TargetOf(c, m) \in TargetsOf(s) BY <2>3, <2>4 DEF Written, TargetsOf, TargetOf
    <2>7. e = [caller |-> s.caller, callee |-> TargetOf(c, m).callee,
               relation |-> TargetOf(c, m).relation]
      BY <2>2, <2>5 DEF CallOf, TargetOf
    <2>8. CallerKnown(c.caller) BY <2>1, CallerKnownResolved
    <2>9. s \in KnownSites BY <2>4, <2>8 DEF KnownSites
    <2> QED BY <2>6, <2>7, <2>9 DEF CallsOf
  <1>2. ASSUME NEW s \in db.sites, NEW c \in Sites, s.id = CallSiteId(c),
               Resolved(c.caller), NEW x \in TargetsOf(s)
        PROVE  [caller |-> s.caller, callee |-> x.callee, relation |-> x.relation] \in db.calls
    <2>1. Written(db, c) BY <1>2 DEF CallsWritten
    <2>2. s.caller = TheMethod(ResolveSymbol(c.caller)) BY <1>2, <2>1 DEF Written, SiteRow
    <2>3. PICK m \in Accepted(c) : x = TargetOf(c, m)
      BY <1>2, <2>1 DEF Written, TargetsOf
    <2>4. CallOf(c, m) \in db.calls BY <1>2 DEF Projects
    <2> QED BY <2>2, <2>3, <2>4 DEF CallOf, TargetOf
  <1>3. CallsOf(KnownSites) \subseteq db.calls
    <2>1. \A s \in KnownSites : s \in db.sites /\ \E c \in Sites :
             s.id = CallSiteId(c) /\ Resolved(c.caller)
      BY CallerKnownResolved DEF KnownSites
    <2> QED BY <1>2, <2>1 DEF CallsOf
  <1>4. ASSUME DefinedOnce(sources) \/ methods = sources.methods,
               NEW s \in db.sites, NEW x \in TargetsOf(s)
        PROVE  [caller |-> s.caller, callee |-> x.callee, relation |-> x.relation] \in db.calls
    <2>1. PICK c \in Sites : s.id = CallSiteId(c) /\ Meant(c.caller, s.caller)
      BY DEF SitesMeant
    <2>2. s.status = "resolved" BY <1>4 DEF Classified
    <2>3. s.caller \in UniqueMethods BY <1>4, <2>2 DEF EndpointsUnique
    <2>4. PICK e \in sources.definitions :
            Reconcile(e).status = "unique" /\ TheMethod(Reconcile(e)) = s.caller
      <3>1. PICK r \in db.defs : r.status = "unique" /\ r.logical = s.caller
        BY <2>3 DEF UniqueMethods
      <3>2. PICK e \in sources.definitions : r = DefinitionRow(e) BY DEF DefinitionsOf
      <3> QED BY <3>1, <3>2 DEF DefinitionRow
    <2>5. Resolved(c.caller) BY <1>4, <2>1, <2>4, CallerFound
    <2> QED BY <1>2, <2>1, <2>5
  <1>5. DefinedOnce(sources) \/ methods = sources.methods => CallsOf(db.sites) \subseteq db.calls
    BY <1>4 DEF CallsOf
  <1>6. CallsOf(KnownSites) \subseteq CallsOf(db.sites) BY DEF CallsOf, KnownSites
  <1>7. db.calls \subseteq CallsOf(KnownSites) BY <1>1
  <1> QED BY <1>3, <1>5, <1>6, <1>7

-----------------------------------------------------------------------------
LEMMA InitInv == CallsInit => CInv
  <1> SUFFICES ASSUME CallsInit PROVE CInv OBVIOUS
  <1>1. Tables(Empty) BY DEF Tables, Fields, Empty
  <1>2. WorldInv BY <1>1 DEF CallsInit, WorldInv, EveryMethod
  <1>3. SitesMeant(db) BY DEF CallsInit, Empty, SitesMeant
  <1> QED BY <1>2, <1>3 DEF CallsInit, CInv, CallsInv, FlowsInv, VerdictInv, CallsSupported

(* What the steps that leave the committed tables alone have in common. *)
LEMMA CommittedKept ==
  ASSUME CInv, UNCHANGED <<sources, methods, db>>
  PROVE  /\ SitesMeant(db)'
         /\ DefinitionsOf(db) => DefinitionsOf(db)'
         /\ \A S : CallsWritten(db, S) => CallsWritten(db, S)'
         /\ \A S : Projects(db.calls, S) => Projects(db.calls, S)'
  <1>1. SitesMeant(db) BY DEF CInv
  <1>2. db' = db OBVIOUS
  <1>3. \A S : Projects(db.calls, S)' = Projects(db.calls, S) BY Same DEF Projects
  <1> QED BY <1>1, <1>2, <1>3, SameOfDb

LEMMA SupportKept ==
  ASSUME CInv, UNCHANGED <<sources, db, verdict>>, methods' = methods \/ methods' # sources.methods
  PROVE  CallsSupported'
  <1>1. KnownSites' = KnownSites /\ CallsOf(KnownSites)' = CallsOf(KnownSites)
        /\ CallsOf(db.sites)' = CallsOf(db.sites)
    BY DEF KnownSites, CallsOf, CallerKnown, TargetsOf, Sites, CallSiteId
  <1>2. DefinedOnce(sources)' = DefinedOnce(sources)
    BY DEF DefinedOnce, EveryMethod
  <1> QED BY <1>1, <1>2 DEF CInv, CallsSupported

LEMMA LoadStep == ASSUME SeparateWorlds, CInv, Load PROVE CInv'
  <1>1. UNCHANGED <<sources, methods, db, tx>> /\ callStep' \in {"run", "failed"}
        /\ verdict' = "none"
    BY DEF Load
  <1>2. WorldInv' BY <1>1 DEF CInv, WorldInv, Tables
  <1>3. SitesMeant(db)' BY <1>1, CommittedKept
  <1> QED BY <1>1, <1>2, <1>3 DEF CInv, CallsInv, FlowsInv, VerdictInv, CallsSupported

LEMMA InsertRunStep == ASSUME SeparateWorlds, CInv, InsertRun PROVE CInv'
  <1> DEFINE t == [db EXCEPT !.run = "running"]
             u == BeginTables(t)
  <1>1. UNCHANGED <<sources, methods>> /\ db' = t /\ tx' = u /\ queue' = Sites
        /\ projected' = {} /\ callStep' = "calls" /\ verdict' = "none"
    BY DEF InsertRun, CInv, VerdictInv
  <1>2. Tables(t) /\ SameCalls(t, db)
    BY DEF CInv, WorldInv, Tables, Fields, SameCalls
  <1>3. /\ Tables(u) /\ u.calls = {} /\ u.sites = t.sites /\ DefinitionsOf(u)
    BY <1>2 DEF Tables, Fields, BeginTables, DefinitionsOf
  <1>4. SitesMeant(t) BY <1>2, SameCallsSame DEF CInv
  <1>5. SitesMeant(u) BY <1>3, <1>4 DEF SitesMeant
  <1> HIDE DEF t, u
  <1>6. WorldInv' BY <1>1, <1>2, <1>3 DEF CInv, WorldInv, Tables
  <1>7. SitesMeant(db)' BY <1>1, <1>4, SameOfDb
  <1>8. SitesMeant(tx)' /\ DefinitionsOf(tx)' BY <1>1, <1>3, <1>5, SameOfTx
  <1>9. Sites' = Sites BY <1>1, Same
  <1>10. CallsInv'
    <2>1. CallsWritten(tx, Sites \ queue)' BY <1>1, <1>9 DEF CallsWritten
    <2>2. Projects(projected, Sites \ queue)' BY <1>1, <1>9 DEF Projects
    <2> QED BY <1>1, <1>3, <1>8, <1>9, <2>1, <2>2 DEF CallsInv
  <1> QED BY <1>1, <1>6, <1>7, <1>10 DEF CInv, FlowsInv, VerdictInv, CallsSupported

LEMMA MaterializeCallStep ==
  ASSUME SeparateWorlds, CInv, NEW c \in queue, MaterializeCall(c)
  PROVE  CInv'
  <1> DEFINE u == WriteSite(tx, c, TheMethod(ResolveSymbol(c.caller)))
  <1> PICK done : done = Sites \ queue OBVIOUS
  <1>1. /\ UNCHANGED <<sources, methods, db, verdict, callStep>> /\ callStep = "calls"
        /\ queue' = queue \ {c} /\ verdict' = "none"
    BY DEF MaterializeCall, CInv, VerdictInv
  <1>2. /\ WorldInv /\ c \in Sites /\ queue \subseteq Sites
        /\ SitesMeant(tx) /\ DefinitionsOf(tx) /\ tx.calls = {}
        /\ CallsWritten(tx, done) /\ Projects(projected, done) /\ Tables(tx)
    BY <1>1 DEF CInv, CallsInv, WorldInv
  <1>3. Sites' = Sites BY <1>1, Same
  <1>4. (Sites \ queue)' = done \cup {c} BY <1>1, <1>2, <1>3
  <1>5. /\ Tables(tx') /\ SitesMeant(tx)' /\ DefinitionsOf(tx)' /\ tx'.calls = {}
        /\ CallsWritten(tx, Sites \ queue)' /\ Projects(projected, Sites \ queue)'
    <2>1. CASE Resolved(c.caller)
      <3>1. /\ tx' = u
            /\ projected' = projected \cup {CallOf(c, m) : m \in Accepted(c)}
        <4>1. projected' = projected \cup
                 {[caller |-> TheMethod(ResolveSymbol(c.caller)), callee |-> m,
                   relation |-> c.relation] : m \in Accepted(c)}
          BY <2>1 DEF MaterializeCall, Resolved
        <4>2. tx' = u BY <2>1 DEF MaterializeCall, Resolved
        <4>3. {CallOf(c, m) : m \in Accepted(c)} =
                 {[caller |-> TheMethod(ResolveSymbol(c.caller)), callee |-> m,
                   relation |-> c.relation] : m \in Accepted(c)}
          BY DEF CallOf
        <4> HIDE DEF u
        <4>4. projected' = projected \cup {CallOf(c, m) : m \in Accepted(c)}
          BY <4>1, <4>3, Zenon
        <4> QED BY <4>2, <4>4
      <3>2. /\ Tables(u) /\ u.calls = {} /\ u.defs = tx.defs
        BY <1>2, SiteRest
      <3>3. SitesMeant(u) /\ CallsWritten(u, done \cup {c})
        BY <1>2, <2>1, SiteWritten
      <3>4. DefinitionsOf(u) BY <1>2, <3>2 DEF DefinitionsOf
      <3>5. Projects(projected \cup {CallOf(c, m) : m \in Accepted(c)}, done \cup {c})
        BY <1>2, <2>1 DEF Projects
      <3> HIDE DEF u
      <3>6. SitesMeant(tx)' /\ DefinitionsOf(tx)' BY <1>1, <3>1, <3>3, <3>4, SameOfTx
      <3>7. CallsWritten(tx, Sites \ queue)'
        <4>1. CallsWritten(tx, done \cup {c})' BY <1>1, <3>1, <3>3, SameOfTx DEF CallsWritten
        <4> QED BY <4>1, <1>4 DEF CallsWritten
      <3>8. Projects(projected, Sites \ queue)'
        BY <1>1, <1>4, <3>1, <3>5, Same DEF Projects
      <3> QED BY <3>1, <3>2, <3>6, <3>7, <3>8
    <2>2. CASE ~Resolved(c.caller)
      <3>1. UNCHANGED <<tx, projected>> BY <2>2 DEF MaterializeCall, Resolved
      <3>2. SitesMeant(tx)' /\ DefinitionsOf(tx)' BY <1>1, <1>2, <3>1, SameOfTx
      <3>3. CallsWritten(tx, done \cup {c}) BY <1>2, <2>2 DEF CallsWritten
      <3>4. CallsWritten(tx, done \cup {c})' BY <1>1, <3>1, <3>3, SameOfTx
      <3>5. CallsWritten(tx, Sites \ queue)' BY <3>4, <1>4 DEF CallsWritten
      <3>6. Projects(projected, done \cup {c}) BY <1>2, <2>2 DEF Projects
      <3>7. Projects(projected, Sites \ queue)'
        BY <1>1, <1>4, <3>1, <3>6, Same DEF Projects
      <3> QED BY <1>2, <3>1, <3>2, <3>5, <3>7 DEF Tables
    <2> QED BY <2>1, <2>2
  <1>6. WorldInv' BY <1>1, <1>2, <1>5 DEF WorldInv, Tables
  <1>7. SitesMeant(db)' BY <1>1, CommittedKept
  <1>8. CallsInv' BY <1>1, <1>2, <1>3, <1>5 DEF CallsInv
  <1> QED BY <1>1, <1>6, <1>7, <1>8 DEF CInv, FlowsInv, VerdictInv, CallsSupported

LEMMA CommitCallsStep == ASSUME SeparateWorlds, CInv, CommitCalls PROVE CInv'
  <1> DEFINE t == [tx EXCEPT !.calls = @ \cup projected]
  <1>1. /\ UNCHANGED <<sources, methods>> /\ callStep = "calls" /\ queue = {}
        /\ db' = t /\ tx' = db' /\ callStep' = "flows" /\ verdict' = "none"
    BY DEF CommitCalls, CInv, VerdictInv
  <1>2. /\ WorldInv /\ SitesMeant(tx) /\ DefinitionsOf(tx) /\ tx.calls = {}
        /\ CallsWritten(tx, Sites \ queue) /\ Projects(projected, Sites \ queue)
        /\ Tables(tx)
    BY <1>1 DEF CInv, CallsInv, WorldInv
  <1>3. Sites \ queue = Sites BY <1>1
  <1>4. /\ Tables(t) /\ t.calls = projected /\ t.defs = tx.defs
        /\ t.sites = tx.sites /\ t.targets = tx.targets
    BY <1>2 DEF Tables, Fields
  <1> HIDE DEF t
  <1>5. SitesMeant(t) /\ DefinitionsOf(t)
    BY <1>2, <1>4 DEF SitesMeant, DefinitionsOf
  <1>6. CallsWritten(t, Sites) BY <1>2, <1>3, <1>4 DEF CallsWritten, Written
  <1>7. Projects(t.calls, Sites) BY <1>2, <1>3, <1>4
  <1>8. WorldInv' BY <1>1, <1>2, <1>4 DEF WorldInv, Tables
  <1>9. SitesMeant(db)' /\ DefinitionsOf(db)' BY <1>1, <1>5, SameOfDb
  <1>10. CallsWritten(db, Sites)' BY <1>1, <1>6, Same DEF CallsWritten, Written
  <1>11. Projects(db.calls, Sites)' BY <1>1, <1>7, Same DEF Projects
  <1>12. FlowsInv' BY <1>1, <1>9, <1>10, <1>11 DEF FlowsInv, SameCalls
  <1> QED BY <1>1, <1>8, <1>9, <1>12 DEF CInv, CallsInv, VerdictInv, CallsSupported

(* What is committed of the calls stays as it is until the run is complete. *)
LEMMA CallsKept ==
  ASSUME CInv, UNCHANGED <<sources, methods>>, Tables(db'), SameCalls(db', db),
         callStep \in {"flows", "closing", "validate"}
  PROVE  /\ SitesMeant(db)' /\ DefinitionsOf(db)' /\ CallsWritten(db, Sites)'
         /\ Projects(db.calls, Sites)'
  <1>1. /\ SitesMeant(db) /\ DefinitionsOf(db) /\ CallsWritten(db, Sites)
        /\ Projects(db.calls, Sites)
    BY DEF CInv, FlowsInv
  <1> PICK t : t = db' OBVIOUS
  <1>2. /\ SitesMeant(t) /\ DefinitionsOf(t) /\ CallsWritten(t, Sites)
        /\ Projects(t.calls, Sites)
    BY <1>1, SameCallsSame DEF SameCalls
  <1>3. SitesMeant(db)' /\ DefinitionsOf(db)' BY <1>2, SameOfDb
  <1>4. CallsWritten(db, Sites)' BY <1>2, Same DEF CallsWritten, Written
  <1>5. Projects(db.calls, Sites)' BY <1>2, Same DEF Projects
  <1> QED BY <1>3, <1>4, <1>5

LEMMA MaterializeFlowStep ==
  ASSUME SeparateWorlds, CInv, NEW p \in queue, MaterializeFlow(p)
  PROVE  CInv'
  <1>1. /\ UNCHANGED <<sources, methods, db, verdict, callStep>> /\ callStep = "flows"
        /\ tx' = WriteFlow(tx, p) /\ verdict' = "none"
    BY DEF MaterializeFlow, CInv, VerdictInv
  <1>2. WorldInv /\ Tables(tx) /\ Tables(db) /\ SameCalls(tx, db)
    BY <1>1 DEF CInv, FlowsInv, WorldInv
  <1>3. Tables(tx') /\ SameCalls(tx', db)
    BY <1>1, <1>2, FlowFrame DEF SameCalls
  <1>4. WorldInv' BY <1>1, <1>2, <1>3 DEF WorldInv, Tables
  <1>5. /\ SitesMeant(db)' /\ DefinitionsOf(db)' /\ CallsWritten(db, Sites)'
        /\ Projects(db.calls, Sites)'
    BY <1>1, <1>2, CallsKept DEF SameCalls
  <1>6. FlowsInv' BY <1>1, <1>3, <1>5 DEF FlowsInv, SameCalls
  <1> QED BY <1>1, <1>4, <1>5, <1>6 DEF CInv, CallsInv, VerdictInv, CallsSupported

LEMMA CommitFlowsStep == ASSUME SeparateWorlds, CInv, CommitFlows PROVE CInv'
  <1>1. /\ UNCHANGED <<sources, methods, tx, verdict>> /\ callStep = "flows"
        /\ db' = tx /\ callStep' = "closing" /\ verdict' = "none"
    BY DEF CommitFlows, CInv, VerdictInv
  <1>2. WorldInv /\ Tables(tx) /\ SameCalls(tx, db)
    BY <1>1 DEF CInv, FlowsInv, WorldInv
  <1>3. Tables(db') /\ SameCalls(db', db) BY <1>1, <1>2
  <1>4. WorldInv' BY <1>1, <1>2 DEF WorldInv, Tables
  <1>5. /\ SitesMeant(db)' /\ DefinitionsOf(db)' /\ CallsWritten(db, Sites)'
        /\ Projects(db.calls, Sites)'
    BY <1>1, <1>3, CallsKept
  <1> QED BY <1>1, <1>4, <1>5 DEF CInv, CallsInv, FlowsInv, VerdictInv, CallsSupported

LEMMA CompleteStep == ASSUME SeparateWorlds, CInv, Complete PROVE CInv'
  <1>1. /\ UNCHANGED <<sources, methods, verdict>> /\ callStep = "closing" /\ tx' = Empty
        /\ db' = [db EXCEPT !.run = "complete"] /\ callStep' = "validate" /\ verdict' = "none"
    BY DEF Complete, CInv, VerdictInv
  <1>2. WorldInv /\ Tables(db) BY DEF CInv, WorldInv
  <1>3. Tables(db') /\ SameCalls(db', db) BY <1>1, <1>2 DEF Tables, Fields, SameCalls
  <1>4. Tables(tx') BY <1>1 DEF Tables, Fields, Empty
  <1>5. WorldInv' BY <1>1, <1>2, <1>3, <1>4 DEF WorldInv, Tables
  <1>6. /\ SitesMeant(db)' /\ DefinitionsOf(db)' /\ CallsWritten(db, Sites)'
        /\ Projects(db.calls, Sites)'
    BY <1>1, <1>3, CallsKept
  <1> QED BY <1>1, <1>5, <1>6 DEF CInv, CallsInv, FlowsInv, VerdictInv, CallsSupported

LEMMA ValidateStep == ASSUME SeparateWorlds, CInv, ValidateCalls PROVE CInv'
  <1>1. /\ UNCHANGED <<sources, methods, db, tx>> /\ callStep = "validate" /\ callStep' = "idle"
    BY DEF ValidateCalls
  <1>2. WorldInv' BY <1>1 DEF CInv, WorldInv, Tables
  <1>3. SitesMeant(db)' BY <1>1, CommittedKept
  <1>4. CallsSupported'
    <2>1. CASE verdict' = "pass"
      <3>1. EndpointsUnique /\ Classified BY <2>1 DEF ValidateCalls
      <3>2. /\ db.calls = CallsOf(KnownSites)
            /\ DefinedOnce(sources) \/ methods = sources.methods =>
                 db.calls = CallsOf(db.sites)
        BY <1>1, <3>1, AcceptedSupported DEF CInv, FlowsInv
      <3>3. KnownSites' = KnownSites /\ CallsOf(KnownSites)' = CallsOf(KnownSites)
            /\ CallsOf(db.sites)' = CallsOf(db.sites)
        BY <1>1 DEF KnownSites, CallsOf, CallerKnown, TargetsOf, Sites, CallSiteId
      <3>4. DefinedOnce(sources)' = DefinedOnce(sources)
        BY <1>1 DEF DefinedOnce, EveryMethod
      <3> QED BY <1>1, <3>2, <3>3, <3>4 DEF CallsSupported
    <2> QED BY <2>1 DEF CallsSupported
  <1> QED BY <1>1, <1>2, <1>3, <1>4 DEF CInv, CallsInv, FlowsInv, VerdictInv

LEMMA MethodsAppearStep == ASSUME SeparateWorlds, CInv, MethodsAppear PROVE CInv'
  <1>1. /\ UNCHANGED <<sources, db, tx, callStep, verdict>> /\ callStep = "idle"
        /\ methods' = methods \cup sources.later /\ methods # methods \cup sources.later
    BY DEF MethodsAppear
  <1>2. methods' # sources'.methods /\ methods \subseteq methods'
    BY <1>1 DEF CInv, WorldInv
  <1>3. WorldInv' BY <1>1 DEF CInv, WorldInv, Tables, EveryMethod
  <1>4. \A key, id : Meant(key, id) => Meant(key, id)'
    BY <1>1, <1>2 DEF Meant
  <1>5. Sites' = Sites BY <1>1 DEF Sites
  <1>6. SitesMeant(db)' BY <1>1, <1>4, <1>5 DEF CInv, SitesMeant
  <1>7. CallsSupported' BY <1>1, <1>2, SupportKept
  <1> QED BY <1>1, <1>3, <1>6, <1>7 DEF CInv, CallsInv, FlowsInv, VerdictInv

LEMMA KillStep == ASSUME SeparateWorlds, CInv, KillImport PROVE CInv'
  <1>1. /\ UNCHANGED <<sources, methods, db, verdict>> /\ callStep' = "idle" /\ tx' = Empty
    BY DEF KillImport
  <1>2. Tables(tx') BY <1>1 DEF Tables, Fields, Empty
  <1>3. WorldInv' BY <1>1, <1>2 DEF CInv, WorldInv, Tables
  <1>4. SitesMeant(db)' BY <1>1, CommittedKept
  <1>5. CallsSupported' BY <1>1, SupportKept
  <1> QED BY <1>1, <1>3, <1>4, <1>5 DEF CInv, CallsInv, FlowsInv, VerdictInv

LEMMA StutterStep == ASSUME SeparateWorlds, CInv, UNCHANGED callVars PROVE CInv'
  <1>1. UNCHANGED <<sources, methods, db, tx, queue, projected, callStep, verdict>>
    BY DEF callVars
  <1>2. WorldInv' BY <1>1 DEF CInv, WorldInv, Tables
  <1>3. SitesMeant(db)' BY <1>1, CommittedKept
  <1>4. CallsInv'
    <2> SUFFICES ASSUME callStep = "calls" PROVE CallsInv' BY <1>1 DEF CallsInv
    <2> PICK done : done = Sites \ queue OBVIOUS
    <2>1. /\ queue \subseteq Sites /\ SitesMeant(tx) /\ DefinitionsOf(tx) /\ tx.calls = {}
          /\ CallsWritten(tx, done) /\ Projects(projected, done)
      BY DEF CInv, CallsInv
    <2>2. Sites' = Sites /\ (Sites \ queue)' = done BY <1>1, Same
    <2>3. SitesMeant(tx)' /\ DefinitionsOf(tx)' /\ CallsWritten(tx, done)'
      BY <1>1, <2>1, SameOfTx
    <2>4. CallsWritten(tx, Sites \ queue)' BY <2>2, <2>3 DEF CallsWritten
    <2>5. Projects(projected, Sites \ queue)' BY <1>1, <2>1, <2>2, Same DEF Projects
    <2> QED BY <1>1, <2>1, <2>2, <2>3, <2>4, <2>5 DEF CallsInv
  <1>5. FlowsInv'
    <2>1. CASE callStep \in {"flows", "closing", "validate"}
      <3>1. /\ DefinitionsOf(db)' /\ CallsWritten(db, Sites)' /\ Projects(db.calls, Sites)'
        BY <1>1, <2>1, CallsKept DEF CInv, WorldInv, SameCalls
      <3> QED BY <1>1, <2>1, <3>1 DEF CInv, FlowsInv, SameCalls
    <2> QED BY <1>1, <2>1 DEF FlowsInv
  <1>6. CallsSupported' BY <1>1, SupportKept
  <1> QED BY <1>1, <1>2, <1>3, <1>4, <1>5, <1>6 DEF CInv, VerdictInv

LEMMA NextInv == ASSUME SeparateWorlds, CInv, [CallsNext]_callVars PROVE CInv'
  BY LoadStep, InsertRunStep, MaterializeCallStep, CommitCallsStep, MaterializeFlowStep,
     CommitFlowsStep, CompleteStep, ValidateStep, MethodsAppearStep, KillStep,
     StutterStep DEF CallsNext

(* Over any sources in which the hypothesis holds, and any number of imports *)
(* and kills: what the invariant says of the tables holds of every import.   *)
THEOREM CallsInvariant == ASSUME SeparateWorlds PROVE CallsSpec => []CInv
  <1>1. CallsInit => CInv BY InitInv
  <1>2. CInv /\ [CallsNext]_callVars => CInv' BY NextInv
  <1> QED BY <1>1, <1>2, PTL DEF CallsSpec

(* What the validator lets through has the calls of the sites whose caller is *)
(* known and no others, though the sites of earlier imports are still in the *)
(* tables (materialize_call_graph deletes the CALLS edges, not the sites);   *)
(* and they are the calls of all sites where no two definitions look for one *)
(* method or no methods have appeared.                                       *)
THEOREM SupportedCalls == ASSUME SeparateWorlds PROVE CallsSpec => []CallsSupported
  <1>1. CInv => CallsSupported BY DEF CInv
  <1> QED BY <1>1, CallsInvariant, PTL

-----------------------------------------------------------------------------
(* The verdict on what an import has written.  While nothing is added to the  *)
(* graph, the definitions and sites in the tables are a function of what      *)
(* CodeQL has found, and the paths and traces, of this import or another, are *)
(* a function of those.                                                      *)

(* The definitions and sites of these methods, whatever is in the tables. *)
Here == [defs |-> {DefinitionRow(d) : d \in sources.definitions},
         sites |-> {SiteRow(c) : c \in {x \in Sites : Resolved(x.caller)}}]

(* What a path is written as, and its trace, over the definitions and sites h. *)
Whole(h, p) ==
  /\ LogicalMethod(h, p.entry) # NoMethod
  /\ Len(Steps(p)) >= 1 /\ Owned(h, p) = DOMAIN Steps(p)
PathRow(h, p) ==
  [id |-> PathId(p), count |-> Len(Steps(p)), steps |-> Values(h, p),
   source |-> Values(h, p)[1], sink |-> Values(h, p)[Len(Steps(p))]]
SinkCaller(h, p) == LogicalMethod(h, Last(Steps(p)).key)
SinkSite(h, p) ==
  CallSiteAt(h, SinkCaller(h, p), Last(Steps(p)).path, Last(Steps(p)).line)
Restoring(h, p, i) == CallSiteAt(h, SinkCaller(h, p), i.path, i.restore)
Guards(h, w, p) == Attached(h, w.guards, p, SinkCaller(h, p))
Transitions(h, w, p) == Attached(h, w.identities, p, SinkCaller(h, p))
Restored(h, w, p) ==
  {i \in Transitions(h, w, p) : i.paired /\ Restoring(h, p, i) # NoMethod}
TraceRow(h, w, p) ==
  [id |-> <<"trace", PathId(p), LogicalMethod(h, p.entry), SinkSite(h, p)>>,
   guards |-> Cardinality(Guards(h, w, p)),
   transitions |-> Cardinality(Transitions(h, w, p)),
   status |-> TraceStatus(Guards(h, w, p), Transitions(h, w, p)),
   steps |-> TraceSteps(SinkSite(h, p), p, Guards(h, w, p), Transitions(h, w, p),
                        Restored(h, w, p))]
Traced(h, p) == Whole(h, p) /\ SinkSite(h, p) # NoMethod

RestoredBy == "IDENTITY_RESTORED_BY"
RestoredEdge(h, p, i) == GraphEdge(RestoredBy, SinkSite(h, p), Restoring(h, p, i))

(* The paths and traces in a table t are those of h, and so are the           *)
(* restorations.                                                             *)
PathsAsWritten(h, w, t) ==
  \A r \in t.paths : \E p \in w.paths : Whole(h, p) /\ r = PathRow(h, p)
TracesAsWritten(h, w, t) ==
  \A r \in t.traces :
    \E p \in w.paths : /\ Traced(h, p) /\ r = TraceRow(h, w, p)
                       /\ \A i \in Restored(h, w, p) : RestoredEdge(h, p, i) \in t.edges
RestoredAsWritten(h, w, t) ==
  \A e \in t.edges : e.type = RestoredBy =>
    \E p \in w.paths : /\ Traced(h, p) /\ TraceRow(h, w, p) \in t.traces
                       /\ Restored(h, w, p) # {}
FlowsWritten(h, w, t) ==
  PathsAsWritten(h, w, t) /\ TracesAsWritten(h, w, t) /\ RestoredAsWritten(h, w, t)

(* A table has these definitions, and these sites. *)
Over(h, t) == t.defs = h.defs /\ t.sites = h.sites
Apart(h) == \A s, u \in h.sites : s.id = u.id => s = u

(* A site of t is what is written of a call. *)
SiteOfCall(t, s, c) ==
  /\ Resolved(c.caller) /\ s = SiteRow(c)
  /\ \A x : x \in t.targets /\ x.site = s.id <=> \E m \in Accepted(c) : x = TargetOf(c, m)
SitesCalled(t) == \A s \in t.sites : \E c \in Sites : SiteOfCall(t, s, c)

-----------------------------------------------------------------------------
LEMMA OverSame ==
  ASSUME NEW h, NEW t, Over(h, t)
  PROVE  /\ \A key : LogicalMethod(t, key) = LogicalMethod(h, key)
         /\ \A caller, path, line :
              CallSiteAt(t, caller, path, line) = CallSiteAt(h, caller, path, line)
         /\ \A value : OwnerOf(t, value) = OwnerOf(h, value)
         /\ \A p : Owned(t, p) = Owned(h, p) /\ Values(t, p) = Values(h, p)
         /\ \A records, p, caller :
              Attached(t, records, p, caller) = Attached(h, records, p, caller)
  <1>1. \A key : LogicalMethod(t, key) = LogicalMethod(h, key)
    BY DEF Over, LogicalMethod
  <1>2. \A caller, path, line :
          CallSiteAt(t, caller, path, line) = CallSiteAt(h, caller, path, line)
    BY DEF Over, CallSiteAt
  <1>3. \A value : OwnerOf(t, value) = OwnerOf(h, value)
    <2> TAKE value
    <2> DEFINE around(u) == {d \in u.defs : /\ d.status = "unique" /\ d.path = value.path
                                           /\ value.line \in d.first..d.last}
               inner(u) == {d \in around(u) :
                              \A e \in around(u) : d.last - d.first <= e.last - e.first}
               ids(u) == {d.logical : d \in inner(u)}
               owner(u) == IF Cardinality(ids(u)) = 1 THEN CHOOSE m \in ids(u) : TRUE
                                                     ELSE NoMethod
    <2>1. around(t) = around(h) BY DEF Over
    <2>2. ids(t) = ids(h) BY <2>1
    <2>3. \A u : OwnerOf(u, value) =
                   IF value.key # "" THEN LogicalMethod(u, value.key) ELSE owner(u)
      BY DEF OwnerOf
    <2> HIDE DEF ids
    <2>4. owner(t) = owner(h) BY <2>2
    <2> HIDE DEF owner
    <2> QED BY <1>1, <2>3, <2>4
  <1>4. \A p : Owned(t, p) = Owned(h, p) BY <1>3 DEF Owned
  <1>5. \A p : Values(t, p) = Values(h, p) BY <1>3, <1>4 DEF Values
  <1>6. \A records, p, caller :
          Attached(t, records, p, caller) = Attached(h, records, p, caller)
    BY <1>1, <1>2 DEF Attached
  <1> QED BY <1>1, <1>2, <1>3, <1>4, <1>5, <1>6

(* A site that is found is where it was looked for, so that two paths to one  *)
(* site have the same guards and transitions.                                *)
LEMMA SiteFound ==
  ASSUME NEW h, NEW caller, NEW path, NEW line, CallSiteAt(h, caller, path, line) # NoMethod
  PROVE  \E s \in h.sites : /\ s.id = CallSiteAt(h, caller, path, line)
                            /\ s.caller = caller /\ s.path = path /\ s.line = line
  <1> DEFINE ids == {s.id : s \in {x \in h.sites :
                             x.caller = caller /\ x.path = path /\ x.line = line}}
  <1>1. Cardinality(ids) = 1 /\ CallSiteAt(h, caller, path, line) = CHOOSE s \in ids : TRUE
    BY DEF CallSiteAt
  <1>2. ids # {} BY <1>1, FS_EmptySet
  <1>3. CallSiteAt(h, caller, path, line) \in ids BY <1>1, <1>2
  <1> QED BY <1>3

LEMMA OneSite ==
  ASSUME NEW h, Apart(h), NEW w, NEW p, NEW q, SinkSite(h, p) # NoMethod,
         SinkSite(h, q) = SinkSite(h, p)
  PROVE  /\ Restored(h, w, q) = Restored(h, w, p)
         /\ \A i : RestoredEdge(h, q, i) = RestoredEdge(h, p, i)
  <1>1. PICK s \in h.sites :
          /\ s.id = SinkSite(h, p) /\ s.caller = SinkCaller(h, p)
          /\ s.path = Last(Steps(p)).path /\ s.line = Last(Steps(p)).line
    BY SiteFound DEF SinkSite
  <1>2. PICK u \in h.sites :
          /\ u.id = SinkSite(h, q) /\ u.caller = SinkCaller(h, q)
          /\ u.path = Last(Steps(q)).path /\ u.line = Last(Steps(q)).line
    BY SiteFound DEF SinkSite
  <1>3. u = s BY <1>1, <1>2 DEF Apart
  <1>4. /\ SinkCaller(h, q) = SinkCaller(h, p)
        /\ Last(Steps(q)).path = Last(Steps(p)).path
        /\ Last(Steps(q)).line = Last(Steps(p)).line
    BY <1>1, <1>2, <1>3
  <1>5. Transitions(h, w, q) = Transitions(h, w, p)
    BY <1>4 DEF Transitions, Attached
  <1>6. \A i : Restoring(h, q, i) = Restoring(h, p, i) BY <1>4 DEF Restoring
  <1> QED BY <1>5, <1>6 DEF Restored, RestoredEdge

-----------------------------------------------------------------------------
(* What the statements that write no path, no trace and no restoration keep. *)
LEMMA OtherRows ==
  ASSUME NEW h, NEW w, NEW t, NEW u, FlowsWritten(h, w, t),
         u.paths = t.paths, u.traces = t.traces,
         \A e : e.type = RestoredBy => (e \in u.edges <=> e \in t.edges)
  PROVE  FlowsWritten(h, w, u)
  <1>1. \A p, i : RestoredEdge(h, p, i).type = RestoredBy BY DEF RestoredEdge, GraphEdge
  <1>2. PathsAsWritten(h, w, u) BY DEF FlowsWritten, PathsAsWritten
  <1>3. TracesAsWritten(h, w, u) BY <1>1 DEF FlowsWritten, TracesAsWritten
  <1>4. RestoredAsWritten(h, w, u) BY DEF FlowsWritten, RestoredAsWritten
  <1> QED BY <1>2, <1>3, <1>4 DEF FlowsWritten

LEMMA SiteKeepsFlows ==
  ASSUME NEW h, NEW w, NEW t, NEW c, NEW caller, Tables(t), FlowsWritten(h, w, t)
  PROVE  FlowsWritten(h, w, WriteSite(t, c, caller))
  <1> DEFINE u == WriteSite(t, c, caller)
  <1>1. /\ u.paths = t.paths /\ u.traces = t.traces
        /\ u.edges =
             (t.edges \ EdgesFrom(t, CallSiteId(c), {"IN_METHOD", "MUST_CALL", "MAY_CALL"}))
             \cup {GraphEdge("IN_METHOD", CallSiteId(c), caller)} \cup
             {GraphEdge(IF c.relation = "must" THEN "MUST_CALL" ELSE "MAY_CALL",
                        CallSiteId(c), m) : m \in Accepted(c)}
    BY DEF Tables, Fields, WriteSite
  <1> HIDE DEF u
  <1>2. \A e : e.type = RestoredBy => (e \in u.edges <=> e \in t.edges)
    BY <1>1 DEF EdgesFrom, GraphEdge, RestoredBy
  <1> QED BY <1>1, <1>2, OtherRows DEF u

LEMMA ValuesKeepFlows ==
  ASSUME NEW h, NEW w, NEW t, NEW p, Tables(t), FlowsWritten(h, w, t)
  PROVE  FlowsWritten(h, w, WriteValues(t, p))
  <1> DEFINE u == WriteValues(t, p)
  <1>1. /\ u.paths = t.paths /\ u.traces = t.traces
        /\ u.edges = t.edges \cup
             {GraphEdge("VALUE_IN_METHOD", Values(t, p)[i], OwnerOf(t, Steps(p)[i])) :
                i \in Owned(t, p)}
    BY DEF Tables, Fields, WriteValues
  <1> HIDE DEF u
  <1>2. \A e : e.type = RestoredBy => (e \in u.edges <=> e \in t.edges)
    BY <1>1 DEF GraphEdge, RestoredBy
  <1> QED BY <1>1, <1>2, OtherRows DEF u

(* A path that is there already has the source and sink it is given again.   *)
LEMMA PathWritten ==
  ASSUME NEW h, NEW w, NEW t, NEW p \in w.paths, Decoded(w), Tables(t), Over(h, t),
         FlowsWritten(h, w, t), Whole(h, p)
  PROVE  FlowsWritten(h, w, WritePath(t, p))
  <1> DEFINE u == WritePath(t, p)
             old == {r \in t.paths : r.id = PathId(p)}
             row == IF old = {} THEN PathRow(h, p)
                    ELSE [(CHOOSE r \in old : TRUE) EXCEPT !.steps = Values(h, p)]
  <1>1. Values(t, p) = Values(h, p) BY OverSame
  <1>2. /\ u.paths = Upsert(t.paths, row) /\ u.traces = t.traces
        /\ u.edges = t.edges \cup
             {GraphEdge("FLOW_SOURCE", PathId(p), Values(t, p)[1]),
              GraphEdge("FLOW_SINK", PathId(p), Values(t, p)[Len(Steps(p))])}
    BY <1>1 DEF Tables, Fields, WritePath, PathRow
  <1>3. row = PathRow(h, p)
    <2>1. CASE old = {} BY <2>1
    <2>2. CASE old # {}
      <3>1. PICK r : r = (CHOOSE x \in old : TRUE) OBVIOUS
      <3>2. r \in t.paths /\ r.id = PathId(p) BY <2>2, <3>1
      <3>3. PICK q \in w.paths : r = PathRow(h, q)
        BY <3>2 DEF FlowsWritten, PathsAsWritten
      <3>4. q.name = p.name BY <3>2, <3>3 DEF PathRow, PathId
      <3>5. q = p BY <3>4 DEF Decoded
      <3>6. [r EXCEPT !.steps = Values(h, p)] = PathRow(h, p) BY <3>3, <3>5 DEF PathRow
      <3> QED BY <2>2, <3>1, <3>6
    <2> QED BY <2>1, <2>2
  <1> HIDE DEF u, row
  <1>4. PathsAsWritten(h, w, u)
    BY <1>2, <1>3 DEF FlowsWritten, PathsAsWritten, Upsert
  <1>5. \A e : e.type = RestoredBy => (e \in u.edges <=> e \in t.edges)
    BY <1>2 DEF GraphEdge, RestoredBy
  <1>6. \A q, i : RestoredEdge(h, q, i).type = RestoredBy BY DEF RestoredEdge, GraphEdge
  <1>7. TracesAsWritten(h, w, u)
    BY <1>2, <1>5, <1>6 DEF FlowsWritten, TracesAsWritten
  <1>8. RestoredAsWritten(h, w, u)
    BY <1>2, <1>5 DEF FlowsWritten, RestoredAsWritten
  <1> QED BY <1>4, <1>7, <1>8 DEF FlowsWritten, u

(* The restorations of a site are those of the trace written last, and every *)
(* trace of a site has the same.                                             *)
LEMMA TraceWritten ==
  ASSUME NEW h, NEW t, NEW p \in sources.paths, Decoded(sources), Tables(t), Over(h, t),
         Apart(h), FlowsWritten(h, sources, t), Traced(h, p)
  PROVE  FlowsWritten(h, sources, WriteTrace(t, p, LogicalMethod(h, p.entry),
                                             SinkCaller(h, p), SinkSite(h, p)))
  <1> DEFINE w == sources
             site == SinkSite(h, p)
             u == WriteTrace(t, p, LogicalMethod(h, p.entry), SinkCaller(h, p), site)
             row == TraceRow(h, w, p)
  <1>1. /\ \A records, caller : Attached(t, records, p, caller) = Attached(h, records, p, caller)
        /\ \A caller, path, line :
              CallSiteAt(t, caller, path, line) = CallSiteAt(h, caller, path, line)
    BY OverSame
  <1>2. /\ Attached(t, sources.guards, p, SinkCaller(h, p)) = Guards(h, w, p)
        /\ Attached(t, sources.identities, p, SinkCaller(h, p)) = Transitions(h, w, p)
        /\ \A i : CallSiteAt(t, SinkCaller(h, p), i.path, i.restore) = Restoring(h, p, i)
    BY <1>1 DEF Guards, Transitions, Restoring
  <1>3. {i \in Transitions(h, w, p) : i.paired /\ Restoring(h, p, i) # NoMethod} =
          Restored(h, w, p)
    BY DEF Restored
  <1>4. u.paths = t.paths BY DEF Tables, Fields, WriteTrace
  <1>5. u.traces = Upsert(t.traces, row)
    BY <1>2, <1>3 DEF Tables, Fields, WriteTrace, TraceRow
  <1>6. u.edges =
          (t.edges \ EdgesFrom(t, site, {"GUARDED_BY", "IDENTITY_CLEARED_BY",
                                         "IDENTITY_RESTORED_BY"})) \cup
          {GraphEdge("TRACE_ENTRY", row.id, LogicalMethod(h, p.entry)),
           GraphEdge("TRACE_SINK", row.id, site)} \cup
          {GraphEdge("GUARDED_BY", site, CallSiteAt(t, SinkCaller(h, p), g.path, g.line)) :
             g \in Guards(h, w, p)} \cup
          {GraphEdge("IDENTITY_CLEARED_BY", site,
                     CallSiteAt(t, SinkCaller(h, p), i.path, i.line)) :
             i \in Transitions(h, w, p)} \cup
          {RestoredEdge(h, p, i) : i \in Restored(h, w, p)}
    <2> DEFINE caller == SinkCaller(h, p)
               at(r) == CallSiteAt(t, caller, r.path, r.line)
               restore(i) == CallSiteAt(t, caller, i.path, i.restore)
               guards == Attached(t, sources.guards, p, caller)
               transitions == Attached(t, sources.identities, p, caller)
               restored == {i \in transitions : i.paired /\ restore(i) # NoMethod}
               gone == EdgesFrom(t, site, {"GUARDED_BY", "IDENTITY_CLEARED_BY",
                                           "IDENTITY_RESTORED_BY"})
               ends == {GraphEdge("TRACE_ENTRY", row.id, LogicalMethod(h, p.entry)),
                        GraphEdge("TRACE_SINK", row.id, site)}
               guardEdges == {GraphEdge("GUARDED_BY", site, at(g)) : g \in guards}
               clearEdges == {GraphEdge("IDENTITY_CLEARED_BY", site, at(i)) : i \in transitions}
               restoreEdges == {GraphEdge("IDENTITY_RESTORED_BY", site, restore(i)) :
                                  i \in restored}
    <2>1. u.edges = (t.edges \ gone) \cup ends \cup guardEdges \cup clearEdges \cup restoreEdges
      BY DEF Tables, Fields, WriteTrace, TraceRow
    <2>2. restored = Restored(h, w, p) BY <1>2, <1>3
    <2>3. \A i : GraphEdge("IDENTITY_RESTORED_BY", site, restore(i)) = RestoredEdge(h, p, i)
      BY <1>2 DEF RestoredEdge, RestoredBy
    <2>4. restoreEdges = {RestoredEdge(h, p, i) : i \in Restored(h, w, p)} BY <2>2, <2>3
    <2>5. guards = Guards(h, w, p) /\ transitions = Transitions(h, w, p) BY <1>2
    <2> HIDE DEF gone, ends, restoreEdges, guards, transitions, u, w
    <2> QED BY <2>1, <2>4, <2>5 DEF gone, ends
  <1> HIDE DEF u, w, site
  <1>7. \A e : e.type = RestoredBy =>
          (e \in u.edges <=> \/ e \in t.edges /\ e.from # site
                           \/ \E i \in Restored(h, w, p) : e = RestoredEdge(h, p, i))
    BY <1>6 DEF EdgesFrom, GraphEdge, RestoredBy
  <1>8. \A q, i : RestoredEdge(h, q, i).type = RestoredBy
                 /\ RestoredEdge(h, q, i).from = SinkSite(h, q)
    BY DEF RestoredEdge, GraphEdge
  <1>9. p \in w.paths /\ Traced(h, p) /\ row \in u.traces /\ Decoded(w) /\ FlowsWritten(h, w, t)
    BY <1>5 DEF Upsert, w
  <1>10. PathsAsWritten(h, w, u) BY <1>4, <1>9 DEF FlowsWritten, PathsAsWritten
  <1>11. TracesAsWritten(h, w, u)
    <2> SUFFICES ASSUME NEW r \in u.traces
                 PROVE  \E q \in w.paths :
                           /\ Traced(h, q) /\ r = TraceRow(h, w, q)
                           /\ \A i \in Restored(h, w, q) : RestoredEdge(h, q, i) \in u.edges
      BY DEF TracesAsWritten
    <2>1. CASE r = row BY <2>1, <1>7, <1>8, <1>9
    <2>2. CASE r \in t.traces
      <3>1. PICK q \in w.paths :
              /\ Traced(h, q) /\ r = TraceRow(h, w, q)
              /\ \A i \in Restored(h, w, q) : RestoredEdge(h, q, i) \in t.edges
        BY <2>2, <1>9 DEF FlowsWritten, TracesAsWritten
      <3>2. CASE SinkSite(h, q) # site BY <3>1, <3>2, <1>7, <1>8
      <3>3. CASE SinkSite(h, q) = site
        <4>1. SinkSite(h, p) # NoMethod BY <1>9 DEF Traced
        <4>2. /\ Restored(h, w, q) = Restored(h, w, p)
              /\ \A i : RestoredEdge(h, q, i) = RestoredEdge(h, p, i)
          BY <3>3, <4>1, OneSite DEF site
        <4> QED BY <3>1, <4>2, <1>7, <1>8
      <3> QED BY <3>2, <3>3
    <2> QED BY <2>1, <2>2, <1>5 DEF Upsert
  <1>12. RestoredAsWritten(h, w, u)
    <2> SUFFICES ASSUME NEW e \in u.edges, e.type = RestoredBy
                 PROVE  \E q \in w.paths :
                           /\ Traced(h, q) /\ TraceRow(h, w, q) \in u.traces
                           /\ Restored(h, w, q) # {}
      BY DEF RestoredAsWritten
    <2>1. CASE \E i \in Restored(h, w, p) : e = RestoredEdge(h, p, i) BY <2>1, <1>9
    <2>2. CASE e \in t.edges
      <3>1. PICK q \in w.paths :
              /\ Traced(h, q) /\ TraceRow(h, w, q) \in t.traces
              /\ Restored(h, w, q) # {}
        BY <2>2, <1>9 DEF FlowsWritten, RestoredAsWritten
      <3>2. CASE TraceRow(h, w, q).id # row.id BY <3>1, <3>2, <1>5 DEF Upsert
      <3>3. CASE TraceRow(h, w, q).id = row.id
        <4>1. q.name = p.name BY <3>3 DEF TraceRow, PathId
        <4>2. q = p BY <3>1, <4>1, <1>9 DEF Decoded
        <4> QED BY <3>1, <4>2, <1>9
      <3> QED BY <3>2, <3>3
    <2> QED BY <2>1, <2>2, <1>7
  <1> QED BY <1>10, <1>11, <1>12 DEF FlowsWritten, u, w, site

LEMMA StepsOf ==
  ASSUME NEW w, Decoded(w), NEW p \in w.paths
  PROVE  /\ Len(p.locations) \in Nat /\ DOMAIN Steps(p) = 1..Len(p.locations)
         /\ Len(Steps(p)) = Len(p.locations)
  <1> PICK k : k = Len(p.locations) OBVIOUS
  <1>1. p.locations \in Seq(ToSet(p.locations)) BY DEF Decoded
  <1>2. k \in Nat /\ DOMAIN p.locations = 1..k BY <1>1
  <1>3. DOMAIN Steps(p) = 1..k /\ Steps(p) = [i \in 1..k |-> Steps(p)[i]] BY <1>2 DEF Steps
  <1> PICK S : S = {Steps(p)[i] : i \in 1..k} OBVIOUS
  <1>4. Steps(p) \in [1..k -> S] BY <1>3
  <1>5. Steps(p) \in Seq(S) BY <1>2, <1>4
  <1>6. Len(Steps(p)) = k BY <1>2, <1>3, <1>5
  <1> QED BY <1>2, <1>3, <1>6

LEMMA FlowWritten ==
  ASSUME NEW h, NEW t, NEW p \in sources.paths, Decoded(sources), Tables(t), Over(h, t),
         Apart(h), FlowsWritten(h, sources, t), Len(p.locations) >= 2
  PROVE  FlowsWritten(h, sources, WriteFlow(t, p))
  <1> DEFINE written == WriteValues(t, p)
             n == Len(Steps(p))
  <1>1. n \in Nat /\ n >= 1 /\ DOMAIN Steps(p) = 1..n
    BY StepsOf
  <1>2. /\ LogicalMethod(t, p.entry) = LogicalMethod(h, p.entry)
        /\ LogicalMethod(t, Last(Steps(p)).key) = SinkCaller(h, p)
        /\ Owned(t, p) = Owned(h, p)
        /\ CallSiteAt(t, SinkCaller(h, p), Last(Steps(p)).path, Last(Steps(p)).line) =
             SinkSite(h, p)
    BY OverSame DEF SinkCaller, SinkSite
  <1>3. Tables(written) /\ SameCalls(written, t) /\ FlowsWritten(h, sources, written)
    BY ValuesFrame, ValuesKeepFlows
  <1>4. Over(h, written) BY <1>3 DEF SameCalls, Over
  <1>5. ASSUME LogicalMethod(h, p.entry) # NoMethod, ~(Cardinality(Owned(t, p)) < n)
        PROVE  Whole(h, p)
    <2>1. Owned(h, p) \in SUBSET (1..n) BY <1>1 DEF Owned
    <2>2. IsFiniteSet(1..n) /\ Cardinality(1..n) = n BY <1>1, FS_Interval
    <2>3. /\ IsFiniteSet(Owned(h, p)) /\ Cardinality(Owned(h, p)) <= n
          /\ Cardinality(1..n) = Cardinality(Owned(h, p)) => 1..n = Owned(h, p)
      BY <2>1, <2>2, FS_Subset
    <2>4. Cardinality(Owned(h, p)) \in Nat BY <2>3, FS_CardinalityType
    <2>5. Owned(h, p) = 1..n BY <1>1, <1>2, <1>5, <2>2, <2>3, <2>4
    <2> QED BY <1>1, <1>5, <2>5 DEF Whole
  <1>6. ASSUME Whole(h, p)
        PROVE  /\ FlowsWritten(h, sources, WritePath(written, p))
               /\ Tables(WritePath(written, p)) /\ Over(h, WritePath(written, p))
    <2>1. FlowsWritten(h, sources, WritePath(written, p)) BY <1>3, <1>4, <1>6, PathWritten
    <2>2. Tables(WritePath(written, p)) /\ SameCalls(WritePath(written, p), written)
      BY <1>3, PathFrame
    <2> QED BY <2>1, <2>2, <1>4 DEF SameCalls, Over
  <1>7. ASSUME Whole(h, p), SinkSite(h, p) # NoMethod
        PROVE  FlowsWritten(h, sources, WriteTrace(WritePath(written, p), p,
                 LogicalMethod(h, p.entry), SinkCaller(h, p), SinkSite(h, p)))
    BY <1>6, <1>7, TraceWritten DEF Traced
  <1> HIDE DEF n
  <1> QED BY <1>2, <1>3, <1>5, <1>6, <1>7 DEF WriteFlow, n

-----------------------------------------------------------------------------
(* The validator on what is written. *)
LEMMA PathsAccepted ==
  ASSUME NEW h, Decoded(sources), PathsAsWritten(h, sources, db)
  PROVE  PathsWhole
  <1> SUFFICES ASSUME NEW r \in db.paths
               PROVE  /\ r.steps # <<>> /\ Len(r.steps) = r.count
                      /\ r.steps[1] = r.source /\ Last(r.steps) = r.sink
    BY DEF PathsWhole
  <1>1. PICK p \in sources.paths : Whole(h, p) /\ r = PathRow(h, p) BY DEF PathsAsWritten
  <1> PICK n : n = Len(Steps(p)) OBVIOUS
  <1>2. n \in Nat /\ n >= 1 /\ Owned(h, p) = 1..n BY <1>1, StepsOf DEF Whole
  <1> PICK v : v = Values(h, p) OBVIOUS
  <1>3. v = [i \in 1..n |-> v[i]] BY <1>2 DEF Values
  <1> PICK S : S = {v[i] : i \in 1..n} OBVIOUS
  <1>4. v \in [1..n -> S] BY <1>3
  <1>5. v \in Seq(S) /\ Len(v) = n BY <1>2, <1>3, <1>4
  <1>6. r.steps = v /\ r.count = n /\ r.source = v[1] /\ r.sink = v[n]
    BY <1>1 DEF PathRow
  <1> QED BY <1>2, <1>5, <1>6 DEF Last

(* A kind of steps has as many as there are things it is a step of. *)
LEMMA OfKind ==
  ASSUME NEW kind, NEW S, IsFiniteSet(S)
  PROVE  /\ IsFiniteSet({<<kind, x>> : x \in S})
         /\ Cardinality({<<kind, x>> : x \in S}) = Cardinality(S)
  <1> DEFINE T == {<<kind, x>> : x \in S}
             f == [x \in S |-> <<kind, x>>]
  <1>1. f \in Bijection(S, T) BY DEF Bijection, Injection, Surjection, IsInjective
  <1>2. ExistsBijection(S, T) BY <1>1 DEF ExistsBijection
  <1> QED BY <1>2, FS_Bijection

LEMMA TraceKinds ==
  ASSUME NEW h, NEW w, Decoded(w), NEW p
  PROVE  LET row == TraceRow(h, w, p)
             all == Cardinality(Transitions(h, w, p))
             some == Cardinality(Restored(h, w, p))
         IN /\ all \in Nat /\ some \in Nat /\ (some = 0 <=> Restored(h, w, p) = {})
            /\ Kinds(row, {"guard"}) = row.guards /\ row.transitions = all
            /\ Kinds(row, {"identity_clear"}) = all
            /\ Kinds(row, {"identity_restore"}) = some
            /\ Kinds(row, {"identity_clear", "identity_restore"}) = all + some
  <1> DEFINE row == TraceRow(h, w, p)
             Of(kind, S) == {<<kind, x>> : x \in S}
             guards == Guards(h, w, p)
             transitions == Transitions(h, w, p)
             restored == Restored(h, w, p)
             clears == Of("identity_clear", transitions)
             restores == Of("identity_restore", restored)
  <1>1. IsFiniteSet(guards) /\ IsFiniteSet(transitions) /\ IsFiniteSet(restored)
    <2>1. /\ guards \in SUBSET w.guards /\ transitions \in SUBSET w.identities
          /\ restored \in SUBSET transitions
      BY DEF Guards, Transitions, Restored, Attached
    <2>2. IsFiniteSet(w.guards) /\ IsFiniteSet(w.identities) BY DEF Decoded
    <2> HIDE DEF guards, transitions, restored
    <2>3. IsFiniteSet(guards) /\ IsFiniteSet(transitions) BY <2>1, <2>2, FS_Subset
    <2> QED BY <2>1, <2>3, FS_Subset
  <1>2. row.steps = {<<"call_site", SinkSite(h, p)>>, <<"dataflow_path", PathId(p)>>} \cup
                      Of("guard", guards) \cup clears \cup restores
    BY DEF TraceRow, TraceSteps
  <1>3. row.guards = Cardinality(guards) /\ row.transitions = Cardinality(transitions)
    BY DEF TraceRow
  <1> HIDE DEF row, guards, transitions, restored
  <1>4. /\ {s \in row.steps : s[1] \in {"guard"}} = Of("guard", guards)
        /\ {s \in row.steps : s[1] \in {"identity_clear"}} = clears
        /\ {s \in row.steps : s[1] \in {"identity_restore"}} = restores
        /\ {s \in row.steps : s[1] \in {"identity_clear", "identity_restore"}} =
             clears \cup restores
    BY <1>2
  <1>5. clears \cap restores = {} OBVIOUS
  <1>6. /\ Cardinality(Of("guard", guards)) = Cardinality(guards)
        /\ IsFiniteSet(clears) /\ Cardinality(clears) = Cardinality(transitions)
        /\ IsFiniteSet(restores) /\ Cardinality(restores) = Cardinality(restored)
    BY <1>1, OfKind
  <1>7. Cardinality(transitions) \in Nat /\ Cardinality(restored) \in Nat
    BY <1>1, FS_CardinalityType
  <1>8. Cardinality(clears \cup restores) = Cardinality(transitions) + Cardinality(restored)
    <2> HIDE DEF clears, restores
    <2>1. Cardinality(clears \cup restores) =
            Cardinality(clears) + Cardinality(restores) - Cardinality(clears \cap restores)
      BY <1>6, FS_Union
    <2> QED BY <2>1, <1>5, <1>6, <1>7, FS_EmptySet
  <1>9. Cardinality(restored) = 0 <=> restored = {} BY <1>1, FS_EmptySet
  <1> HIDE DEF clears, restores, Of
  <1>10. /\ Kinds(row, {"guard"}) = Cardinality(guards)
         /\ Kinds(row, {"identity_clear"}) = Cardinality(transitions)
         /\ Kinds(row, {"identity_restore"}) = Cardinality(restored)
         /\ Kinds(row, {"identity_clear", "identity_restore"}) =
              Cardinality(transitions) + Cardinality(restored)
    BY <1>4, <1>6, <1>8 DEF Kinds
  <1> QED BY <1>3, <1>7, <1>9, <1>10 DEF row, guards, transitions, restored

LEMMA TracesAccepted ==
  ASSUME NEW h, Decoded(sources), FlowsWritten(h, sources, db)
  PROVE  TracesConsistent <=> ~TransitionsPaired
  <1>1. ASSUME TracesConsistent PROVE ~TransitionsPaired
    <2>1. ASSUME NEW e \in db.edges, e.type = "IDENTITY_RESTORED_BY" PROVE FALSE
      <3>1. PICK p \in sources.paths :
              /\ Traced(h, p) /\ TraceRow(h, sources, p) \in db.traces
              /\ Restored(h, sources, p) # {}
        BY <2>1 DEF FlowsWritten, RestoredAsWritten, RestoredBy
      <3>2. Kinds(TraceRow(h, sources, p), {"identity_clear", "identity_restore"}) =
              TraceRow(h, sources, p).transitions
        BY <1>1, <3>1 DEF TracesConsistent
      <3> QED BY <3>1, <3>2, TraceKinds
    <2>2. ASSUME NEW r \in db.traces, r.transitions > 0, r.status # "identity_unpaired"
          PROVE  FALSE
      <3>1. PICK p \in sources.paths : r = TraceRow(h, sources, p) BY DEF FlowsWritten, TracesAsWritten
      <3>2. /\ Kinds(r, {"identity_clear", "identity_restore"}) = r.transitions
            /\ Kinds(r, {"identity_clear"}) = Kinds(r, {"identity_restore"})
        BY <1>1, <2>2 DEF TracesConsistent
      <3> QED BY <2>2, <3>1, <3>2, TraceKinds
    <2> QED BY <2>1, <2>2 DEF TransitionsPaired
  <1>2. ASSUME ~TransitionsPaired PROVE TracesConsistent
    <2> SUFFICES ASSUME NEW r \in db.traces
                 PROVE  /\ Kinds(r, {"guard"}) = r.guards
                        /\ Kinds(r, {"identity_clear", "identity_restore"}) = r.transitions
                        /\ \/ r.status = "identity_unpaired"
                           \/ Kinds(r, {"identity_clear"}) = Kinds(r, {"identity_restore"})
      BY DEF TracesConsistent
    <2>1. PICK p \in sources.paths :
            /\ r = TraceRow(h, sources, p)
            /\ \A i \in Restored(h, sources, p) : RestoredEdge(h, p, i) \in db.edges
      BY DEF FlowsWritten, TracesAsWritten
    <2>2. Restored(h, sources, p) = {}
      BY <1>2, <2>1 DEF TransitionsPaired, RestoredEdge, GraphEdge, RestoredBy
    <2>3. ~(r.transitions > 0) \/ r.status = "identity_unpaired"
      BY <1>2 DEF TransitionsPaired
    <2> QED BY <2>1, <2>2, <2>3, TraceKinds
  <1> QED BY <1>1, <1>2

(* While the methods stay the same every site is one that is written now.    *)
LEMMA SitesNow ==
  ASSUME SeparateWorlds, WorldInv, NEW t, SitesMeant(t), CallsWritten(t, Sites),
         methods = sources.methods
  PROVE  t.sites = Here.sites /\ SitesCalled(t)
  <1>1. ASSUME NEW s \in t.sites PROVE \E c \in Sites : SiteOfCall(t, s, c)
    <2>1. PICK c \in Sites : s.id = CallSiteId(c) /\ Meant(c.caller, s.caller)
      BY DEF SitesMeant
    <2>2. Resolved(c.caller) BY <2>1 DEF Meant
    <2>3. Written(t, c) BY <2>1, <2>2 DEF CallsWritten
    <2>4. s = SiteRow(c) BY <2>1, <2>3 DEF Written
    <2>5. \A x : x \in t.targets /\ x.site = s.id <=> \E m \in Accepted(c) : x = TargetOf(c, m)
      BY <2>1, <2>3 DEF Written, TargetOf
    <2> QED BY <2>1, <2>2, <2>4, <2>5 DEF SiteOfCall
  <1>2. ASSUME NEW c \in Sites, Resolved(c.caller) PROVE SiteRow(c) \in t.sites
    BY <1>2 DEF CallsWritten, Written
  <1>3. \A s \in t.sites : \E c \in Sites : Resolved(c.caller) /\ s = SiteRow(c)
    BY <1>1 DEF SiteOfCall
  <1>4. t.sites = Here.sites BY <1>2, <1>3 DEF Here
  <1> QED BY <1>1, <1>4 DEF SitesCalled

LEMMA HereApart == ASSUME SeparateWorlds, WorldInv PROVE Apart(Here)
  <1>1. \A c, d \in Sites : CallSiteId(c) = CallSiteId(d) => c = d
    BY DEF SeparateWorlds, WorldInv, Sites
  <1>2. \A c : SiteRow(c).id = CallSiteId(c) BY DEF SiteRow
  <1> QED BY <1>1, <1>2 DEF Apart, Here

(* The method that a key is resolved to is the one a definition was found to be. *)
LEMMA ResolvedRow ==
  ASSUME SeparateWorlds, WorldInv, DefinitionsOf(db), NEW key, Resolved(key)
  PROVE  TheMethod(ResolveSymbol(key)) \in UniqueMethods
  <1> DEFINE results == {Reconcile(d) : d \in {x \in sources.definitions : x.key = key}}
             ids == UNION {r.ids : r \in results}
  <1>1. (\A r \in results : r.status = "unique") /\ ResolveSymbol(key).ids = ids
    BY DEF Resolved, ResolveSymbol
  <1>2. PICK m \in methods : /\ ResolveSymbol(key).ids = {m.id}
                             /\ TheMethod(ResolveSymbol(key)) = m.id
                             /\ \E d \in sources.definitions : d.key = key
    BY ResolvedKey
  <1>3. PICK d \in sources.definitions : d.key = key BY <1>2
  <1>4. Reconcile(d) \in results BY <1>3
  <1>5. Reconcile(d).status = "unique" /\ Reconcile(d).ids \subseteq ids BY <1>1, <1>4
  <1>6. PICK n \in methods : Reconcile(d).ids = {n.id} /\ TheMethod(Reconcile(d)) = n.id
    BY <1>5, UniqueMethod
  <1> HIDE DEF ids
  <1>7. n.id = m.id BY <1>1, <1>2, <1>5, <1>6
  <1>8. /\ DefinitionRow(d) \in db.defs /\ DefinitionRow(d).status = "unique"
        /\ DefinitionRow(d).logical = m.id
    BY <1>3, <1>5, <1>6, <1>7 DEF DefinitionsOf, DefinitionRow
  <1> QED BY <1>2, <1>8 DEF UniqueMethods

LEMMA AcceptedCallees ==
  ASSUME NEW c, SiteStatus(c) = "resolved"
  PROVE  /\ \A k \in c.callees : Resolved(k)
         /\ Accepted(c) = UNION {ResolveSymbol(k).ids : k \in c.callees}
         /\ c.relation # "unresolved"
  BY DEF SiteStatus, Resolved, Accepted

LEMMA EndpointsAccepted ==
  ASSUME SeparateWorlds, WorldInv, DefinitionsOf(db), SitesMeant(db),
         CallsWritten(db, Sites), methods = sources.methods
  PROVE  EndpointsUnique
  <1> SUFFICES ASSUME NEW s \in db.sites, s.status = "resolved", NEW x \in TargetsOf(s)
               PROVE  s.caller \in UniqueMethods /\ x.callee \in UniqueMethods
    BY DEF EndpointsUnique
  <1>0. SitesCalled(db) BY SitesNow
  <1>1. PICK c \in Sites :
          /\ Resolved(c.caller) /\ s = SiteRow(c)
          /\ \A y : y \in db.targets /\ y.site = s.id <=>
                    \E m \in Accepted(c) : y = TargetOf(c, m)
    BY <1>0 DEF SitesCalled, SiteOfCall
  <1>2. s.caller \in UniqueMethods BY <1>1, ResolvedRow DEF SiteRow
  <1>3. SiteStatus(c) = "resolved" BY <1>1 DEF SiteRow
  <1>4. PICK m \in Accepted(c) : x = TargetOf(c, m) BY <1>1 DEF TargetsOf
  <1>5. PICK k \in c.callees : m \in ResolveSymbol(k).ids /\ Resolved(k)
    BY <1>3, <1>4, AcceptedCallees
  <1>6. m = TheMethod(ResolveSymbol(k)) BY <1>5, ResolvedKey
  <1>7. x.callee \in UniqueMethods BY <1>4, <1>5, <1>6, ResolvedRow DEF TargetOf
  <1> QED BY <1>2, <1>7

(* Two callees of one method are what makes the targets fewer than counted.  *)
LEMMA TargetsCounted ==
  ASSUME SeparateWorlds, WorldInv, NEW c \in Sites, Decoded(sources), WellFormed(c),
         SiteStatus(c) = "resolved"
  PROVE  /\ IsFiniteSet(Accepted(c)) /\ c.count > 0
         /\ Cardinality(Accepted(c)) = c.count <=>
              \A k, l \in c.callees : ResolveSymbol(k).ids = ResolveSymbol(l).ids => k = l
  <1> DEFINE f == [k \in c.callees |-> TheMethod(ResolveSymbol(k))]
  <1>1. \A k \in c.callees : Resolved(k) BY AcceptedCallees
  <1>2. \A k \in c.callees : ResolveSymbol(k).ids = {f[k]}
    BY <1>1, ResolvedKey
  <1>3. \A m : m \in Accepted(c) <=> \E k \in c.callees : m = f[k]
    <2>1. \A m : m \in Accepted(c) <=> \E k \in c.callees : m \in ResolveSymbol(k).ids
      BY AcceptedCallees
    <2> HIDE DEF f
    <2> QED BY <2>1, <1>2
  <1>4. f \in Surjection(c.callees, Accepted(c)) BY <1>3 DEF Surjection
  <1>5. f \in Injection(c.callees, Accepted(c)) <=>
          \A k, l \in c.callees : f[k] = f[l] => k = l
    BY <1>4 DEF Surjection, Injection, IsInjective
  <1>6. IsFiniteSet(c.callees)
    <2> DEFINE Alike(x, r) == [x EXCEPT !.callee = ""] = [r EXCEPT !.callee = ""]
               Names(r) == {s.callee : s \in {x \in sources.rows : Alike(x, r)}} \ {""}
               all == {s.callee : s \in sources.rows}
               g == [s \in sources.rows |-> s.callee]
    <2>1. PICK r \in sources.rows : c.callees = Names(r)
      <3>1. c \in {[caller |-> r.caller, relation |-> r.relation, count |-> r.count,
                   text |-> r.text, path |-> r.path, line |-> r.line,
                   column |-> r.column, end |-> r.end, callees |-> Names(r)] :
                     r \in sources.rows}
        BY DEF Sites, SitesOf
      <3> HIDE DEF Names
      <3> QED BY <3>1
    <2> HIDE DEF Alike
    <2>2. c.callees \in SUBSET all BY <2>1
    <2>3. g \in Surjection(sources.rows, all) BY DEF Surjection
    <2>4. IsFiniteSet(sources.rows) BY DEF Decoded
    <2> HIDE DEF all, g
    <2>5. IsFiniteSet(all) BY <2>3, <2>4, FS_Surjection
    <2> QED BY <2>2, <2>5, FS_Subset
  <1>7. c.count = Cardinality(c.callees) BY DEF WellFormed
  <1>8. c.count \in Nat /\ c.count > 0 BY AcceptedCallees DEF Decoded, Sites
  <1> HIDE DEF f
  <1>9. /\ IsFiniteSet(Accepted(c))
        /\ Cardinality(Accepted(c)) = Cardinality(c.callees) <=>
             f \in Injection(c.callees, Accepted(c))
    BY <1>4, <1>6, FS_Surjection
  <1>10. \A k, l \in c.callees :
           f[k] = f[l] <=> ResolveSymbol(k).ids = ResolveSymbol(l).ids
    BY <1>2
  <1> QED BY <1>5, <1>7, <1>8, <1>9, <1>10

LEMMA ClassifiedUnlessMerged ==
  ASSUME SeparateWorlds, WorldInv, Decoded(sources), SitesMeant(db),
         CallsWritten(db, Sites), methods = sources.methods, \A c \in Sites : WellFormed(c)
  PROVE  Classified <=> ~CalleesMerged
  <1>1. SitesCalled(db) BY SitesNow
  <1>2. ASSUME NEW s \in db.sites, NEW c \in Sites, s = SiteRow(c),
               \A y : y \in db.targets /\ y.site = s.id <=>
                     \E m \in Accepted(c) : y = TargetOf(c, m)
        PROVE  /\ TargetsOf(s) = {TargetOf(c, m) : m \in Accepted(c)}
               /\ s.status = SiteStatus(c) /\ s.count = c.count
               /\ SiteStatus(c) # "resolved" => TargetsOf(s) = {}
               /\ SiteStatus(c) = "resolved" =>
                    Cardinality(TargetsOf(s)) = Cardinality(Accepted(c))
    <2>1. TargetsOf(s) = {TargetOf(c, m) : m \in Accepted(c)} BY <1>2 DEF TargetsOf
    <2>2. s.status = SiteStatus(c) /\ s.count = c.count BY <1>2 DEF SiteRow
    <2>3. SiteStatus(c) # "resolved" => TargetsOf(s) = {} BY <2>1 DEF Accepted
    <2>4. ASSUME SiteStatus(c) = "resolved"
          PROVE  Cardinality(TargetsOf(s)) = Cardinality(Accepted(c))
      <3> DEFINE f == [m \in Accepted(c) |-> TargetOf(c, m)]
      <3>1. f \in Bijection(Accepted(c), TargetsOf(s))
        BY <2>1 DEF Bijection, Injection, Surjection, IsInjective, TargetOf
      <3>2. ExistsBijection(Accepted(c), TargetsOf(s)) BY <3>1 DEF ExistsBijection
      <3>3. IsFiniteSet(Accepted(c)) BY <2>4, TargetsCounted
      <3> QED BY <3>2, <3>3, FS_Bijection
    <2> QED BY <2>1, <2>2, <2>3, <2>4
  <1>3. ASSUME ~Classified PROVE CalleesMerged
    <2>1. PICK s \in db.sites :
            ~(CASE s.status = "resolved" ->
                   /\ s.count > 0 /\ Cardinality(TargetsOf(s)) = s.count
                   /\ (\E x \in TargetsOf(s) : x.relation = "must") => s.count = 1
              [] s.status = "ambiguous" -> s.count > 0 /\ TargetsOf(s) = {}
              [] OTHER -> TargetsOf(s) = {})
      BY <1>3 DEF Classified
    <2>2. PICK c \in Sites :
            /\ Resolved(c.caller) /\ s = SiteRow(c)
            /\ \A y : y \in db.targets /\ y.site = s.id <=>
                      \E m \in Accepted(c) : y = TargetOf(c, m)
      BY <1>1 DEF SitesCalled, SiteOfCall
    <2>3. /\ TargetsOf(s) = {TargetOf(c, m) : m \in Accepted(c)}
          /\ s.status = SiteStatus(c) /\ s.count = c.count
          /\ SiteStatus(c) # "resolved" => TargetsOf(s) = {}
          /\ SiteStatus(c) = "resolved" =>
               Cardinality(TargetsOf(s)) = Cardinality(Accepted(c))
      BY <1>2, <2>2
    <2>4. c.count \in Nat /\ (c.relation = "must" => c.count = 1)
      BY DEF Decoded, Sites
    <2>5. SiteStatus(c) = "ambiguous" => c.count > 0 BY DEF SiteStatus, Decoded, Sites
    <2>6. SiteStatus(c) = "resolved" BY <2>1, <2>3, <2>5
    <2>7. (\E x \in TargetsOf(s) : x.relation = "must") => c.count = 1
      BY <2>3, <2>4 DEF TargetOf
    <2>8. Cardinality(Accepted(c)) # c.count
      BY <2>1, <2>3, <2>6, <2>7, TargetsCounted
    <2>9. \E k, l \in c.callees : k # l /\ ResolveSymbol(k).ids = ResolveSymbol(l).ids
      BY <2>6, <2>8, TargetsCounted
    <2> QED BY <2>2, <2>6, <2>9 DEF CalleesMerged, Resolved
  <1>4. ASSUME Classified PROVE ~CalleesMerged
    <2> SUFFICES ASSUME NEW c \in Sites, Resolved(c.caller), SiteStatus(c) = "resolved",
                        NEW k \in c.callees, NEW l \in c.callees, k # l,
                        ResolveSymbol(k).ids = ResolveSymbol(l).ids
                 PROVE  FALSE
      BY DEF CalleesMerged, Resolved
    <2>1. PICK s \in db.sites : s = SiteRow(c) BY DEF CallsWritten, Written
    <2>2. \A y : y \in db.targets /\ y.site = s.id <=>
                \E m \in Accepted(c) : y = TargetOf(c, m)
      BY <2>1 DEF CallsWritten, Written, TargetOf, SiteRow
    <2>3. Cardinality(TargetsOf(s)) = Cardinality(Accepted(c)) /\ s.count = c.count
      BY <1>2, <2>1, <2>2
    <2>4. Cardinality(TargetsOf(s)) = s.count
      BY <1>4, <2>1 DEF Classified, SiteRow
    <2> QED BY <2>3, <2>4, TargetsCounted
  <1> QED BY <1>3, <1>4

(* The verdict, from what the import has written. *)
LEMMA VerdictExact ==
  ASSUME SeparateWorlds, WorldInv, SitesMeant(db), DefinitionsOf(db), CallsWritten(db, Sites),
         FlowsWritten(Here, sources, db), methods = sources.methods,
         \A c \in Sites : WellFormed(c), ValidateCalls
  PROVE  verdict' = "fail" <=> CalleesMerged \/ TransitionsPaired
  <1>1. Decoded(sources) BY SourcesAssumption DEF WorldInv
  <1>2. EndpointsUnique BY EndpointsAccepted
  <1>3. PathsWhole BY <1>1, PathsAccepted DEF FlowsWritten
  <1>4. TracesConsistent <=> ~TransitionsPaired BY <1>1, TracesAccepted
  <1>5. Classified <=> ~CalleesMerged BY <1>1, ClassifiedUnlessMerged
  <1>6. verdict' = IF EndpointsUnique /\ Classified /\ PathsWhole /\ TracesConsistent
                     THEN "pass" ELSE "fail"
    BY DEF ValidateCalls
  <1> QED BY <1>2, <1>3, <1>4, <1>5, <1>6

-----------------------------------------------------------------------------
(* What the import is given, and what its tables hold of the flows, while    *)
(* nothing is added to the graph.                                            *)
WholeRecords ==
  (\A c \in Sites : WellFormed(c)) /\ \A p \in sources.paths : Len(p.locations) >= 2
FlowsHere(t) == FlowsWritten(Here, sources, t)

WrittenInv ==
  methods = sources.methods =>
    /\ callStep \notin {"idle", "failed"} => WholeRecords
    /\ FlowsHere(db)
    /\ callStep \in {"calls", "flows"} => FlowsHere(tx)
    /\ callStep = "flows" => queue \subseteq sources.paths

WInv == CInv /\ WrittenInv /\ WrittenAsValidated

LEMMA EmptyFlows == FlowsHere(Empty)
  BY DEF FlowsHere, FlowsWritten, PathsAsWritten, TracesAsWritten, RestoredAsWritten, Empty

LEMMA StillWritten ==
  ASSUME UNCHANGED <<sources, methods>>
  PROVE  /\ WholeRecords' = WholeRecords /\ CalleesMerged' = CalleesMerged
         /\ \A t : FlowsHere(t)' = FlowsHere(t)
  <1>1. Here' = Here
    <2>1. {DefinitionRow(d) : d \in sources.definitions}' =
            {DefinitionRow(d) : d \in sources.definitions}
      BY Same
    <2>2. {SiteRow(c) : c \in {x \in Sites : Resolved(x.caller)}}' =
            {SiteRow(c) : c \in {x \in Sites : Resolved(x.caller)}}
      BY Same
    <2> QED BY <2>1, <2>2 DEF Here
  <1>2. WholeRecords' = WholeRecords BY Same DEF WholeRecords, WellFormed
  <1>3. \A c : SiteStatus(c)' = SiteStatus(c) BY SameResolve DEF SiteStatus
  <1>4. CalleesMerged' = CalleesMerged BY <1>3, Same DEF CalleesMerged
  <1>5. \A t : FlowsHere(t)' = FlowsHere(t) BY <1>1 DEF FlowsHere
  <1> QED BY <1>2, <1>4, <1>5

LEMMA WInitInv == ASSUME CallsInit PROVE WInv
  <1>1. FlowsHere(db) BY EmptyFlows DEF CallsInit
  <1> QED BY <1>1, InitInv DEF CallsInit, WInv, WrittenInv, WrittenAsValidated

(* No verdict is given by another step than the validation. *)
LEMMA NoVerdict == ASSUME verdict' = "none" PROVE WrittenAsValidated'
  BY DEF WrittenAsValidated

LEMMA LoadWritten == ASSUME WInv, Load PROVE WrittenInv' /\ WrittenAsValidated'
  <1>1. /\ UNCHANGED <<sources, methods, db>> /\ verdict' = "none"
        /\ callStep' = IF WholeRecords THEN "run" ELSE "failed"
    BY DEF Load, WholeRecords
  <1>2. /\ WholeRecords' = WholeRecords /\ FlowsHere(db)' = FlowsHere(db)
    BY <1>1, StillWritten DEF FlowsHere
  <1>3. WrittenInv' BY <1>1, <1>2 DEF WInv, WrittenInv
  <1> QED BY <1>1, <1>3, NoVerdict

LEMMA InsertRunWritten == ASSUME WInv, InsertRun PROVE WrittenInv' /\ WrittenAsValidated'
  <1> DEFINE t == [db EXCEPT !.run = "running"]
             u == BeginTables(t)
  <1>1. /\ UNCHANGED <<sources, methods>> /\ db' = t /\ tx' = u /\ callStep = "run"
        /\ callStep' = "calls" /\ verdict' = "none"
    BY DEF InsertRun, WInv, CInv, VerdictInv
  <1>2. /\ t.paths = db.paths /\ t.traces = db.traces /\ t.edges = db.edges
        /\ u.paths = db.paths /\ u.traces = db.traces /\ u.edges = db.edges
    BY DEF WInv, CInv, WorldInv, Tables, Fields, BeginTables
  <1> HIDE DEF t, u
  <1>3. FlowsHere(db) => FlowsHere(t) /\ FlowsHere(u) BY <1>2, OtherRows DEF FlowsHere
  <1>4. /\ WholeRecords' = WholeRecords /\ FlowsHere(db)' = FlowsHere(t)
        /\ FlowsHere(tx)' = FlowsHere(u)
    BY <1>1, StillWritten DEF FlowsHere
  <1>5. WrittenInv' BY <1>1, <1>3, <1>4 DEF WInv, WrittenInv
  <1> QED BY <1>1, <1>5, NoVerdict

LEMMA MaterializeCallWritten ==
  ASSUME WInv, NEW c \in queue, MaterializeCall(c)
  PROVE  WrittenInv' /\ WrittenAsValidated'
  <1> DEFINE u == WriteSite(tx, c, TheMethod(ResolveSymbol(c.caller)))
  <1>1. /\ UNCHANGED <<sources, methods, db, callStep>> /\ callStep = "calls"
        /\ verdict' = "none" /\ tx' \in {u, tx}
    BY DEF MaterializeCall, WInv, CInv, VerdictInv
  <1>2. FlowsHere(tx) => FlowsHere(u)
    BY SiteKeepsFlows DEF FlowsHere, WInv, CInv, WorldInv
  <1> HIDE DEF u
  <1>3. /\ WholeRecords' = WholeRecords /\ FlowsHere(db)' = FlowsHere(db)
        /\ FlowsHere(tx)' = FlowsHere(u) \/ FlowsHere(tx)' = FlowsHere(tx)
    BY <1>1, StillWritten DEF FlowsHere
  <1>4. WrittenInv' BY <1>1, <1>2, <1>3 DEF WInv, WrittenInv
  <1> QED BY <1>1, <1>4, NoVerdict

LEMMA CommitCallsWritten == ASSUME WInv, CommitCalls PROVE WrittenInv' /\ WrittenAsValidated'
  <1> DEFINE t == [tx EXCEPT !.calls = @ \cup projected]
  <1>1. /\ UNCHANGED <<sources, methods>> /\ callStep = "calls" /\ db' = t /\ tx' = t
        /\ queue' = sources.paths /\ callStep' = "flows" /\ verdict' = "none"
    BY DEF CommitCalls, WInv, CInv, VerdictInv
  <1>2. t.paths = tx.paths /\ t.traces = tx.traces /\ t.edges = tx.edges
    BY DEF WInv, CInv, WorldInv, Tables, Fields
  <1> HIDE DEF t
  <1>3. FlowsHere(tx) => FlowsHere(t) BY <1>2, OtherRows DEF FlowsHere
  <1>4. /\ WholeRecords' = WholeRecords /\ FlowsHere(db)' = FlowsHere(t)
        /\ FlowsHere(tx)' = FlowsHere(t)
    BY <1>1, StillWritten DEF FlowsHere
  <1>5. WrittenInv' BY <1>1, <1>3, <1>4 DEF WInv, WrittenInv
  <1> QED BY <1>1, <1>5, NoVerdict

LEMMA MaterializeFlowWritten ==
  ASSUME SeparateWorlds, WInv, NEW p \in queue, MaterializeFlow(p)
  PROVE  WrittenInv' /\ WrittenAsValidated'
  <1>1. /\ UNCHANGED <<sources, methods, db, callStep>> /\ callStep = "flows"
        /\ verdict' = "none" /\ tx' = WriteFlow(tx, p) /\ queue' \subseteq queue
    BY DEF MaterializeFlow, WInv, CInv, VerdictInv
  <1>2. /\ WorldInv /\ SitesMeant(db) /\ DefinitionsOf(db) /\ CallsWritten(db, Sites)
        /\ SameCalls(tx, db)
    BY <1>1 DEF WInv, CInv, FlowsInv
  <1>3. ASSUME methods = sources.methods
        PROVE  FlowsHere(WriteFlow(tx, p))
    <2>1. db.sites = Here.sites BY <1>2, <1>3, SitesNow
    <2>2. Over(Here, tx) BY <1>2, <2>1 DEF Over, SameCalls, DefinitionsOf, Here
    <2>3. Decoded(sources) /\ Tables(tx)
      BY <1>2, SourcesAssumption DEF WorldInv
    <2>4. p \in sources.paths /\ FlowsHere(tx) /\ Len(p.locations) >= 2
      BY <1>1, <1>3 DEF WInv, WrittenInv, WholeRecords
    <2> QED BY <1>2, <2>2, <2>3, <2>4, HereApart, FlowWritten DEF FlowsHere
  <1>4. /\ WholeRecords' = WholeRecords /\ FlowsHere(db)' = FlowsHere(db)
        /\ FlowsHere(tx)' = FlowsHere(WriteFlow(tx, p))
    BY <1>1, StillWritten DEF FlowsHere
  <1>5. WrittenInv' BY <1>1, <1>3, <1>4 DEF WInv, WrittenInv
  <1> QED BY <1>1, <1>5, NoVerdict

LEMMA CommitFlowsWritten == ASSUME WInv, CommitFlows PROVE WrittenInv' /\ WrittenAsValidated'
  <1>1. /\ UNCHANGED <<sources, methods, tx>> /\ callStep = "flows" /\ db' = tx
        /\ callStep' = "closing" /\ verdict' = "none"
    BY DEF CommitFlows, WInv, CInv, VerdictInv
  <1>2. WholeRecords' = WholeRecords /\ FlowsHere(db)' = FlowsHere(tx)
    BY <1>1, StillWritten DEF FlowsHere
  <1>3. WrittenInv' BY <1>1, <1>2 DEF WInv, WrittenInv
  <1> QED BY <1>1, <1>3, NoVerdict

LEMMA CompleteWritten == ASSUME WInv, Complete PROVE WrittenInv' /\ WrittenAsValidated'
  <1> DEFINE t == [db EXCEPT !.run = "complete"]
  <1>1. /\ UNCHANGED <<sources, methods>> /\ callStep = "closing" /\ db' = t
        /\ callStep' = "validate" /\ verdict' = "none"
    BY DEF Complete, WInv, CInv, VerdictInv
  <1>2. t.paths = db.paths /\ t.traces = db.traces /\ t.edges = db.edges
    BY DEF WInv, CInv, WorldInv, Tables, Fields
  <1> HIDE DEF t
  <1>3. FlowsHere(db) => FlowsHere(t) BY <1>2, OtherRows DEF FlowsHere
  <1>4. WholeRecords' = WholeRecords /\ FlowsHere(db)' = FlowsHere(t)
    BY <1>1, StillWritten DEF FlowsHere
  <1>5. WrittenInv' BY <1>1, <1>3, <1>4 DEF WInv, WrittenInv
  <1> QED BY <1>1, <1>5, NoVerdict

(* An import that was begun after the methods appeared says nothing here.    *)
LEMMA ValidateWritten ==
  ASSUME SeparateWorlds, WInv, ValidateCalls PROVE WrittenInv' /\ WrittenAsValidated'
  <1>1. /\ UNCHANGED <<sources, methods, db>> /\ callStep = "validate" /\ callStep' = "idle"
    BY DEF ValidateCalls
  <1>2. /\ WholeRecords' = WholeRecords /\ CalleesMerged' = CalleesMerged
        /\ FlowsHere(db)' = FlowsHere(db)
    BY <1>1, StillWritten DEF FlowsHere
  <1>3. WrittenInv' BY <1>1, <1>2 DEF WInv, WrittenInv
  <1>4. TransitionsPaired' = TransitionsPaired BY <1>1 DEF TransitionsPaired
  <1>5. ASSUME methods = sources.methods
        PROVE  verdict' = "fail" <=> CalleesMerged \/ TransitionsPaired
    <2>1. /\ WorldInv /\ SitesMeant(db) /\ DefinitionsOf(db) /\ CallsWritten(db, Sites)
          /\ FlowsWritten(Here, sources, db) /\ \A c \in Sites : WellFormed(c)
      BY <1>1, <1>5 DEF WInv, CInv, FlowsInv, WrittenInv, WholeRecords, FlowsHere
    <2> QED BY <1>5, <2>1, VerdictExact
  <1>6. WrittenAsValidated'
    BY <1>1, <1>2, <1>4, <1>5 DEF WrittenAsValidated
  <1> QED BY <1>3, <1>6

LEMMA MethodsAppearWritten ==
  ASSUME WInv, MethodsAppear PROVE WrittenInv' /\ WrittenAsValidated'
  <1>1. methods' # sources'.methods BY DEF MethodsAppear, WInv, CInv, WorldInv
  <1> QED BY <1>1 DEF WrittenInv, WrittenAsValidated

LEMMA StillValidated ==
  ASSUME WInv, UNCHANGED <<sources, methods, db, verdict>>
  PROVE  WrittenAsValidated'
  <1>1. CalleesMerged' = CalleesMerged BY StillWritten
  <1>2. TransitionsPaired' = TransitionsPaired BY DEF TransitionsPaired
  <1> QED BY <1>1, <1>2 DEF WInv, WrittenAsValidated

LEMMA KillWritten == ASSUME WInv, KillImport PROVE WrittenInv' /\ WrittenAsValidated'
  <1>1. UNCHANGED <<sources, methods, db, verdict>> /\ callStep' = "idle"
    BY DEF KillImport
  <1>2. FlowsHere(db)' = FlowsHere(db) BY <1>1, StillWritten DEF FlowsHere
  <1>3. WrittenInv' BY <1>1, <1>2 DEF WInv, WrittenInv
  <1> QED BY <1>1, <1>3, StillValidated

LEMMA StutterWritten ==
  ASSUME WInv, UNCHANGED callVars PROVE WrittenInv' /\ WrittenAsValidated'
  <1>1. UNCHANGED <<sources, methods, db, tx, queue, callStep, verdict>> BY DEF callVars
  <1>2. /\ WholeRecords' = WholeRecords /\ FlowsHere(db)' = FlowsHere(db)
        /\ FlowsHere(tx)' = FlowsHere(tx)
    BY <1>1, StillWritten DEF FlowsHere
  <1>3. WrittenInv' BY <1>1, <1>2 DEF WInv, WrittenInv
  <1> QED BY <1>1, <1>3, StillValidated

LEMMA WNextInv == ASSUME SeparateWorlds, WInv, [CallsNext]_callVars PROVE WInv'
  <1>1. CInv' BY NextInv DEF WInv
  <1>2. WrittenInv' /\ WrittenAsValidated'
    BY LoadWritten, InsertRunWritten, MaterializeCallWritten, CommitCallsWritten,
       MaterializeFlowWritten, CommitFlowsWritten, CompleteWritten, ValidateWritten,
       MethodsAppearWritten, KillWritten, StutterWritten DEF CallsNext
  <1> QED BY <1>1, <1>2 DEF WInv

(* The validator rejects what the materializer has written, with the methods  *)
(* as they were, exactly when two callees of a resolved call are one method,  *)
(* a restoration was found, or a trace has transitions that are all paired    *)
(* (_validate_security_traces), whatever was killed and repeated before.      *)
THEOREM WrittenAccepted == ASSUME SeparateWorlds PROVE CallsSpec => []WrittenAsValidated
  <1>1. CallsInit => WInv BY WInitInv
  <1>2. WInv /\ [CallsNext]_callVars => WInv' BY WNextInv
  <1>3. WInv => WrittenAsValidated BY DEF WInv
  <1> QED BY <1>1, <1>2, <1>3, PTL DEF CallsSpec
=============================================================================
