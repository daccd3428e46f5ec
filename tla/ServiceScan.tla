----------------------------- MODULE ServiceScan -----------------------------
(* workspace/multi_service.py and service_registration_importer.py: the Java  *)
(* files of every repository that may register a service are parsed, or       *)
(* loaded from a cache of parsed models, and every call that registers one    *)
(* becomes a node of the staged graph, bound to its name and its class as far *)
(* as both can be resolved.                                                   *)
(*                                                                            *)
(* The cache outlives rebuilds, which edits of the sources, kills and damaged *)
(* entries come between.  A parsed file is a record of what the code keeps of *)
(* it, names are sequences, and positions in the text are numbers.            *)
EXTENDS Integers, Sequences, FiniteSets, SequencesExt

CONSTANTS
  Trees,        \* the worlds, see below
  MaxEdits,     \* bound on the edits of a source
  MaxScanKills  \* bound on the kills and the damaged cache entries

(* A tree: the repositories in the order of the plan, the files each of them  *)
(* scans, the contents a file may have one after another, the files that lie  *)
(* under a test directory, the names that start in lower case, the Java types *)
(* of the graph in the order of their rows, and an outdated model.            *)
(* A content: [package, imports, classes, constants, calls, variables,        *)
(* methods]; a class is [name, start, end]; a constant, a variable or method  *)
(* declaration is [name, offset] with its expression or its type; a call is   *)
(* [api, line, offset, arguments].  An expression is [form, value].           *)

VARIABLES
  tree,       \* the sources and the graph of this behaviour
  disk,       \* the content of each file, as an index
  models,     \* entries of cache/service-models: [version, key, model, whole]
  scan,       \* the <<repository, path>> still to load, in order
  loaded,     \* the models in the order of their files, with the content read
  facts,      \* the facts still to import
  nodes,      \* SERVICE_REGISTRATION nodes
  edges,
  scanPhase,  \* "scan", "write" or "done"
  edits, scanKills

serviceVars ==
  <<tree, disk, models, scan, loaded, facts, nodes, edges, scanPhase, edits, scanKills>>

None == <<>>
AnyOf(set) == CHOOSE x \in set : TRUE
Single(set) == \E x \in set : set = {x}
OnDisk(path) == tree.contents[path][disk[path]]

-----------------------------------------------------------------------------
(* JavaSource.                                                                *)
Surrounding(src, offset) == {c \in src.classes : c.start < offset /\ offset < c.end}

(* _parse_class_ranges: a class is named through the classes around it *)
QName(src, class) ==
  LET around == SetToSortSeq(Surrounding(src, class.start),
                             LAMBDA c, d : c.start < d.start)
  IN src.package \o [i \in DOMAIN around |-> around[i].name] \o <<class.name>>
DeclaredNames(src) == {QName(src, c) : c \in src.classes}

(* containing_class: the innermost one, or none *)
Containing(src, offset) ==
  LET around == Surrounding(src, offset)
  IN IF around = {} THEN None
     ELSE QName(src, CHOOSE c \in around : \A d \in around : d.start <= c.start)

(* _parse_constant_definitions *)
ConstantsOf(src) ==
  {[name |-> Append(Containing(src, c.offset), c.name), expression |-> c.expression,
    offset |-> c.offset] :
     c \in {x \in src.constants : Containing(src, x.offset) # None}}

(* _parse_registration_calls: a call with fewer than two arguments is none *)
Calls(src) == {c \in src.calls : Len(c.arguments) >= 2}

ImportOf(src, simple) == {q \in src.imports : Last(q) = simple}

(* resolve_type_name *)
TypeName(src, reference, offset) ==
  LET top == src.package \o reference
      imported == ImportOf(src, Last(reference))
      owner == Containing(src, offset)
      depths == {n \in Len(src.package) + 1 .. Len(owner) :
                   SubSeq(owner, 1, n) \o reference \in DeclaredNames(src)}
  IN IF Len(reference) > 1 /\ Head(reference) \in tree.packages THEN reference
     ELSE IF imported # {} THEN AnyOf(imported)
     ELSE IF top \in DeclaredNames(src) \/ depths = {} THEN top
     ELSE SubSeq(owner, 1, Max(depths)) \o reference

(* The last declaration of a name before an offset, whatever its scope *)
LastDeclared(declarations, name, offset) ==
  LET before == {d \in declarations : d.name = name /\ d.offset < offset}
  IN {d \in before : \A e \in before : e.offset <= d.offset}

(* resolve_instance_type *)
InstanceType(src, expression, offset) ==
  LET within == Containing(src, offset)
      value == expression.value
      Typed(declarations) ==
        LET found == LastDeclared(declarations, value[1], offset)
        IN IF found = {} THEN None
           ELSE TypeName(src, AnyOf(found).type, AnyOf(found).offset)
  IN CASE expression.form = "this" -> within
       [] expression.form = "inner" ->
            IF within \o value \in DeclaredNames(src) THEN within \o value
            ELSE TypeName(src, value, offset)
       [] expression.form \in {"new", "cast"} -> TypeName(src, value, offset)
       [] expression.form = "name" -> Typed(src.variables)
       [] expression.form = "call" -> Typed(src.methods)
       [] OTHER -> None

-----------------------------------------------------------------------------
(* ConstantResolver.                                                          *)
DefinedIn(i) ==
  {[name |-> c.name, expression |-> c.expression, offset |-> c.offset, source |-> i] :
     c \in ConstantsOf(loaded[i].model)}
Constants == UNION {DefinedIn(i) : i \in DOMAIN loaded}

(* by_qualified: of several definitions of a name, the last one read *)
Qualified(name) ==
  LET all == {c \in Constants : c.name = name}
  IN {c \in all : \A d \in all : \/ d.source < c.source
                                 \/ d.source = c.source /\ d.offset <= c.offset}

(* The names, and the constants, that a reference may stand for *)
NamesFor(reference, src, offset) ==
  LET simple == Last(reference)
      Imported(owner) == {Append(q, simple) : q \in ImportOf(src, owner)}
      owners == IF Len(reference) < 2 THEN {}
                ELSE {src.package \o reference} \cup Imported(reference[Len(reference) - 1])
  IN {reference, Append(Containing(src, offset), simple)}
       \cup owners \cup ImportOf(src, simple)
CandidatesFor(reference, src, offset) ==
  LET named == {c \in Constants : Last(c.name) = Last(reference)}
  IN UNION {Qualified(q) : q \in NamesFor(reference, src, offset)}
       \cup (IF Single(named) THEN named ELSE {})

(* Mutant of Unique: of several candidates the first one read is taken. *)
FirstRead(candidates) ==
  {c \in candidates : \A d \in candidates : c.source <= d.source}
Unique(candidates) == IF Single(candidates) THEN candidates ELSE {}

MaxDepth == 10

(* The constant that an expression stands for, with what has been seen so far *)
Follow(s) ==
  LET reference == s.expression.value
      found == Unique(CandidatesFor(reference, s.src, s.offset))
      c == AnyOf(found)
  IN IF s.expression.form # "name" \/ reference \in s.seen \/ found = {} THEN s
     ELSE [expression |-> c.expression, src |-> loaded[c.source].model,
           offset |-> c.offset, seen |-> s.seen \cup {reference}]

(* ConstantResolver.resolve *)
Followed(start) ==
  LET after[n \in 0..MaxDepth] == IF n = 0 THEN start ELSE Follow(after[n - 1])
  IN after[MaxDepth]
ResolveKey(expression, src, offset) ==
  LET last == Followed([expression |-> expression, src |-> src, offset |-> offset,
                        seen |-> {}]).expression
  IN IF last.form = "literal" THEN last.value ELSE None

-----------------------------------------------------------------------------
(* DbTypeIndex.                                                               *)
Rows == {tree.types[i] : i \in DOMAIN tree.types}
(* by_qname: the last row of that name *)
Row(name) ==
  LET at == {i \in DOMAIN tree.types : tree.types[i].name = name}
  IN {tree.types[i] : i \in {x \in at : \A j \in at : j <= x}}

(* resolve_class *)
Class(guess) ==
  LET classes == {t \in Rows : t.type = "JAVA_CLASS" /\ Last(t.name) = Last(guess)}
      suffixed == {t \in classes : IsStrictSuffix(guess, t.name)}
  IN IF guess = None THEN None
     ELSE IF \E t \in Row(guess) : t.type = "JAVA_CLASS" THEN guess
     ELSE IF Single(classes) THEN AnyOf(classes).name
     ELSE IF Single(suffixed) THEN AnyOf(suffixed).name
     ELSE None

-----------------------------------------------------------------------------
(* build_fact and import_fact.                                                *)
BinderApis == {"ServiceManager.addService", "publishBinderService"}

(* Mutant of RegistrationId: calls on one line are not told apart. *)
RegistrationOfLine(path, call) ==
  [api |-> call.api, path |-> path, line |-> call.line, offset |-> 0]
RegistrationId(path, call) ==
  [api |-> call.api, path |-> path, line |-> call.line, offset |-> call.offset]

(* resolve_local_key: LocalServices are named by a class literal *)
RegistrationKey(src, call) ==
  LET expression == call.arguments[1]
  IN IF call.api \in BinderApis THEN ResolveKey(expression, src, call.offset)
     ELSE IF expression.form = "class" THEN TypeName(src, expression.value, call.offset)
     ELSE None

Fact(source, call) ==
  [id |-> RegistrationId(source.path, call), key |-> RegistrationKey(source.model, call),
   instance |-> Class(InstanceType(source.model, call.arguments[2], call.offset)),
   test |-> source.path \in tree.tests]
Facts ==
  UNION {{Fact(loaded[i], c) : c \in Calls(loaded[i].model)} : i \in DOMAIN loaded}

KeyId(f) == <<IF f.id.api \in BinderApis THEN "BINDER_SERVICE_NAME"
              ELSE "LOCAL_SERVICE_KEY", f.key>>
(* The edges of a fact: none without a key, no class without its node, and    *)
(* no binding of the class from a test.                                       *)
FactEdges(f) ==
  LET class == Class(f.instance)
  IN {<<"DECLARED_IN", f.id, f.id.path>>}
     \cup (IF f.key = None THEN {} ELSE {<<"REGISTERS_KEY", f.id, KeyId(f)>>})
     \cup (IF f.key = None \/ class = None THEN {}
           ELSE {<<"REGISTERS_INSTANCE", f.id, class>>})
     \cup (IF f.key = None \/ class = None \/ f.test THEN {}
           ELSE {<<"REGISTERED_AS", class, KeyId(f), f.id>>})

-----------------------------------------------------------------------------
(* The pipeline.                                                              *)
Version == 2    \* SOURCE_MODEL_CACHE_VERSION

(* The digest of the bytes that were read *)
ModelKey(path, content) == <<"digest", content>>

(* candidate_source_paths: each root of each repository, sorted *)
ScanList(t) ==
  FlattenSeq([i \in DOMAIN t.order |->
                [j \in DOMAIN t.files[t.order[i]] |->
                   <<t.order[i], t.files[t.order[i]][j]>>]])

(* What a world is: there are contents to read, and a call is told from the   *)
(* others of its source by where it is, as the search for it is.              *)
ContentsOf(t) ==
  UNION {{t.contents[p][i] : i \in DOMAIN t.contents[p]} : p \in DOMAIN t.contents}
Scannable(t) ==
  /\ ScanList(t) \in Seq((DOMAIN t.files) \X (DOMAIN t.contents))
  /\ \A p \in DOMAIN t.contents : /\ DOMAIN t.contents[p] = 1..Len(t.contents[p])
                                 /\ Len(t.contents[p]) \in Nat \ {0}
  /\ \A m \in ContentsOf(t) :
       /\ IsFiniteSet(Calls(m)) /\ \A c \in m.constants : c.offset \in Nat
       /\ \A c, d \in Calls(m) :
            c.api = d.api /\ c.line = d.line /\ c.offset = d.offset => c = d
  /\ DOMAIN t.types = 1..Len(t.types) /\ Len(t.types) \in Nat
  /\ \A i \in DOMAIN t.types : t.types[i].name # None
ASSUME TreesAssumption == \A t \in Trees : Scannable(t)

BeginScan(t) ==
  /\ scan' = ScanList(t)
  /\ loaded' = <<>> /\ facts' = {} /\ nodes' = {} /\ edges' = {}
  /\ scanPhase' = "scan"

ServiceInit ==
  /\ tree \in Trees
  /\ disk = [p \in DOMAIN tree.contents |-> 1]
  /\ models \in {{}, {[version |-> Version - 1, key |-> ModelKey(p, tree.contents[p][1]),
                      model |-> tree.stale, whole |-> TRUE] : p \in DOMAIN tree.contents}}
  /\ scan = ScanList(tree)
  /\ loaded = <<>> /\ facts = {} /\ nodes = {} /\ edges = {}
  /\ scanPhase = "scan" /\ edits = 0 /\ scanKills = 0

(* What the variables are while the module takes no part. *)
ServiceOff ==
  /\ tree = "off" /\ disk = <<>> /\ models = {} /\ scan = <<>> /\ loaded = <<>>
  /\ facts = {} /\ nodes = {} /\ edges = {}
  /\ scanPhase = "off" /\ edits = 0 /\ scanKills = MaxScanKills

Hits(key) == {e \in models : e.version = Version /\ e.key = key /\ e.whole}

(* _load_cached_source, and the files an earlier repository brought: they are *)
(* read and parsed again, then dropped.                                       *)
LoadFile ==
  /\ scanPhase = "scan" /\ scan # <<>>
  /\ LET path == scan[1][2]
         key == ModelKey(path, OnDisk(path))
         hits == Hits(key)
         model == IF hits = {} THEN OnDisk(path) ELSE AnyOf(hits).model
         new == [version |-> Version, key |-> key, model |-> model, whole |-> TRUE]
     IN /\ models' = IF hits # {} THEN models
                    ELSE {e \in models : e.version # Version \/ e.key # key} \cup {new}
        /\ loaded' = IF \E i \in DOMAIN loaded : loaded[i].path = path THEN loaded
                     ELSE Append(loaded, [path |-> path, repository |-> scan[1][1],
                                          model |-> model, content |-> OnDisk(path)])
  /\ scan' = Tail(scan)
  /\ UNCHANGED <<tree, disk, facts, nodes, edges, scanPhase, edits, scanKills>>

(* The constants of every source are known before the first fact is built. *)
BuildFacts ==
  /\ scanPhase = "scan" /\ scan = <<>>
  /\ facts' = Facts
  /\ scanPhase' = "write"
  /\ UNCHANGED <<tree, disk, models, scan, loaded, nodes, edges, edits, scanKills>>

ImportFact ==
  /\ scanPhase = "write"
  /\ \E f \in facts :
       /\ facts' = facts \ {f}
       /\ nodes' = {n \in nodes : n.id # f.id} \cup {f}
       /\ edges' = edges \cup FactEdges(f)
  /\ UNCHANGED <<tree, disk, models, scan, loaded, scanPhase, edits, scanKills>>

Finish ==
  /\ scanPhase = "write" /\ facts = {}
  /\ scanPhase' = "done"
  /\ UNCHANGED <<tree, disk, models, scan, loaded, facts, nodes, edges, edits, scanKills>>

(* The next rebuild starts from an empty graph and the same cache; a kill     *)
(* leaves at most a temporary file beside the entries.                        *)
Rebuild ==
  /\ \/ scanPhase = "done" /\ UNCHANGED scanKills
     \/ scanKills < MaxScanKills /\ scanKills' = scanKills + 1
  /\ BeginScan(tree)
  /\ UNCHANGED <<tree, disk, models, edits>>

EditSource ==
  /\ edits < MaxEdits
  /\ \E p \in DOMAIN disk :
       /\ disk[p] < Len(tree.contents[p])
       /\ disk' = [disk EXCEPT ![p] = @ + 1]
  /\ edits' = edits + 1
  /\ UNCHANGED <<tree, models, scan, loaded, facts, nodes, edges, scanPhase, scanKills>>

(* An entry is cut short: it is no JSON any more. *)
DamageEntry ==
  /\ scanKills < MaxScanKills
  /\ \E e \in models : e.whole /\ models' = (models \ {e}) \cup {[e EXCEPT !.whole = FALSE]}
  /\ scanKills' = scanKills + 1
  /\ UNCHANGED <<tree, disk, scan, loaded, facts, nodes, edges, scanPhase, edits>>

ServiceNext ==
  \/ LoadFile \/ BuildFacts \/ ImportFact \/ Finish
  \/ Rebuild \/ EditSource \/ DamageEntry

ServiceSpec == ServiceInit /\ [][ServiceNext]_serviceVars

-----------------------------------------------------------------------------
(* What the contents that were read say, whatever models the cache held.      *)
TrueConstants ==
  UNION {{[name |-> c.name, expression |-> c.expression, offset |-> c.offset,
           source |-> i] : c \in ConstantsOf(loaded[i].content)} : i \in DOMAIN loaded}

(* The constants that a reference names by its class, a package or an import. *)
Named(reference, src, offset) ==
  LET simple == Last(reference)
      Imported(owner) == {Append(q, simple) : q \in ImportOf(src, owner)}
      names == IF Len(reference) < 2
               THEN {Append(Containing(src, offset), simple)} \cup ImportOf(src, simple)
               ELSE {reference, src.package \o reference}
                      \cup Imported(reference[Len(reference) - 1])
  IN {c \in TrueConstants : c.name \in names}

TrueFollow(s) ==
  LET named == Named(s.expression.value, s.src, s.offset)
      c == AnyOf(named)
  IN IF s.expression.form # "name" \/ ~Single(named) THEN s
     ELSE [expression |-> c.expression, src |-> loaded[c.source].content,
           offset |-> c.offset]

(* The value an expression has in Java, where it can be told *)
TrueFollowed(start) ==
  LET after[n \in 0..MaxDepth] == IF n = 0 THEN start ELSE TrueFollow(after[n - 1])
  IN after[MaxDepth]
TrueKey(expression, src, offset) ==
  LET last == TrueFollowed([expression |-> expression, src |-> src,
                            offset |-> offset]).expression
  IN IF last.form = "literal" THEN last.value ELSE None

Due ==
  UNION {{[source |-> loaded[i], call |-> c] : c \in Calls(loaded[i].content)} :
           i \in DOMAIN loaded}

(* A service name is never guessed: where the reference names one constant by *)
(* its class, its package or an import, the service has that constant's value *)
(* or stays unresolved, through chains of constants, ties of equal names and  *)
(* outdated models in the cache (ConstantResolver.resolve).                   *)
KeySound ==
  \A f \in facts \cup nodes, d \in Due :
    (f.id = RegistrationId(d.source.path, d.call) /\ d.call.api \in BinderApis) =>
      LET true == TrueKey(d.call.arguments[1], d.source.content, d.call.offset)
      IN f.key = None \/ true = None \/ f.key = true

(* Every registration of the contents that were read has a node of its own,   *)
(* and its class is bound to its name exactly when both were resolved and the *)
(* call is no test's, whatever was cached, damaged or cut off before.         *)
RegistrationsWhole ==
  scanPhase = "done" =>
    /\ Cardinality(nodes) = Cardinality(Due)
    /\ \A d \in Due :
         \E n \in nodes : n.id = [api |-> d.call.api, path |-> d.source.path,
                                 line |-> d.call.line, offset |-> d.call.offset]
    /\ \A n \in nodes :
         (n.key # None /\ n.instance # None /\ ~n.test) =
           \E e \in edges : e[1] = "REGISTERED_AS" /\ e[4] = n.id
=============================================================================
