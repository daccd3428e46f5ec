---------------------------- MODULE SymbolImport ----------------------------
(* The symbols of a rebuild: workspace/pipeline.py runs ctags over every      *)
(* repository and imports the tags (collectors/source/ctags_importer.py),     *)
(* multi_aidl.py adds the AIDL interfaces and their Java implementations,     *)
(* java_inheritance_importer.py draws the supertype edges, multi_vendor.py    *)
(* does the same for decompiled artifacts, annotate() names the repository of *)
(* every node, and symbol_collision_validation.py reports the symbols that    *)
(* several repositories define.                                              *)
(*                                                                           *)
(* The steps run one after another, as rebuild_all.sh starts them; within a  *)
(* step the tags come in the order in which ctags walks the directory, which *)
(* is any.  A qualified name or a path is a sequence of names.               *)
EXTENDS Integers, Sequences, FiniteSets, SequencesExt

CONSTANTS
  Worlds,       \* the source trees, with their plans: see World below
  PackageNames  \* the names that start in lower case

(* A world: the repositories of the plan and where they lie, the languages    *)
(* each is scanned for, the files of the platform and of each decompiled      *)
(* artifact, and the order of the plan and of the manifest.                  *)
(* A file: [path, lang, package, imports, wildcards, tags].                  *)
(* A tag: [name, kind, scope, scopeKind, line, inherits, stubs], where stubs  *)
(* are the references X of "extends X.Stub" in the text of the class.        *)

(* Qualified names and paths are sequences of names. *)
Names == Seq(STRING)
FileFound(f) ==
  /\ f.path \in Names /\ f.package \in Names /\ f.imports \subseteq Names
  /\ f.wildcards \subseteq Names
  /\ \A t \in f.tags : /\ t.name \in STRING /\ t.scope \in Names
                       /\ t.inherits \subseteq Names \ {<<>>}
(* The plan lists every repository, the manifest decompiled artifacts.  The   *)
(* path of an artifact's file starts at the directory it was decompiled to,   *)
(* and may well be one below a repository's path.                            *)
Planned(w) ==
  /\ w.order \in Seq(DOMAIN w.root) /\ DOMAIN w.root \subseteq ToSet(w.order)
  /\ w.manifest \in Seq(DOMAIN w.artifact) /\ DOMAIN w.artifact \cap DOMAIN w.root = {}
  /\ \A r \in DOMAIN w.root :
       w.root[r] \in Names /\ w.languages[r] \subseteq {"java", "kotlin", "aidl"}
  /\ \A a \in DOMAIN w.artifact : \A f \in w.artifact[a] : FileFound(f)
  /\ \A f \in w.files : FileFound(f)

ASSUME WorldsAssumption == \A w \in Worlds : Planned(w)

VARIABLES
  world,      \* the sources of this rebuild
  job,        \* the command of rebuild_all.sh that is under way
  jobs,       \* the commands that are still to run
  items,      \* the items of the one under way that are still to process
  seen,       \* the relations that the inheritance importer has drawn
  graph,      \* the tables node and edge of the staged database
  unresolved, \* the unresolved relations of the binder and inheritance reports
  collisions, \* the report of the collision validator
  outcome     \* "running", "done", or "failed" where the strict gate closes

symbolVars == <<world, job, jobs, items, seen, graph, unresolved, collisions, outcome>>

-----------------------------------------------------------------------------
(* KIND_MAP and KOTLIN_KIND_MAP, OWNER_KIND_MAP and KOTLIN_OWNER_KIND_MAP *)
NodeType ==
  [java |-> [class |-> "JAVA_CLASS", interface |-> "JAVA_INTERFACE",
             enum |-> "JAVA_ENUM", method |-> "JAVA_METHOD",
             package |-> "JAVA_PACKAGE"],
   kotlin |-> [class |-> "KOTLIN_CLASS", interface |-> "KOTLIN_INTERFACE",
               object |-> "KOTLIN_OBJECT", method |-> "KOTLIN_METHOD",
               package |-> "KOTLIN_PACKAGE"]]
OwnerType ==
  [java |-> [class |-> "JAVA_CLASS", interface |-> "JAVA_INTERFACE",
             enum |-> "JAVA_ENUM", package |-> "JAVA_PACKAGE"],
   kotlin |-> [class |-> "KOTLIN_CLASS", enum |-> "KOTLIN_CLASS",
               interface |-> "KOTLIN_INTERFACE", object |-> "KOTLIN_OBJECT",
               package |-> "KOTLIN_PACKAGE"]]

(* normalize_scope: a scope that already holds the package is left alone *)
Scope(file, tag) ==
  IF tag.scope = <<>> THEN <<>>
  ELSE IF file.package # <<>> /\ IsStrictPrefix(file.package, tag.scope)
       THEN tag.scope ELSE file.package \o tag.scope

Owner(file, tag) ==
  IF Scope(file, tag) # <<>> THEN Scope(file, tag) ELSE file.package

(* build_identity and build_child_qname *)
QualifiedName(file, tag) ==
  CASE tag.kind = "package" -> file.package
    [] tag.kind = "method" -> Owner(file, tag) \o <<"#", tag.name>>
    [] OTHER -> Append(Owner(file, tag), tag.name)

Id(type, name) == [type |-> type, name |-> name]
SymbolId(file, tag) == Id(NodeType[file.lang][tag.kind], QualifiedName(file, tag))

-----------------------------------------------------------------------------
(* GraphWriter: nodes by identifier, edges by everything they say.           *)
NoRepository == "none"

(* upsert_node: every property is replaced, annotations and counts included  *)
UpsertNodes(g, ids, path, repository) ==
  [g EXCEPT !.node =
     [id \in ids \cup DOMAIN @ |->
        IF id \in ids THEN [path |-> path, repository |-> repository, definitions |-> 0,
                            resolution |-> "none"]
        ELSE @[id]]]
UpsertNode(g, id, path, repository) == UpsertNodes(g, {id}, path, repository)

GraphRow(type, from, to, path, line) ==
  [type |-> type, from |-> from, to |-> to, path |-> path, line |-> line]
UpsertEdge(g, type, from, to, path, line) ==
  [g EXCEPT !.edge = @ \cup {GraphRow(type, from, to, path, line)}]

(* Mutant of DefinitionId: the path is forgotten. *)
DefinitionByLine(repository, path, line, symbol) ==
  [type |-> "SYMBOL_DEFINITION", repository |-> repository, path |-> <<>>,
   line |-> line, symbol |-> symbol]
DefinitionId(repository, path, line, symbol) ==
  [type |-> "SYMBOL_DEFINITION", repository |-> repository, path |-> path,
   line |-> line, symbol |-> symbol]

Definitions(g, symbol) ==
  {e.from : e \in {x \in g.edge : x.type = "DEFINES_SYMBOL" /\ x.to = symbol}}

(* upsert_symbol_definition: the definition, its link, and the counts that   *)
(* the logical node carries.                                                *)
UpsertDefinition(g, symbol, repository, path, line) ==
  LET d == DefinitionId(repository, path, line, symbol)
      linked == UpsertEdge(UpsertNode(g, d, path, repository),
                           "DEFINES_SYMBOL", d, symbol, path, line)
      all == Definitions(linked, symbol)
      repositories == {linked.node[x].repository : x \in all}
  IN [linked EXCEPT
        !.node[symbol].definitions = Cardinality(all),
        !.node[symbol].resolution =
           IF Cardinality(repositories) > 1 THEN "ambiguous" ELSE "unique"]

-----------------------------------------------------------------------------
(* The plan: a task for each repository, language and capability of a parser. *)
Capabilities == [java |-> {"symbols", "inheritance"}, kotlin |-> {"symbols"}]
RepositoriesFor(w, lang, capability) ==
  {i \in DOMAIN w.order :
     capability \in Capabilities[lang] /\ lang \in w.languages[w.order[i]]}
PlatformFiles(w, repository) ==
  {f \in w.files : IsPrefix(w.root[repository], f.path)}
FilesOf(w, origin) ==
  IF origin \in DOMAIN w.root THEN PlatformFiles(w, origin) ELSE w.artifact[origin]
Tags(w, origin, lang, kinds) ==
  UNION {{[file |-> f, tag |-> t] : t \in {x \in f.tags : x.kind \in kinds}} :
           f \in {x \in FilesOf(w, origin) : x.lang = lang}}

(* A command, and its turn: the part of the script, the place in the order of *)
(* the plan or of the manifest, and the place in the loop's body.            *)
Job(turn, step, lang, origin) ==
  [turn |-> turn, step |-> step, lang |-> lang, origin |-> origin]
Before(j, k) ==
  \/ j.turn[1] < k.turn[1]
  \/ j.turn[1] = k.turn[1] /\ j.turn[2] < k.turn[2]
  \/ j.turn[1] = k.turn[1] /\ j.turn[2] = k.turn[2] /\ j.turn[3] < k.turn[3]

ImportTags(part, place, first, lang, origin) ==
  {Job(<<part, place, first>>, "symbols", lang, origin),
   Job(<<part, place, first + 1>>, "members", lang, origin)}
Inherit(part, place, first, lang, origin) ==
  {Job(<<part, place, first>>, "inheritance", lang, origin)}

(* multi_vendor: the inheritance of an artifact's Java files is read before  *)
(* its Kotlin files are imported.                                           *)
VendorJobs(w) ==
  UNION {ImportTags(6, i, 1, "java", w.manifest[i]) \cup
         Inherit(6, i, 3, "java", w.manifest[i]) \cup
         ImportTags(6, i, 4, "kotlin", w.manifest[i]) \cup
         Inherit(6, i, 6, "kotlin", w.manifest[i]) \cup
         {Job(<<6, i, 7>>, "trace", "java", w.manifest[i])} : i \in DOMAIN w.manifest}

(* Mutant of AidlJobs: the relations are imported with the interfaces. *)
RelationsFirst == {Job(<<3, 1, 1>>, "binder", "java", "all"),
                   Job(<<3, 1, 2>>, "interfaces", "aidl", "all")}
(* multi_aidl: the relations go to a new writer, after the interfaces *)
AidlJobs == {Job(<<3, 1, 1>>, "interfaces", "aidl", "all"),
             Job(<<3, 1, 2>>, "binder", "java", "all")}

(* The symbols of every repository, the Java files of all before the Kotlin. *)
PlatformSymbols(w) ==
  (UNION {ImportTags(1, i, 1, "java", w.order[i]) :
            i \in RepositoriesFor(w, "java", "symbols")}) \cup
  (UNION {ImportTags(2, i, 1, "kotlin", w.order[i]) :
            i \in RepositoriesFor(w, "kotlin", "symbols")})

(* Mutant of PlatformJobs: inheritance as each repository is imported. *)
InheritanceAtOnce(w) ==
  PlatformSymbols(w) \cup AidlJobs \cup
  (UNION {Inherit(1, i, 3, "java", w.order[i]) :
            i \in RepositoriesFor(w, "java", "inheritance")}) \cup
  (UNION {Inherit(2, i, 3, "kotlin", w.order[i]) :
            i \in RepositoriesFor(w, "kotlin", "inheritance")})
(* rebuild_all.sh, from pipeline java to pipeline inheritance *)
PlatformJobs(w) ==
  PlatformSymbols(w) \cup AidlJobs \cup
  (UNION {Inherit(4, i, 1, "java", w.order[i]) :
            i \in RepositoriesFor(w, "java", "inheritance")}) \cup
  (UNION {Inherit(5, i, 1, "kotlin", w.order[i]) :
            i \in RepositoriesFor(w, "kotlin", "inheritance")})

Jobs(w) == PlatformJobs(w) \cup VendorJobs(w) \cup
             {Job(<<7, 1, 1>>, "annotate", "all", "all"),
              Job(<<7, 1, 2>>, "collisions", "all", "all")}

-----------------------------------------------------------------------------
(* AIDL and Binder.                                                          *)
Interfaces(w) ==
  UNION {{f \in PlatformFiles(w, r) : f.lang = "aidl"} :
           r \in {x \in DOMAIN w.root : "aidl" \in w.languages[x]}}
InterfaceName(f) ==
  Append(f.package, (CHOOSE t \in f.tags : t.kind = "interface").name)

(* resolve_aidl_qname: a fully qualified reference, the imports, the same    *)
(* package, and at last the only interface of that name.                    *)
AidlNames(w, file, reference) ==
  LET named == {q \in {InterfaceName(f) : f \in Interfaces(w)} :
                  Last(q) = Last(reference)}
      imported == {q \in file.imports : Last(q) = Last(reference)}
      local == Append(file.package, Last(reference))
  IN IF Len(reference) > 1 /\ Head(reference) \in PackageNames THEN {reference}
     ELSE IF imported # {} THEN imported
     ELSE IF local \in named THEN {local}
     ELSE IF Cardinality(named) = 1 THEN named ELSE {}

(* parse_java_binder_implementations: the class is named by its package and  *)
(* its own name, whatever class encloses it; a reference that names no       *)
(* interface is dropped.                                                    *)
RelationsOf(w, f) ==
  UNION {{[class |-> Append(f.package, t.name), aidl |-> q, path |-> f.path] :
            q \in UNION {AidlNames(w, f, x) : x \in t.stubs}} : t \in f.tags}
(* scan_java_binder_relations, over the repositories scanned for Java *)
Relations(w) ==
  UNION {RelationsOf(w, f) : f \in UNION {{x \in PlatformFiles(w, r) : x.lang = "java"} :
           r \in {x \in DOMAIN w.root : "java" \in w.languages[x]}}}

-----------------------------------------------------------------------------
(* Inheritance: TypeIndex.                                                   *)
InterfaceTypes == {"JAVA_INTERFACE", "KOTLIN_INTERFACE"}
ClassTypes == {"JAVA_CLASS", "JAVA_ENUM", "KOTLIN_CLASS", "KOTLIN_OBJECT"}
Types == {id \in DOMAIN graph.node : id.type \in InterfaceTypes \cup ClassTypes}

(* by_qname keeps the last row of an unordered query: any of those named q *)
ByName(q) == {id \in Types : id.name = q}
FirstOf(candidates) ==
  LET found == {i \in DOMAIN candidates : candidates[i] # {}}
  IN IF found = {} THEN {} ELSE candidates[CHOOSE i \in found : \A j \in found : i <= j]

(* read_java_context: the import of a simple name, the packages imported whole *)
NamedImports(file, simple) == {q \in file.imports : Last(q) = simple}

(* TypeIndex.resolve: the types that a reference in the declaration of child *)
(* may be taken for.  A tie among wildcards falls through to the last rule.  *)
Resolve(reference, child, file) ==
  LET simple == Last(reference)
      local == SubSeq(child.name, Len(file.package) + 1, Len(child.name))
      enclosing ==
        [i \in 1..Len(local) |->
           ByName(file.package \o SubSeq(local, 1, Len(local) - i) \o reference)]
      wildcards == {p \in file.wildcards : ByName(Append(p, simple)) # {}}
      named == {id \in Types : Last(id.name) = simple}
      Only(set) == IF Cardinality(set) = 1 THEN set ELSE {}
  IN FirstOf(<<ByName(reference), UNION {ByName(q) : q \in NamedImports(file, simple)},
               ByName(file.package \o reference)>>
             \o enclosing
             \o <<UNION {ByName(Append(p, simple)) : p \in Only(wildcards)},
                  Only(named)>>)

(* edge_type_for *)
InheritanceEdge(child, parent) ==
  IF parent.type \in InterfaceTypes /\ child.type \notin InterfaceTypes
  THEN "IMPLEMENTS_JAVA_INTERFACE" ELSE "EXTENDS"
Identity(child, parent) == <<InheritanceEdge(child, parent), child, parent>>

-----------------------------------------------------------------------------
(* Annotation and collisions.                                                *)
(* Mutant of LongestFirst: the repositories are tried shortest first. *)
ShortestFirst(n, m) == n <= m
LongestFirst(n, m) == n >= m

(* annotate: the first repository of the plan that holds the path, the       *)
(* longest path first.  It looks at the path alone, an artifact's too.        *)
Holders(w, path) == {r \in DOMAIN w.root : IsPrefix(w.root[r], path)}
Annotated(w, path, repository) ==
  IF Holders(w, path) = {} THEN repository
  ELSE CHOOSE r \in Holders(w, path) :
         \A s \in Holders(w, path) : LongestFirst(Len(w.root[r]), Len(w.root[s]))

AnnotatedNode(w, node) ==
  [node EXCEPT !.repository = Annotated(w, node.path, @)]

(* inspect_symbol_collisions: logical nodes whose definitions name several   *)
(* repositories, and whether an edge of the graph's own depends on them.     *)
Collisions ==
  {id \in {e.to : e \in {x \in graph.edge : x.type = "DEFINES_SYMBOL"}} :
     Cardinality({graph.node[d].repository : d \in Definitions(graph, id)}) > 1}
Semantic(ids) ==
  \E e \in graph.edge : /\ e.type \notin {"DEFINES_SYMBOL", "DECLARED_IN"}
                        /\ e.from \in ids \/ e.to \in ids

-----------------------------------------------------------------------------
(* What a command processes. *)
Items(w, j) ==
  CASE j.step = "symbols" -> Tags(w, j.origin, j.lang, DOMAIN NodeType[j.lang])
    [] j.step = "members" -> Tags(w, j.origin, j.lang, {"method"})
    [] j.step = "inheritance" ->
         UNION {{[file |-> r.file, tag |-> r.tag, reference |-> x] : x \in r.tag.inherits} :
                  r \in Tags(w, j.origin, j.lang, {"class", "interface", "enum"})}
    [] j.step = "interfaces" -> Interfaces(w)
    [] j.step = "binder" -> Relations(w)
    [] OTHER -> {j}

NoJob == Job(<<0, 0, 0>>, "none", "all", "all")

SymbolInit ==
  /\ world \in Worlds
  /\ job = NoJob /\ jobs = Jobs(world) /\ items = {} /\ seen = {}
  /\ graph = [node |-> <<>>, edge |-> {}]
  /\ unresolved = {}
  /\ collisions = {}
  /\ outcome = "running"

(* What the variables are while the module takes no part. *)
SymbolOff ==
  /\ world = "off" /\ job = NoJob /\ jobs = {} /\ items = {} /\ seen = {}
  /\ graph = [node |-> <<>>, edge |-> {}]
  /\ unresolved = {} /\ collisions = {} /\ outcome = "running"

(* A line of a report of what could not be resolved. *)
Missing(report, child, parent, path) ==
  [report |-> report, child |-> child, parent |-> parent, path |-> path]

Step(step) == outcome = "running" /\ job.step = step
Take(item) == items' = items \ {item} /\ UNCHANGED <<world, job, jobs>>

(* The command has processed its last item; the next one starts, a process    *)
(* that has seen nothing.                                                    *)
NextJob ==
  /\ outcome = "running" /\ items = {}
  /\ \E j \in jobs :
       /\ \A k \in jobs \ {j} : Before(j, k)
       /\ job' = j /\ jobs' = jobs \ {j} /\ items' = Items(world, j)
  /\ seen' = {}
  /\ UNCHANGED <<world, graph, unresolved, collisions, outcome>>

(* The last command has ended. *)
LastJob ==
  /\ outcome = "running" /\ items = {} /\ job.step = "collisions"
  /\ outcome' = "done"
  /\ UNCHANGED <<world, job, jobs, items, seen, graph, unresolved, collisions>>

(* first_pass *)
ImportSymbol ==
  /\ Step("symbols")
  /\ \E r \in items :
       LET id == SymbolId(r.file, r.tag)
           path == r.file.path
           defined == UpsertDefinition(UpsertNode(graph, id, path, NoRepository), id,
                        job.origin, path, r.tag.line)
           filed == UpsertNode(defined, Id("FILE", path), path, NoRepository)
       IN /\ graph' = UpsertEdge(filed, "DECLARED_IN", id, Id("FILE", path),
                                 path, r.tag.line)
          /\ Take(r)
  /\ UNCHANGED <<seen, unresolved, collisions, outcome>>

(* second_pass: a member whose owner has no node gets no edge *)
ImportMember ==
  /\ Step("members")
  /\ \E r \in items :
       LET types == OwnerType[r.file.lang]
           kind == IF r.tag.scopeKind = "" THEN "package" ELSE r.tag.scopeKind
           owner == Id(types[kind], Owner(r.file, r.tag))
       IN /\ graph' = IF kind \in DOMAIN types /\ owner \in DOMAIN graph.node
                      THEN UpsertEdge(graph, "HAS_METHOD", owner,
                             SymbolId(r.file, r.tag), r.file.path, r.tag.line)
                      ELSE graph
          /\ Take(r)
  /\ UNCHANGED <<seen, unresolved, collisions, outcome>>

(* import_aidl_interfaces: the file, the interface and its methods *)
ImportInterface ==
  /\ Step("interfaces")
  /\ \E f \in items :
       LET file == Id("FILE", f.path)
           id == Id("AIDL_INTERFACE", InterfaceName(f))
           methods == {Id("AIDL_METHOD", InterfaceName(f) \o <<"#", t.name>>) :
                         t \in {x \in f.tags : x.kind = "method"}}
           declared == UpsertNodes(graph, {file, id} \cup methods, f.path, NoRepository)
       IN /\ graph' = [declared EXCEPT !.edge = @ \cup
                 {GraphRow("DECLARED_IN", x, file, f.path, 0) : x \in {id} \cup methods} \cup
                 {GraphRow("AIDL_HAS_METHOD", id, x, f.path, 0) : x \in methods}]
          /\ Take(f)
  /\ UNCHANGED <<seen, unresolved, collisions, outcome>>

(* import_binder_relations; multi_aidl asks again for the nodes it reports. *)
ImportRelation ==
  /\ Step("binder")
  /\ \E r \in items :
       LET class == Id("JAVA_CLASS", r.class)
           aidl == Id("AIDL_INTERFACE", r.aidl)
           found == {class, aidl} \subseteq DOMAIN graph.node
       IN /\ graph' = IF found
                      THEN UpsertEdge(graph, "IMPLEMENTS_BINDER", class, aidl, r.path, 0)
                      ELSE graph
          /\ unresolved' = IF found THEN unresolved
                           ELSE unresolved \cup {Missing("binder", class, aidl, r.path)}
          /\ Take(r)
  /\ UNCHANGED <<seen, collisions, outcome>>

(* The body of java_inheritance_importer's main, one reference at a time: a   *)
(* relation that it has drawn from another declaration is not drawn again.    *)
ImportSupertype ==
  /\ Step("inheritance")
  /\ \E r \in items :
       LET name == QualifiedName(r.file, r.tag)
           children == ByName(name)
           Unresolved(child) == unresolved \cup
                                  {Missing("inheritance", child, r.reference, r.file.path)}
       IN /\ \/ /\ children = {}
                /\ unresolved' = Unresolved(Id("unknown", name))
                /\ UNCHANGED <<seen, graph>>
             \/ \E child \in children :
                  LET parents == Resolve(r.reference, child, r.file) IN
                  \/ /\ parents = {}
                     /\ unresolved' = Unresolved(child)
                     /\ UNCHANGED <<seen, graph>>
                  \/ \E parent \in parents :
                       /\ seen' = seen \cup {Identity(child, parent)}
                       /\ graph' = IF Identity(child, parent) \in seen THEN graph
                                   ELSE UpsertEdge(graph, InheritanceEdge(child, parent),
                                          child, parent, r.file.path, r.tag.line)
                       /\ UNCHANGED unresolved
          /\ Take(r)
  /\ UNCHANGED <<collisions, outcome>>

(* DERIVED_FROM_ARTIFACT for the definitions that name the artifact *)
TraceArtifact ==
  /\ Step("trace")
  /\ \E j \in items :
       LET artifact == Id("VENDOR_ARTIFACT", <<j.origin>>)
           known == UpsertNode(graph, artifact, <<j.origin>>, NoRepository)
           definitions == {d \in DOMAIN known.node :
                             /\ d.type = "SYMBOL_DEFINITION"
                             /\ known.node[d].repository = j.origin}
       IN /\ graph' = [known EXCEPT !.edge = @ \cup
                         {GraphRow("DERIVED_FROM_ARTIFACT", d, artifact, <<>>, 0) :
                            d \in definitions}]
          /\ Take(j)
  /\ UNCHANGED <<seen, unresolved, collisions, outcome>>

Annotate ==
  /\ Step("annotate")
  /\ graph' = [graph EXCEPT !.node =
       [id \in DOMAIN @ |-> AnnotatedNode(world, @[id])]]
  /\ \E j \in items : Take(j)
  /\ UNCHANGED <<seen, unresolved, collisions, outcome>>

(* validate_symbol_collisions: the report is written before the gate closes *)
ValidateCollisions ==
  /\ Step("collisions")
  /\ collisions' = Collisions
  /\ outcome' = IF world.strict /\ Semantic(Collisions) THEN "failed" ELSE outcome
  /\ \E j \in items : Take(j)
  /\ UNCHANGED <<seen, graph, unresolved>>

SymbolNext == \/ NextJob \/ LastJob \/ ImportSymbol \/ ImportMember \/ ImportInterface
           \/ ImportRelation \/ ImportSupertype \/ TraceArtifact \/ Annotate
           \/ ValidateCollisions

SymbolSpec == SymbolInit /\ [][SymbolNext]_symbolVars

-----------------------------------------------------------------------------
(* What the sources say, to compare the graph with.                          *)
Final == outcome # "running"
Origins == DOMAIN world.root \cup ToSet(world.manifest)
Languages(origin) ==
  IF origin \in DOMAIN world.root THEN world.languages[origin] \ {"aidl"}
  ELSE {"java", "kotlin"}
Declared(origin) ==
  UNION {Tags(world, origin, l, DOMAIN NodeType[l]) : l \in Languages(origin)}
DeclaredIn(origins) == UNION {Declared(o) : o \in origins}
PlatformTypes ==
  {id \in {SymbolId(r.file, r.tag) : r \in DeclaredIn(DOMAIN world.root)} :
     id.type \in InterfaceTypes \cup ClassTypes}

(* The repository that owns a file is the innermost one around it, and an     *)
(* artifact owns its files.  What it is called is the repository around the   *)
(* stored path: an artifact's file below a repository's path takes its name.  *)
Innermost(path) ==
  CHOOSE r \in Holders(world, path) :
    \A s \in Holders(world, path) : IsPrefix(world.root[s], world.root[r])
InnermostOwner(origin, path) ==
  IF origin \in DOMAIN world.artifact THEN origin ELSE Innermost(path)
NamedOwner(origin, path) ==
  IF Holders(world, path) = {} THEN origin ELSE Innermost(path)

(* Whatever the order of the scans and however often a symbol is declared    *)
(* again, each of its definitions is in the graph with its file and line, and *)
(* under the name of its owner: upsert_symbol_definition, under               *)
(* last-writer-wins of upsert_node, and annotate().                          *)
NoDefinitionLost ==
  Final => \A o \in Origins : \A r \in Declared(o) :
    \E d \in Definitions(graph, SymbolId(r.file, r.tag)) :
      /\ d.line = r.tag.line
      /\ graph.node[d].path = r.file.path
      /\ graph.node[d].repository = NamedOwner(o, r.file.path)

(* Where a symbol is declared, who owns the files, and what the owners are    *)
(* called.                                                                   *)
DeclaredAt(id) ==
  UNION {{<<o, r.file.path>> : r \in {x \in Declared(o) : SymbolId(x.file, x.tag) = id}} :
           o \in Origins}
OwnersOf(id) == {InnermostOwner(site[1], site[2]) : site \in DeclaredAt(id)}
NamesOf(id) == {NamedOwner(site[1], site[2]) : site \in DeclaredAt(id)}

(* The validator reports exactly the symbols whose files have owners of       *)
(* several names, nested repositories counted once, and a strict build ends   *)
(* there exactly when an edge depends on one of them.  These are the symbols  *)
(* of several owners, but for those that an artifact declares in a file below *)
(* a repository's path: annotate() takes it for the repository's, and the     *)
(* collision with that repository goes unseen.                               *)
CollisionsExact ==
  Final =>
    LET declared == {SymbolId(r.file, r.tag) : r \in DeclaredIn(Origins)} IN
    /\ collisions = {id \in declared : Cardinality(NamesOf(id)) > 1}
    /\ \A id \in declared :
         (\A site \in DeclaredAt(id) : site[1] \in DOMAIN world.root \/ Holders(world, site[2]) = {})
           => (id \in collisions) = (Cardinality(OwnersOf(id)) > 1)
    /\ (outcome = "failed") = (world.strict /\ Semantic(collisions))

(* A supertype of a language whose inheritance is read, whose simple name no  *)
(* other type of the platform bears or that is written so and named by an     *)
(* import of the file, is found wherever it is declared: pipeline inheritance *)
(* does not depend on the order of the repositories.  The relation is drawn   *)
(* once for a repository, at the place of one of its declarations.  (A type   *)
(* of the default package goes before the imports.)                          *)
SupertypesDrawn ==
  Final => \A o \in DOMAIN world.root : \A r \in Declared(o) :
    r.tag.kind \in {"class", "interface"} /\ "inheritance" \in Capabilities[r.file.lang] =>
    \A x \in r.tag.inherits : \A child, parent \in PlatformTypes :
      LET children == {id \in PlatformTypes : id.name = QualifiedName(r.file, r.tag)}
          named == {id \in PlatformTypes : Last(id.name) = Last(x)}
          imported == {id \in named : id.name \in r.file.imports}
          meant == IF Len(x) = 1 /\ imported # {} /\ \A id \in named : id.name # x
                   THEN imported ELSE named
      IN children = {child} /\ meant = {parent} =>
           \E s \in Declared(o) :
             /\ QualifiedName(s.file, s.tag) = child.name
             /\ GraphRow(InheritanceEdge(child, parent), child, parent,
                         s.file.path, s.tag.line) \in graph.edge

(* Every implementation of an AIDL stub that was recognised is drawn when    *)
(* both ends are in the sources, and else it is reported: no relation        *)
(* disappears between the scan and multi_aidl's second look at the graph.    *)
BindersAccounted ==
  Final => \A r \in Relations(world) :
    LET class == Id("JAVA_CLASS", r.class)
        aidl == Id("AIDL_INTERFACE", r.aidl)
        drawn == \E e \in graph.edge :
                   /\ e.type = "IMPLEMENTS_BINDER"
                   /\ e.from = class /\ e.to = aidl
    IN /\ drawn = (Missing("binder", class, aidl, r.path) \notin unresolved)
       /\ drawn = (/\ class \in PlatformTypes
                   /\ r.aidl \in {InterfaceName(f) : f \in Interfaces(world)})
=============================================================================
