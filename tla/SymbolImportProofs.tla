-------------------------- MODULE SymbolImportProofs --------------------------
(* What the symbols of a rebuild leave in the graph, for any source trees,    *)
(* plans and artifacts.  The invariant says, for each thing that the sources  *)
(* hold, that it is in the graph or that a command still to run will bring it *)
(* there, and for each thing in the graph where it comes from; which commands *)
(* have run follows from the order of their turns.                           *)
EXTENDS SymbolImport, FiniteSetTheorems, WellFoundedInduction, TLAPS

SymbolTypes ==
  {"JAVA_CLASS", "JAVA_INTERFACE", "JAVA_ENUM", "JAVA_METHOD", "JAVA_PACKAGE",
   "KOTLIN_CLASS", "KOTLIN_INTERFACE", "KOTLIN_OBJECT", "KOTLIN_METHOD",
   "KOTLIN_PACKAGE"}

(* The commands still to run are after the one under way, the others before. *)
ScheduleInv ==
  /\ world \in Worlds
  /\ job \in Jobs(world) \cup {NoJob} /\ jobs \subseteq Jobs(world)
  /\ \A k \in jobs : Before(job, k)
  /\ \A k \in Jobs(world) : k \in jobs \/ k = job \/ Before(k, job)
  /\ job # NoJob => items \subseteq Items(world, job)
  /\ job = NoJob => items = {}
  /\ Final => job.step = "collisions" /\ items = {}

Annotation == job.step = "collisions" \/ (job.step = "annotate" /\ items = {})

(* A definition keeps its file, and its repository until it is annotated. *)
Row(row) == row = [path |-> row.path, repository |-> row.repository,
                   definitions |-> row.definitions, resolution |-> row.resolution]
Shaped(g) ==
  /\ g = [node |-> g.node, edge |-> g.edge]
  /\ g.node = [n \in DOMAIN g.node |-> g.node[n]]
  /\ \A n \in DOMAIN g.node : Row(g.node[n])
NodesInv ==
  /\ Shaped(graph)
  /\ \A n \in DOMAIN graph.node : n.type = "SYMBOL_DEFINITION" =>
       /\ graph.node[n].path = n.path
       /\ graph.node[n].repository =
            IF Annotation THEN Annotated(world, n.path, n.repository) ELSE n.repository

(* Some command will still process an item. *)
Left(step, lang, origin, item) ==
  \/ \E k \in jobs : k.step = step /\ k.lang = lang /\ k.origin = origin
  \/ job.step = step /\ job.lang = lang /\ job.origin = origin /\ item \in items

Link(o, r) ==
  LET id == SymbolId(r.file, r.tag) IN
  GraphRow("DEFINES_SYMBOL", DefinitionId(o, r.file.path, r.tag.line, id), id,
           r.file.path, r.tag.line)
Defined(o, r) ==
  {Link(o, r).from, Link(o, r).to} \subseteq DOMAIN graph.node /\ Link(o, r) \in graph.edge

DefinedInv ==
  /\ \A o \in Origins : \A r \in Declared(o) :
       Left("symbols", r.file.lang, o, r) \/ Defined(o, r)
  /\ \A e \in graph.edge : e.type = "DEFINES_SYMBOL" =>
       \E o \in Origins : \E r \in Declared(o) : e = Link(o, r) /\ Defined(o, r)

(* Until the artifacts are imported the types are those of the platform. *)
InterfaceNames == {InterfaceName(f) : f \in Interfaces(world)}
KnownNode(n) ==
  /\ n.type \in InterfaceTypes \cup ClassTypes => n \in PlatformTypes \/ job.turn[1] >= 6
  /\ n.type = "AIDL_INTERFACE" =>
       \E name \in InterfaceNames : n = Id("AIDL_INTERFACE", name)
KnownInv ==
  /\ \A n \in DOMAIN graph.node : KnownNode(n)
  /\ \A f \in Interfaces(world) :
       Left("interfaces", "aidl", "all", f) \/
       Id("AIDL_INTERFACE", InterfaceName(f)) \in DOMAIN graph.node

BothKnown(class, aidl) ==
  class \in PlatformTypes /\ \E name \in InterfaceNames : aidl = Id("AIDL_INTERFACE", name)
Drawn(class, aidl) ==
  \E e \in graph.edge : e.type = "IMPLEMENTS_BINDER" /\ e.from = class /\ e.to = aidl
BinderInv ==
  /\ \A e \in graph.edge : e.type = "IMPLEMENTS_BINDER" => BothKnown(e.from, e.to)
  /\ \A m \in unresolved : m.report = "binder" => ~BothKnown(m.child, m.parent)
  /\ \A r \in Relations(world) :
       \/ Left("binder", "java", "all", r)
       \/ Drawn(Id("JAVA_CLASS", r.class), Id("AIDL_INTERFACE", r.aidl))
       \/ Missing("binder", Id("JAVA_CLASS", r.class), Id("AIDL_INTERFACE", r.aidl), r.path)
            \in unresolved

(* The types that a supertype is meant to be, and whether they are one. *)
Named(x) == {id \in PlatformTypes : Last(id.name) = Last(x)}
Imported(r, x) == {id \in Named(x) : id.name \in r.file.imports}
Meant(r, x) ==
  IF Len(x) = 1 /\ Imported(r, x) # {} /\ \A id \in Named(x) : id.name # x
  THEN Imported(r, x) ELSE Named(x)
Children(r) == {id \in PlatformTypes : id.name = QualifiedName(r.file, r.tag)}
DrawnFrom(o, child, parent) ==
  \E s \in Declared(o) :
    /\ QualifiedName(s.file, s.tag) = child.name
    /\ GraphRow(InheritanceEdge(child, parent), child, parent, s.file.path, s.tag.line)
         \in graph.edge
SuperDrawn(o, r, x) ==
  \A child, parent \in PlatformTypes :
    Children(r) = {child} /\ Meant(r, x) = {parent} => DrawnFrom(o, child, parent)
SupertypesInv ==
  \A o \in DOMAIN world.root : \A r \in Declared(o) :
    r.tag.kind \in {"class", "interface"} /\ "inheritance" \in Capabilities[r.file.lang] =>
      \A x \in r.tag.inherits :
        \/ Left("inheritance", r.file.lang, o,
                [file |-> r.file, tag |-> r.tag, reference |-> x])
        \/ SuperDrawn(o, r, x)

(* What the process under way has seen, it has drawn.  Two relations that it  *)
(* cannot tell apart are one.                                                *)
SeenFrom(o, key) ==
  \A child, parent : key = Identity(child, parent) => DrawnFrom(o, child, parent)
SeenInv ==
  \A o \in DOMAIN world.root : job.step = "inheritance" /\ job.origin = o =>
    \A key \in seen : SeenFrom(o, key)

ReportInv ==
  job.step = "collisions" /\ items = {} =>
    /\ collisions = Collisions
    /\ (outcome = "failed") = (world.strict /\ Semantic(collisions))

SymbolInv ==
  ScheduleInv /\ NodesInv /\ DefinedInv /\ KnownInv /\ BinderInv /\ SupertypesInv /\ SeenInv
  /\ ReportInv

-----------------------------------------------------------------------------
(* The commands and their order. *)
Turned(k) == k.turn[1] \in Int /\ k.turn[2] \in Int /\ k.turn[3] \in Int

LEMMA BeforeIsAnOrder ==
  ASSUME NEW j, NEW k, Turned(j), Turned(k), Before(j, k)
  PROVE  /\ ~Before(k, j) /\ j.turn[1] <= k.turn[1]
         /\ \A l : Turned(l) /\ Before(k, l) => Before(j, l)
  BY DEF Turned, Before

ImportJobs(w, part, lang) ==
  UNION {ImportTags(part, i, 1, lang, w.order[i]) :
          i \in RepositoriesFor(w, lang, "symbols")}
InheritJobs(w, part, lang) ==
  UNION {Inherit(part, i, 1, lang, w.order[i]) :
          i \in RepositoriesFor(w, lang, "inheritance")}
ArtifactJobs(w, i) ==
  ImportTags(6, i, 1, "java", w.manifest[i]) \cup Inherit(6, i, 3, "java", w.manifest[i]) \cup
  ImportTags(6, i, 4, "kotlin", w.manifest[i]) \cup
  Inherit(6, i, 6, "kotlin", w.manifest[i]) \cup
  {Job(<<6, i, 7>>, "trace", "java", w.manifest[i])}

LEMMA JobsInParts ==
  ASSUME NEW w
  PROVE  /\ \A k : k \in Jobs(w) <=>
              \/ k \in ImportJobs(w, 1, "java") \/ k \in ImportJobs(w, 2, "kotlin")
              \/ k \in AidlJobs
              \/ k \in InheritJobs(w, 4, "java") \/ k \in InheritJobs(w, 5, "kotlin")
              \/ \E i \in DOMAIN w.manifest : k \in ArtifactJobs(w, i)
              \/ k \in {Job(<<7, 1, 1>>, "annotate", "all", "all"),
                        Job(<<7, 1, 2>>, "collisions", "all", "all")}
         /\ \A k, part, lang : k \in ImportJobs(w, part, lang) <=>
              \E i \in RepositoriesFor(w, lang, "symbols") :
                k \in ImportTags(part, i, 1, lang, w.order[i])
         /\ \A k, part, lang : k \in InheritJobs(w, part, lang) <=>
              \E i \in RepositoriesFor(w, lang, "inheritance") :
                k \in Inherit(part, i, 1, lang, w.order[i])
  <1>1. \A k : k \in VendorJobs(w) <=> \E i \in DOMAIN w.manifest : k \in ArtifactJobs(w, i)
    BY DEF VendorJobs, ArtifactJobs
  <1>2. PlatformJobs(w) = ImportJobs(w, 1, "java") \cup ImportJobs(w, 2, "kotlin") \cup AidlJobs
                          \cup InheritJobs(w, 4, "java") \cup InheritJobs(w, 5, "kotlin")
    BY Zenon DEF PlatformJobs, PlatformSymbols, ImportJobs, InheritJobs
  <1>3. \A k, part, lang : k \in ImportJobs(w, part, lang) <=>
          \E i \in RepositoriesFor(w, lang, "symbols") :
                k \in ImportTags(part, i, 1, lang, w.order[i])
    BY DEF ImportJobs
  <1>4. \A k, part, lang : k \in InheritJobs(w, part, lang) <=>
          \E i \in RepositoriesFor(w, lang, "inheritance") :
                k \in Inherit(part, i, 1, lang, w.order[i])
    BY DEF InheritJobs
  <1> QED BY <1>1, <1>2, <1>3, <1>4 DEF Jobs

Platform(w, k) == k.origin \in DOMAIN w.root /\ k.lang \in w.languages[k.origin]
Artifact(w, k) == k.origin \in ToSet(w.manifest) /\ k.origin \notin DOMAIN w.root

(* Where in the script a command stands. *)
Placed(w, k) ==
  /\ Turned(k)
  /\ CASE k.step = "symbols" -> /\ k.lang \in {"java", "kotlin"}
                                /\ \/ k.turn[1] \in {1, 2} /\ Platform(w, k)
                                   \/ k.turn[1] = 6 /\ Artifact(w, k)
       [] k.step = "members" -> k.lang \in {"java", "kotlin"} /\ k.turn[1] \in {1, 2, 6}
       [] k.step = "interfaces" -> k = Job(<<3, 1, 1>>, "interfaces", "aidl", "all")
       [] k.step = "binder" -> k = Job(<<3, 1, 2>>, "binder", "java", "all")
       [] k.step = "inheritance" -> \/ /\ k.turn[1] = 4 /\ k.lang = "java"
                                       /\ Platform(w, k)
                                    \/ k.turn[1] = 6 /\ Artifact(w, k)
       [] k.step = "trace" -> k.turn[1] = 6
       [] k.step = "annotate" -> k = Job(<<7, 1, 1>>, "annotate", "all", "all")
       [] k.step = "collisions" -> k = Job(<<7, 1, 2>>, "collisions", "all", "all")
       [] OTHER -> FALSE

LEMMA PlanEntries ==
  ASSUME NEW w, Planned(w)
  PROVE  /\ \A lang, capability : \A i \in RepositoriesFor(w, lang, capability) :
              i \in Int /\ w.order[i] \in DOMAIN w.root /\ lang \in w.languages[w.order[i]]
         /\ \A i \in DOMAIN w.manifest :
              /\ i \in Int /\ w.manifest[i] \in ToSet(w.manifest)
              /\ w.manifest[i] \notin DOMAIN w.root
  BY DEF Planned, RepositoriesFor, ToSet

LEMMA JobsPlaced ==
  ASSUME NEW w, Planned(w), NEW k \in Jobs(w)
  PROVE  Placed(w, k)
  <1> USE PlanEntries DEF Placed, Turned, Platform, Artifact, Job
  <1>1. ASSUME NEW i \in RepositoriesFor(w, "java", "symbols"),
               k \in ImportTags(1, i, 1, "java", w.order[i])
        PROVE  Placed(w, k)
    BY <1>1 DEF ImportTags
  <1>2. ASSUME NEW i \in RepositoriesFor(w, "kotlin", "symbols"),
               k \in ImportTags(2, i, 1, "kotlin", w.order[i])
        PROVE  Placed(w, k)
    BY <1>2 DEF ImportTags
  <1>3. CASE k \in AidlJobs BY <1>3 DEF AidlJobs
  <1>4. ASSUME NEW i \in RepositoriesFor(w, "java", "inheritance"),
               k \in Inherit(4, i, 1, "java", w.order[i])
        PROVE  Placed(w, k)
    BY <1>4 DEF Inherit
  <1>5. ASSUME NEW i \in RepositoriesFor(w, "kotlin", "inheritance")
        PROVE  FALSE
    BY <1>5 DEF RepositoriesFor, Capabilities
  <1>6. ASSUME NEW i \in DOMAIN w.manifest, NEW first \in {1, 4}, NEW lang \in {"java", "kotlin"},
               k \in ImportTags(6, i, first, lang, w.manifest[i])
        PROVE  Placed(w, k)
    BY <1>6 DEF ImportTags
  <1>7. ASSUME NEW i \in DOMAIN w.manifest, NEW first \in {3, 6}, NEW lang \in {"java", "kotlin"},
               k \in Inherit(6, i, first, lang, w.manifest[i])
        PROVE  Placed(w, k)
    BY <1>7 DEF Inherit
  <1>8. ASSUME NEW i \in DOMAIN w.manifest,
               k = Job(<<6, i, 7>>, "trace", "java", w.manifest[i])
        PROVE  Placed(w, k)
    BY <1>8
  <1>9. CASE k \in {Job(<<7, 1, 1>>, "annotate", "all", "all"),
                    Job(<<7, 1, 2>>, "collisions", "all", "all")}
    BY <1>9
  <1>10. ASSUME NEW i \in DOMAIN w.manifest, k \in ArtifactJobs(w, i)
         PROVE  Placed(w, k)
    <2>1. \/ k \in ImportTags(6, i, 1, "java", w.manifest[i])
          \/ k \in Inherit(6, i, 3, "java", w.manifest[i])
          \/ k \in ImportTags(6, i, 4, "kotlin", w.manifest[i])
          \/ k \in Inherit(6, i, 6, "kotlin", w.manifest[i])
          \/ k = Job(<<6, i, 7>>, "trace", "java", w.manifest[i])
      BY <1>10, Zenon DEF ArtifactJobs
    <2> QED BY <2>1, <1>6, <1>7, <1>8, Zenon
  <1> QED BY JobsInParts, <1>1, <1>2, <1>3, <1>4, <1>5, <1>9, <1>10, Zenon

(* ... and the commands there are. *)
LEMMA JobsOfOrigins ==
  ASSUME NEW w, Planned(w), NEW lang \in {"java", "kotlin"}
  PROVE  /\ \A o \in DOMAIN w.root : lang \in w.languages[o] =>
              \A step \in Capabilities[lang] :
                \E k \in Jobs(w) : k.step = step /\ k.lang = lang /\ k.origin = o
         /\ \A o \in ToSet(w.manifest) :
              \E k \in Jobs(w) : k.step = "symbols" /\ k.lang = lang /\ k.origin = o
  <1> USE DEF Capabilities
  <1>1. ASSUME NEW o \in DOMAIN w.root, lang \in w.languages[o]
        PROVE  \E k \in Jobs(w) : k.step = "symbols" /\ k.lang = lang /\ k.origin = o
    <2>1. PICK i \in RepositoriesFor(w, lang, "symbols") : w.order[i] = o
      BY <1>1 DEF Planned, RepositoriesFor, ToSet
    <2>2. CASE lang = "java"
      <3>1. Job(<<1, i, 1>>, "symbols", lang, o) \in ImportTags(1, i, 1, "java", w.order[i])
        BY <2>1, <2>2 DEF ImportTags
      <3>2. Job(<<1, i, 1>>, "symbols", lang, o) \in Jobs(w)
        BY <2>1, <2>2, <3>1, JobsInParts, Zenon
      <3> QED BY <3>2 DEF Job
    <2>3. CASE lang = "kotlin"
      <3>1. Job(<<2, i, 1>>, "symbols", lang, o) \in ImportTags(2, i, 1, "kotlin", w.order[i])
        BY <2>1, <2>3 DEF ImportTags
      <3>2. Job(<<2, i, 1>>, "symbols", lang, o) \in Jobs(w)
        BY <2>1, <2>3, <3>1, JobsInParts, Zenon
      <3> QED BY <3>2 DEF Job
    <2> QED BY <2>2, <2>3
  <1>2. ASSUME NEW o \in DOMAIN w.root, lang \in w.languages[o],
               "inheritance" \in Capabilities[lang]
        PROVE  \E k \in Jobs(w) : k.step = "inheritance" /\ k.lang = lang /\ k.origin = o
    <2>1. lang = "java" BY <1>2
    <2>2. PICK i \in RepositoriesFor(w, lang, "inheritance") : w.order[i] = o
      BY <1>2 DEF Planned, RepositoriesFor, ToSet
    <2>3. Job(<<4, i, 1>>, "inheritance", lang, o) \in Inherit(4, i, 1, "java", w.order[i])
      BY <2>1, <2>2 DEF Inherit
    <2>4. Job(<<4, i, 1>>, "inheritance", lang, o) \in Jobs(w)
      BY <2>1, <2>2, <2>3, JobsInParts, Zenon
    <2> QED BY <2>4 DEF Job
  <1>3. ASSUME NEW o \in ToSet(w.manifest)
        PROVE  \E k \in Jobs(w) : k.step = "symbols" /\ k.lang = lang /\ k.origin = o
    <2>1. PICK i \in DOMAIN w.manifest : w.manifest[i] = o BY <1>3 DEF ToSet
    <2>2. CASE lang = "java"
      <3>1. Job(<<6, i, 1>>, "symbols", lang, o) \in ImportTags(6, i, 1, "java", w.manifest[i])
        BY <2>1, <2>2 DEF ImportTags
      <3>2. Job(<<6, i, 1>>, "symbols", lang, o) \in Jobs(w)
        BY <2>1, <3>1, JobsInParts, Zenon DEF ArtifactJobs
      <3> QED BY <3>2 DEF Job
    <2>3. CASE lang = "kotlin"
      <3>1. Job(<<6, i, 4>>, "symbols", lang, o) \in ImportTags(6, i, 4, "kotlin", w.manifest[i])
        BY <2>1, <2>3 DEF ImportTags
      <3>2. Job(<<6, i, 4>>, "symbols", lang, o) \in Jobs(w)
        BY <2>1, <3>1, JobsInParts, Zenon DEF ArtifactJobs
      <3> QED BY <3>2 DEF Job
    <2> QED BY <2>2, <2>3
  <1> QED BY <1>1, <1>2, <1>3

LEMMA SingleJobs ==
  ASSUME NEW w
  PROVE  {Job(<<3, 1, 1>>, "interfaces", "aidl", "all"), Job(<<3, 1, 2>>, "binder", "java", "all"),
          Job(<<7, 1, 1>>, "annotate", "all", "all"),
          Job(<<7, 1, 2>>, "collisions", "all", "all")} \subseteq Jobs(w)
  BY JobsInParts DEF AidlJobs

-----------------------------------------------------------------------------
(* What the sources declare. *)
LEMMA SymbolTypesAre ==
  ASSUME NEW lang \in {"java", "kotlin"}, NEW kind \in DOMAIN NodeType[lang]
  PROVE  /\ NodeType[lang][kind] \in SymbolTypes
         /\ kind \in {"class", "interface"} =>
              NodeType[lang][kind] \in InterfaceTypes \cup ClassTypes
  <1>1. CASE lang = "java"
    <2>1. kind \in {"class", "interface", "enum", "method", "package"}
      BY <1>1 DEF NodeType
    <2> QED BY <1>1, <2>1 DEF NodeType, SymbolTypes, InterfaceTypes, ClassTypes
  <1>2. CASE lang = "kotlin"
    <2>1. kind \in {"class", "interface", "object", "method", "package"}
      BY <1>2 DEF NodeType
    <2> QED BY <1>2, <2>1 DEF NodeType, SymbolTypes, InterfaceTypes, ClassTypes
  <1> QED BY <1>1, <1>2

LEMMA TagsOf ==
  ASSUME NEW w, NEW o, NEW lang, NEW kinds
  PROVE  \A r : r \in Tags(w, o, lang, kinds) <=>
           /\ r = [file |-> r.file, tag |-> r.tag]
           /\ r.file \in FilesOf(w, o) /\ r.file.lang = lang
           /\ r.tag \in r.file.tags /\ r.tag.kind \in kinds
  BY DEF Tags

LEMMA DeclaredAre ==
  ASSUME Planned(world), NEW o \in Origins, NEW r \in Declared(o)
  PROVE  /\ r.file.lang \in {"java", "kotlin"} /\ r.file.lang \in Languages(o)
         /\ r.tag.kind \in DOMAIN NodeType[r.file.lang]
         /\ r \in Tags(world, o, r.file.lang, DOMAIN NodeType[r.file.lang])
         /\ r = [file |-> r.file, tag |-> r.tag]
         /\ r.file \in FilesOf(world, o) /\ r.tag \in r.file.tags /\ FileFound(r.file)
  <1>1. PICK l \in Languages(o) : r \in Tags(world, o, l, DOMAIN NodeType[l])
    BY DEF Declared
  <1>2. l \in {"java", "kotlin"} BY DEF Languages, Planned
  <1>3. /\ r = [file |-> r.file, tag |-> r.tag] /\ r.file.lang = l
        /\ r.tag.kind \in DOMAIN NodeType[l]
        /\ r.file \in FilesOf(world, o) /\ r.tag \in r.file.tags
    BY <1>1, TagsOf
  <1>4. \A f \in FilesOf(world, o) : FileFound(f)
    BY DEF FilesOf, PlatformFiles, Planned, Origins, ToSet
  <1> QED BY <1>1, <1>2, <1>3, <1>4

LEMMA SymbolIdTyped ==
  ASSUME Planned(world), NEW o \in Origins, NEW r \in Declared(o)
  PROVE  /\ SymbolId(r.file, r.tag).type \in SymbolTypes
         /\ SymbolId(r.file, r.tag).name = QualifiedName(r.file, r.tag)
         /\ r.tag.kind \in {"class", "interface"} =>
              SymbolId(r.file, r.tag).type \in InterfaceTypes \cup ClassTypes
  BY DeclaredAre, SymbolTypesAre DEF SymbolId, Id

(* The first repository that annotate finds is the innermost. *)
LEMMA OwnerIsAnnotated ==
  ASSUME Planned(world), NEW o \in Origins, NEW f, FileFound(f)
  PROVE  Annotated(world, f.path, o) = NamedOwner(o, f.path)
  <1>1. \A r, s \in Holders(world, f.path) :
          LongestFirst(Len(world.root[r]), Len(world.root[s])) <=>
            IsPrefix(world.root[s], world.root[r])
    <2> SUFFICES ASSUME NEW r \in Holders(world, f.path), NEW s \in Holders(world, f.path)
                 PROVE  LongestFirst(Len(world.root[r]), Len(world.root[s])) <=>
                          IsPrefix(world.root[s], world.root[r])
      OBVIOUS
    <2>1. /\ world.root[r] \in Seq(STRING) /\ world.root[s] \in Seq(STRING)
          /\ IsPrefix(world.root[r], f.path) /\ IsPrefix(world.root[s], f.path)
      BY DEF Holders, Planned, Names
    <2>2. f.path \in Seq(STRING) BY DEF FileFound, Names
    <2> QED BY <2>1, <2>2 DEF IsPrefix, LongestFirst
  <1> DEFINE H == Holders(world, f.path)
             longest == CHOOSE r \in H : \A s \in H :
                          LongestFirst(Len(world.root[r]), Len(world.root[s]))
             innermost == CHOOSE r \in H : \A s \in H : IsPrefix(world.root[s], world.root[r])
  <1>2. longest = innermost BY <1>1
  <1>3. Annotated(world, f.path, o) = IF H = {} THEN o ELSE longest BY Zenon DEF Annotated
  <1>4. NamedOwner(o, f.path) = IF H = {} THEN o ELSE innermost
    BY Zenon DEF NamedOwner, Innermost
  <1> HIDE DEF H, longest, innermost
  <1> QED BY <1>2, <1>3, <1>4

(* A file of a repository, or one that no repository holds, bears the name of *)
(* its owner.                                                                *)
LEMMA OwnerIsNamed ==
  ASSUME Planned(world), NEW o \in Origins, NEW f \in FilesOf(world, o), FileFound(f),
         o \in DOMAIN world.root \/ Holders(world, f.path) = {}
  PROVE  NamedOwner(o, f.path) = InnermostOwner(o, f.path)
  <1>1. CASE o \in DOMAIN world.root
    <2>1. IsPrefix(world.root[o], f.path) BY <1>1 DEF FilesOf, PlatformFiles
    <2>2. o \in Holders(world, f.path) /\ o \notin DOMAIN world.artifact
      BY <1>1, <2>1 DEF Holders, Planned
    <2> QED BY <2>2 DEF NamedOwner, InnermostOwner
  <1>2. CASE o \notin DOMAIN world.root
    <2>1. o \in DOMAIN world.artifact BY <1>2 DEF Planned, Origins, ToSet
    <2> QED BY <1>2, <2>1 DEF NamedOwner, InnermostOwner
  <1> QED BY <1>1, <1>2

-----------------------------------------------------------------------------
(* The schedule. *)
LEMMA ScheduleFacts ==
  ASSUME ScheduleInv
  PROVE  /\ Planned(world) /\ Turned(job)
         /\ \A k \in Jobs(world) : Turned(k) /\ Placed(world, k)
         /\ job # NoJob => Placed(world, job)
         /\ \A k \in jobs : job.turn[1] <= k.turn[1]
         /\ \A k \in Jobs(world) : k \notin jobs => k.turn[1] <= job.turn[1]
  <1>1. Planned(world) BY WorldsAssumption DEF ScheduleInv
  <1>2. \A k \in Jobs(world) : Placed(world, k) BY <1>1, JobsPlaced
  <1>3. \A k \in Jobs(world) : Turned(k) BY <1>2 DEF Placed
  <1>4. Turned(job) BY <1>3 DEF ScheduleInv, NoJob, Job, Turned
  <1>5. \A k \in jobs : job.turn[1] <= k.turn[1]
    BY <1>3, <1>4, BeforeIsAnOrder DEF ScheduleInv
  <1>6. \A k \in Jobs(world) : k \notin jobs => k.turn[1] <= job.turn[1]
    BY <1>3, <1>4, BeforeIsAnOrder DEF ScheduleInv, Turned
  <1> QED BY <1>1, <1>2, <1>3, <1>4, <1>5, <1>6 DEF ScheduleInv

(* A command begins: nothing is left of the one before. *)
LEMMA NextJobSchedule ==
  ASSUME ScheduleInv, NextJob
  PROVE  /\ ScheduleInv'
         /\ job' \in jobs /\ job' # NoJob /\ jobs' = jobs \ {job'} /\ items' = Items(world, job')
         /\ items = {} /\ seen' = {} /\ job.turn[1] <= job'.turn[1]
         /\ UNCHANGED <<world, graph, unresolved, collisions, outcome>> /\ ~Final /\ ~Final'
         /\ \A k \in jobs' : job'.turn[1] <= k.turn[1]
         /\ \A step, lang, origin, item :
              (Left(step, lang, origin, item) =>
                 Left(step, lang, origin, item)' \/
                 (job'.step = step /\ job'.lang = lang /\ job'.origin = origin
                    /\ item \notin items'))
  <1>1. /\ outcome = "running" /\ items = {}
        /\ job' \in jobs /\ \A k \in jobs \ {job'} : Before(job', k)
        /\ jobs' = jobs \ {job'} /\ items' = Items(world, job') /\ seen' = {}
        /\ UNCHANGED <<world, graph, unresolved, collisions, outcome>>
    BY DEF NextJob
  <1>2. Before(job, job') /\ job' \in Jobs(world) BY <1>1 DEF ScheduleInv
  <1>3. Turned(job') BY <1>2, ScheduleFacts
  <1>4. job' # NoJob
    BY <1>2, ScheduleFacts DEF Placed, NoJob, Job
  <1>5. ScheduleInv'
    <2>1. \A k \in jobs' : Before(job', k) BY <1>1
    <2>2. ASSUME NEW k \in Jobs(world), k \notin jobs', k # job'
          PROVE  Before(k, job')
      <3>1. k \notin jobs BY <2>2, <1>1
      <3>2. k = job \/ Before(k, job) BY <3>1, <2>2 DEF ScheduleInv
      <3> QED BY <3>2, <1>2, <1>3, ScheduleFacts, BeforeIsAnOrder
    <2> QED BY <2>1, <2>2, <1>1, <1>2, <1>4, Zenon DEF ScheduleInv, Final
  <1>6. job.turn[1] <= job'.turn[1] BY <1>1, ScheduleFacts
  <1>7. \A k \in jobs' : job'.turn[1] <= k.turn[1]
    BY <1>5, <1>3, <1>1, ScheduleFacts, BeforeIsAnOrder DEF ScheduleInv
  <1> QED BY <1>1, <1>4, <1>5, <1>6, <1>7, Zenon DEF Left, Final

(* An item is taken: the others are left. *)
Takes(item) == item \in items /\ Take(item) /\ ~Final
LEMMA TakeSchedule ==
  ASSUME ScheduleInv, NEW item, Takes(item), ~Final' \/ job.step = "collisions"
  PROVE  /\ ScheduleInv'
         /\ job # NoJob /\ item \in Items(world, job)
         /\ \A step, lang, origin, x :
              (Left(step, lang, origin, x) =>
                 Left(step, lang, origin, x)' \/
                 (job.step = step /\ job.lang = lang /\ job.origin = origin /\ x = item))
  <1>1. item \in items /\ items' = items \ {item} /\ UNCHANGED <<world, job, jobs>>
    BY DEF Takes, Take
  <1>2. job # NoJob /\ item \in Items(world, job) BY <1>1 DEF ScheduleInv
  <1>3. /\ world' \in Worlds
        /\ job' \in Jobs(world)' \cup {NoJob'} /\ jobs' \subseteq Jobs(world)'
        /\ \A k \in jobs' : Before(job', k)
        /\ \A k \in Jobs(world)' : k \in jobs' \/ k = job' \/ Before(k, job')
    BY <1>1 DEF ScheduleInv
  <1>4. items' \subseteq Items(world, job)' BY <1>1, <1>2 DEF ScheduleInv
  <1>5. Final' => job'.step = "collisions" /\ items' = {}
    <2>1. CASE job.step = "collisions"
      <3>1. items \subseteq {job} BY <1>2, <2>1 DEF ScheduleInv, Items
      <3> QED BY <3>1, <2>1, <1>1
    <2> QED BY <2>1, <1>1
  <1>6. job' # NoJob' BY <1>1, <1>2
  <1>7. ScheduleInv' BY <1>3, <1>4, <1>5, <1>6, Zenon DEF ScheduleInv
  <1> QED BY <1>1, <1>2, <1>7, Zenon DEF Left

-----------------------------------------------------------------------------
(* What every import does to the graph: it adds nodes and edges that the      *)
(* sources account for, and reports what it cannot resolve.                  *)
NodesGrow ==
  /\ Shaped(graph') /\ DOMAIN graph.node \subseteq DOMAIN graph'.node
  /\ \A n \in DOMAIN graph'.node :
       /\ n \in DOMAIN graph.node \/ KnownNode(n)
       /\ n.type = "SYMBOL_DEFINITION" =>
            \/ graph'.node[n].path = n.path /\ graph'.node[n].repository = n.repository
            \/ /\ n \in DOMAIN graph.node
               /\ graph'.node[n].path = graph.node[n].path
               /\ graph'.node[n].repository = graph.node[n].repository
EdgesGrow ==
  /\ graph.edge \subseteq graph'.edge
  /\ \A e \in graph'.edge \ graph.edge :
       /\ e.type = "DEFINES_SYMBOL" => \E o \in Origins : \E r \in Declared(o) :
            e = Link(o, r) /\ {e.from, e.to} \subseteq DOMAIN graph'.node
       /\ e.type = "IMPLEMENTS_BINDER" => BothKnown(e.from, e.to)
ReportGrows ==
  /\ unresolved \subseteq unresolved'
  /\ \A m \in unresolved' \ unresolved : m.report = "binder" => ~BothKnown(m.child, m.parent)
SeenGrows ==
  \A o \in DOMAIN world.root : job.step = "inheritance" /\ job.origin = o =>
    \A key \in seen' : key \in seen \/ SeenFrom(o, key)'

(* What the item that is taken leaves. *)
Brought(item) ==
  /\ job.step = "symbols" => Defined(job.origin, item)'
  /\ job.step = "interfaces" =>
       Id("AIDL_INTERFACE", InterfaceName(item)) \in DOMAIN graph'.node
  /\ job.step = "binder" =>
       LET class == Id("JAVA_CLASS", item.class) aidl == Id("AIDL_INTERFACE", item.aidl)
       IN Drawn(class, aidl)' \/ Missing("binder", class, aidl, item.path) \in unresolved'
  /\ \A o \in DOMAIN world.root : job.step = "inheritance" /\ job.origin = o =>
       \A r \in Declared(o), x \in item.tag.inherits :
         r.tag.kind \in {"class", "interface"} /\
         item = [file |-> r.file, tag |-> r.tag, reference |-> x]
           => SuperDrawn(o, r, x)'

LEMMA SameSources ==
  ASSUME world' = world
  PROVE  /\ Origins' = Origins /\ \A o : Declared(o)' = Declared(o)
         /\ PlatformTypes' = PlatformTypes /\ InterfaceNames' = InterfaceNames
         /\ \A n : job' = job => KnownNode(n)' = KnownNode(n)
         /\ \A c, a : BothKnown(c, a)' = BothKnown(c, a)
         /\ \A r, x : Meant(r, x)' = Meant(r, x) /\ Children(r)' = Children(r)
  <1>1. Origins' = Origins BY DEF Origins
  <1>2. \A o : Declared(o)' = Declared(o) BY DEF Declared, Languages
  <1>3. PlatformTypes' = PlatformTypes BY <1>2 DEF PlatformTypes, DeclaredIn
  <1>4. InterfaceNames' = InterfaceNames BY DEF InterfaceNames
  <1>5. \A n : job' = job => KnownNode(n)' = KnownNode(n) BY <1>3, <1>4 DEF KnownNode
  <1>6. \A c, a : BothKnown(c, a)' = BothKnown(c, a) BY <1>3, <1>4 DEF BothKnown
  <1>7. \A x : Named(x)' = Named(x) BY <1>3 DEF Named
  <1>8. \A r, x : Imported(r, x)' = Imported(r, x) BY <1>7 DEF Imported
  <1>9. \A r, x : Meant(r, x)' = Meant(r, x) BY <1>7, <1>8 DEF Meant
  <1>10. \A r : Children(r)' = Children(r) BY <1>3 DEF Children
  <1> QED BY <1>1, <1>2, <1>3, <1>4, <1>5, <1>6, <1>9, <1>10

LEMMA MoreOfTheSame ==
  ASSUME world' = world, DOMAIN graph.node \subseteq DOMAIN graph'.node,
         graph.edge \subseteq graph'.edge
  PROVE  /\ \A o, r : Defined(o, r) => Defined(o, r)'
         /\ \A c, a : Drawn(c, a) => Drawn(c, a)'
         /\ \A o, c, p : DrawnFrom(o, c, p) => DrawnFrom(o, c, p)'
         /\ \A o, r, x : SuperDrawn(o, r, x) => SuperDrawn(o, r, x)'
         /\ \A o, key : SeenFrom(o, key) => SeenFrom(o, key)'
  <1>1. \A o, r : Defined(o, r) => Defined(o, r)' BY DEF Defined, Link
  <1>2. \A c, a : Drawn(c, a) => Drawn(c, a)' BY DEF Drawn
  <1>3. \A o, c, p : DrawnFrom(o, c, p) => DrawnFrom(o, c, p)' BY SameSources DEF DrawnFrom
  <1>4. \A o, r, x : SuperDrawn(o, r, x) => SuperDrawn(o, r, x)'
    BY <1>3, SameSources DEF SuperDrawn
  <1>5. \A o, key : SeenFrom(o, key) => SeenFrom(o, key)' BY <1>3 DEF SeenFrom
  <1> QED BY <1>1, <1>2, <1>3, <1>4, <1>5

LEMMA GrowStep ==
  ASSUME SymbolInv, NEW item, Takes(item), job.step \notin {"annotate", "collisions"},
         NodesGrow, EdgesGrow, ReportGrows, SeenGrows, Brought(item), UNCHANGED <<collisions, outcome>>
  PROVE  SymbolInv'
  <1> USE DEF SymbolInv
  <1>1. /\ item \in items /\ items' = items \ {item} /\ UNCHANGED <<world, job, jobs>>
        /\ ~Final /\ ~Final'
    BY DEF Takes, Take, Final
  <1>2. /\ ScheduleInv'
        /\ \A step, lang, origin, x :
             (Left(step, lang, origin, x) =>
                Left(step, lang, origin, x)' \/
                (job.step = step /\ job.lang = lang /\ job.origin = origin /\ x = item))
    BY <1>1, TakeSchedule
  <1>3. /\ \A o, r : Defined(o, r) => Defined(o, r)'
        /\ \A c, a : Drawn(c, a) => Drawn(c, a)'
        /\ \A o, r, x : SuperDrawn(o, r, x) => SuperDrawn(o, r, x)'
        /\ \A o, key : SeenFrom(o, key) => SeenFrom(o, key)'
    BY <1>1, MoreOfTheSame DEF NodesGrow, EdgesGrow
  <1>4. /\ Origins' = Origins /\ \A o : Declared(o)' = Declared(o)
        /\ InterfaceNames' = InterfaceNames
        /\ \A n : KnownNode(n)' = KnownNode(n)
        /\ \A c, a : BothKnown(c, a)' = BothKnown(c, a)
    BY <1>1, SameSources
  <1>5. NodesInv'
    <2>1. ~Annotation /\ ~Annotation' BY <1>1 DEF Annotation
    <2> QED BY <2>1, <1>1 DEF NodesInv, NodesGrow
  <1>6. DefinedInv'
    <2>1. ASSUME NEW o \in Origins, NEW r \in Declared(o)
          PROVE  Left("symbols", r.file.lang, o, r)' \/ Defined(o, r)'
      <3>1. Left("symbols", r.file.lang, o, r) \/ Defined(o, r) BY DEF DefinedInv
      <3>2. CASE job.step = "symbols" /\ job.origin = o /\ r = item
        BY <3>2, <1>1 DEF Brought
      <3> QED BY <3>1, <3>2, <1>2, <1>3
    <2>2. ASSUME NEW e \in graph'.edge, e.type = "DEFINES_SYMBOL"
          PROVE  \E o \in Origins : \E r \in Declared(o) : e = Link(o, r) /\ Defined(o, r)'
      <3>1. CASE e \in graph.edge BY <2>2, <3>1, <1>3, Zenon DEF DefinedInv
      <3>2. CASE e \notin graph.edge
        <4>1. PICK o \in Origins : \E r \in Declared(o) :
                e = Link(o, r) /\ {e.from, e.to} \subseteq DOMAIN graph'.node
          BY <2>2, <3>2 DEF EdgesGrow
        <4>2. PICK r \in Declared(o) :
                e = Link(o, r) /\ {e.from, e.to} \subseteq DOMAIN graph'.node
          BY <4>1
        <4>3. Link(o, r)' = Link(o, r) BY DEF Link
        <4> QED BY <4>2, <4>3 DEF Defined
      <3> QED BY <3>1, <3>2
    <2>3. \A o, r : Link(o, r)' = Link(o, r) BY DEF Link
    <2> QED BY <1>4, <2>1, <2>2, <2>3, Zenon DEF DefinedInv
  <1>7. KnownInv'
    <2>1. \A n \in DOMAIN graph'.node : KnownNode(n)
      BY DEF NodesGrow, KnownInv
    <2>2. ASSUME NEW f \in Interfaces(world)
          PROVE  Left("interfaces", "aidl", "all", f)' \/
                 Id("AIDL_INTERFACE", InterfaceName(f)) \in DOMAIN graph'.node
      <3>1. job.step = "interfaces" /\ f = item =>
              Id("AIDL_INTERFACE", InterfaceName(f)) \in DOMAIN graph'.node
        BY DEF Brought
      <3>2. DOMAIN graph.node \subseteq DOMAIN graph'.node BY DEF NodesGrow
      <3> QED BY <3>1, <3>2, <1>2 DEF KnownInv
    <2> QED BY <2>1, <2>2, <1>1, <1>4 DEF KnownInv
  <1>8. BinderInv'
    <2>1. \A e \in graph'.edge : e.type = "IMPLEMENTS_BINDER" => BothKnown(e.from, e.to)
      BY DEF BinderInv, EdgesGrow
    <2>2. \A m \in unresolved' : m.report = "binder" => ~BothKnown(m.child, m.parent)
      BY DEF BinderInv, ReportGrows
    <2>3. ASSUME NEW r \in Relations(world)
          PROVE  \/ Left("binder", "java", "all", r)'
                 \/ Drawn(Id("JAVA_CLASS", r.class), Id("AIDL_INTERFACE", r.aidl))'
                 \/ Missing("binder", Id("JAVA_CLASS", r.class),
                            Id("AIDL_INTERFACE", r.aidl), r.path) \in unresolved'
      <3>1. unresolved \subseteq unresolved' BY DEF ReportGrows
      <3>2. job.step = "binder" /\ r = item =>
              \/ Drawn(Id("JAVA_CLASS", r.class), Id("AIDL_INTERFACE", r.aidl))'
              \/ Missing("binder", Id("JAVA_CLASS", r.class),
                         Id("AIDL_INTERFACE", r.aidl), r.path) \in unresolved'
        BY DEF Brought
      <3> QED BY <3>1, <3>2, <1>2, <1>3 DEF BinderInv
    <2>4. Relations(world)' = Relations(world) BY <1>1
    <2> QED BY <2>1, <2>2, <2>3, <2>4, <1>4, Zenon DEF BinderInv
  <1>9. SupertypesInv'
    <2>1. ASSUME NEW o \in DOMAIN world.root, NEW r \in Declared(o),
                 r.tag.kind \in {"class", "interface"},
                 "inheritance" \in Capabilities[r.file.lang], NEW x \in r.tag.inherits
          PROVE  \/ Left("inheritance", r.file.lang, o,
                         [file |-> r.file, tag |-> r.tag, reference |-> x])'
                 \/ SuperDrawn(o, r, x)'
      <3> DEFINE it == [file |-> r.file, tag |-> r.tag, reference |-> x]
      <3>1. Left("inheritance", r.file.lang, o, it) \/ SuperDrawn(o, r, x)
        BY <2>1, Zenon DEF SupertypesInv
      <3>2. CASE job.step = "inheritance" /\ job.origin = o /\ it = item
        <4>1. x \in item.tag.inherits BY <3>2
        <4> HIDE DEF it
        <4> QED BY <4>1, <3>2, <2>1 DEF Brought, it
      <3> HIDE DEF it
      <3>3. SuperDrawn(o, r, x) => SuperDrawn(o, r, x)' BY <1>3
      <3> QED BY <3>1, <3>2, <3>3, <1>2, Zenon DEF it
    <2> QED BY <2>1, <1>1, <1>4 DEF SupertypesInv
  <1>10. SeenInv'
    <2>1. \A o \in DOMAIN world.root : job.step = "inheritance" /\ job.origin = o =>
            \A key \in seen' : SeenFrom(o, key)'
      BY <1>3, Zenon DEF SeenInv, SeenGrows
    <2> QED BY <2>1, <1>1 DEF SeenInv
  <1>11. ReportInv' BY <1>1 DEF ReportInv
  <1> QED BY <1>2, <1>5, <1>6, <1>7, <1>8, <1>9, <1>10, <1>11

-----------------------------------------------------------------------------
(* GraphWriter *)
LEMMA NodesUpserted ==
  ASSUME NEW g, Shaped(g), NEW ids, NEW path, NEW repository,
         NEW h, h = UpsertNodes(g, ids, path, repository)
  PROVE  /\ Shaped(h) /\ h.edge = g.edge /\ DOMAIN h.node = DOMAIN g.node \cup ids
         /\ \A n \in ids : h.node[n].path = path /\ h.node[n].repository = repository
         /\ \A n \in DOMAIN g.node \ ids : h.node[n] = g.node[n]
  <1> DEFINE row == [path |-> path, repository |-> repository, definitions |-> 0,
                     resolution |-> "none"]
             node == [id \in ids \cup DOMAIN g.node |-> IF id \in ids THEN row ELSE g.node[id]]
  <1>1. /\ node = [n \in DOMAIN node |-> node[n]] /\ DOMAIN node = DOMAIN g.node \cup ids
        /\ \A n \in ids : node[n] = row
        /\ \A n \in DOMAIN g.node \ ids : node[n] = g.node[n]
    <2> HIDE DEF row
    <2> QED OBVIOUS
  <1>2. h.node = node /\ h.edge = g.edge /\ h = [node |-> node, edge |-> g.edge]
    BY DEF UpsertNodes, Shaped
  <1>3. \A n \in DOMAIN node : Row(node[n])
    <2>1. Row(row) BY DEF Row
    <2> HIDE DEF row, node
    <2> QED BY <1>1, <2>1 DEF Shaped
  <1>4. row.path = path /\ row.repository = repository OBVIOUS
  <1> HIDE DEF row, node
  <1> QED BY <1>1, <1>2, <1>3, <1>4 DEF Shaped

LEMMA EdgeUpserted ==
  ASSUME NEW g, Shaped(g), NEW type, NEW from, NEW to, NEW path, NEW line,
         NEW h, h = UpsertEdge(g, type, from, to, path, line)
  PROVE  Shaped(h) /\ h.node = g.node /\ h.edge = g.edge \cup {GraphRow(type, from, to, path, line)}
  BY DEF UpsertEdge, Shaped

LEMMA DefinitionUpserted ==
  ASSUME NEW g, Shaped(g), NEW symbol \in DOMAIN g.node, NEW repository, NEW path, NEW line,
         NEW d, d = DefinitionId(repository, path, line, symbol), d # symbol,
         NEW h, h = UpsertDefinition(g, symbol, repository, path, line)
  PROVE  /\ Shaped(h) /\ DOMAIN h.node = DOMAIN g.node \cup {d}
         /\ h.edge = g.edge \cup {GraphRow("DEFINES_SYMBOL", d, symbol, path, line)}
         /\ h.node[d].path = path /\ h.node[d].repository = repository
         /\ \A n \in DOMAIN g.node \ {d} : /\ h.node[n].path = g.node[n].path
                                           /\ h.node[n].repository = g.node[n].repository
  <1> DEFINE with == UpsertNode(g, d, path, repository)
             linked == UpsertEdge(with, "DEFINES_SYMBOL", d, symbol, path, line)
             all == Definitions(linked, symbol)
             repositories == {linked.node[x].repository : x \in all}
             count == Cardinality(all)
             status == IF Cardinality(repositories) > 1 THEN "ambiguous" ELSE "unique"
  <1>1. /\ Shaped(with) /\ with.edge = g.edge /\ DOMAIN with.node = DOMAIN g.node \cup {d}
        /\ with.node[d].path = path /\ with.node[d].repository = repository
        /\ \A n \in DOMAIN g.node \ {d} : with.node[n] = g.node[n]
    BY NodesUpserted DEF UpsertNode
  <1>2. /\ Shaped(linked) /\ linked.node = with.node
        /\ linked.edge = with.edge \cup {GraphRow("DEFINES_SYMBOL", d, symbol, path, line)}
    BY <1>1, EdgeUpserted
  <1>3. h = [linked EXCEPT !.node[symbol].definitions = count, !.node[symbol].resolution = status]
    BY DEF UpsertDefinition
  <1> HIDE DEF with, linked, count, status
  <1>4. linked.node[symbol] = [path |-> linked.node[symbol].path,
                               repository |-> linked.node[symbol].repository,
                               definitions |-> linked.node[symbol].definitions,
                               resolution |-> linked.node[symbol].resolution]
    BY <1>1, <1>2 DEF Shaped, Row
  <1>5. /\ h.edge = linked.edge /\ h = [node |-> h.node, edge |-> h.edge]
        /\ h.node = [linked.node EXCEPT
                       ![symbol].definitions = count, ![symbol].resolution = status]
    BY <1>2, <1>3 DEF Shaped
  <1>6. /\ DOMAIN h.node = DOMAIN linked.node
        /\ h.node = [n \in DOMAIN h.node |-> h.node[n]]
        /\ h.node[symbol] = [linked.node[symbol] EXCEPT !.definitions = count,
                                                        !.resolution = status]
        /\ \A n \in DOMAIN linked.node \ {symbol} : h.node[n] = linked.node[n]
    <2> DEFINE t == linked.node
               counted == [t EXCEPT ![symbol] = [t[symbol] EXCEPT !.definitions = count]]
    <2>1. symbol \in DOMAIN t BY <1>1, <1>2
    <2>2. h.node = [counted EXCEPT
                      ![symbol] = [counted[symbol] EXCEPT !.resolution = status]]
      BY <1>5
    <2>3. /\ DOMAIN counted = DOMAIN t
          /\ counted[symbol] = [t[symbol] EXCEPT !.definitions = count]
          /\ \A n \in DOMAIN t \ {symbol} : counted[n] = t[n]
      BY <2>1
    <2>4. /\ DOMAIN h.node = DOMAIN counted /\ h.node = [n \in DOMAIN h.node |-> h.node[n]]
          /\ h.node[symbol] = [counted[symbol] EXCEPT !.resolution = status]
          /\ \A n \in DOMAIN t \ {symbol} : h.node[n] = counted[n]
      <3> HIDE DEF counted
      <3> QED BY <2>1, <2>2, <2>3
    <2> HIDE DEF counted
    <2> QED BY <2>3, <2>4
  <1>7. /\ Row(h.node[symbol]) /\ h.node[symbol].path = linked.node[symbol].path
        /\ h.node[symbol].repository = linked.node[symbol].repository
    BY <1>4, <1>6 DEF Row
  <1>8. Shaped(h) BY <1>2, <1>5, <1>6, <1>7 DEF Shaped
  <1> QED BY <1>1, <1>2, <1>5, <1>6, <1>7, <1>8

-----------------------------------------------------------------------------
(* The commands. *)
LEMMA JobUnderWay ==
  ASSUME SymbolInv, NEW step \in {"symbols", "members", "interfaces", "binder", "inheritance",
                                  "trace", "annotate", "collisions"}, Step(step)
  PROVE  /\ Planned(world) /\ Shaped(graph) /\ ~Final /\ job \in Jobs(world)
         /\ Turned(job) /\ Placed(world, job)
         /\ items \subseteq Items(world, job) /\ job.step = step
  <1>1. job.step = step /\ job # NoJob BY DEF Step, NoJob, Job
  <1> QED BY <1>1, ScheduleFacts DEF SymbolInv, ScheduleInv, NodesInv, Step, Final

LEMMA SymbolsUnderWay ==
  ASSUME SymbolInv, Step("symbols"), NEW r \in items
  PROVE  /\ job.origin \in Origins /\ r \in Declared(job.origin)
         /\ job.turn[1] < 6 => job.origin \in DOMAIN world.root
  <1>1. Planned(world) /\ Placed(world, job) /\ job.step = "symbols" /\ r \in Items(world, job)
    BY JobUnderWay
  <1>2. /\ job.lang \in {"java", "kotlin"}
        /\ \/ job.turn[1] \in {1, 2} /\ Platform(world, job)
           \/ job.turn[1] = 6 /\ Artifact(world, job)
    BY <1>1 DEF Placed
  <1>3. job.origin \in Origins /\ job.lang \in Languages(job.origin)
    BY <1>2 DEF Platform, Artifact, Origins, Languages
  <1>4. r \in Tags(world, job.origin, job.lang, DOMAIN NodeType[job.lang])
    BY <1>1 DEF Items
  <1> QED BY <1>2, <1>3, <1>4 DEF Declared, Platform

LEMMA ImportSymbolStep ==
  ASSUME SymbolInv, ImportSymbol
  PROVE  SymbolInv'
  <1>1. PICK r \in items :
          LET id == SymbolId(r.file, r.tag)
              path == r.file.path
              defined == UpsertDefinition(UpsertNode(graph, id, path, NoRepository), id,
                           job.origin, path, r.tag.line)
              filed == UpsertNode(defined, Id("FILE", path), path, NoRepository)
          IN /\ graph' = UpsertEdge(filed, "DECLARED_IN", id, Id("FILE", path),
                                    path, r.tag.line)
             /\ Take(r)
    BY DEF ImportSymbol
  <1> DEFINE o == job.origin
             id == SymbolId(r.file, r.tag)
             path == r.file.path
             file == Id("FILE", path)
             d == DefinitionId(o, path, r.tag.line, id)
             with == UpsertNode(graph, id, path, NoRepository)
             defined == UpsertDefinition(with, id, o, path, r.tag.line)
             filed == UpsertNode(defined, file, path, NoRepository)
  <1>2. Step("symbols") /\ UNCHANGED <<unresolved, collisions, outcome>> BY DEF ImportSymbol
  <1>3. Shaped(graph) /\ ~Final /\ Planned(world) /\ Turned(job) /\ job.step = "symbols"
    BY <1>2, JobUnderWay
  <1>4. /\ o \in Origins /\ r \in Declared(o)
        /\ job.turn[1] < 6 => o \in DOMAIN world.root
    BY <1>2, SymbolsUnderWay
  <1>5. id.type \in SymbolTypes BY <1>3, <1>4, SymbolIdTyped
  <1>6. /\ id.type \notin {"SYMBOL_DEFINITION", "FILE", "AIDL_INTERFACE"}
        /\ d.type = "SYMBOL_DEFINITION" /\ d.path = path /\ d.repository = o
        /\ file.type = "FILE"
    BY <1>5 DEF SymbolTypes, DefinitionId, Id
  <1>7. d # id /\ d # file /\ id # file BY <1>6
  <1> HIDE DEF id, d, file, path, o
  <1>8. /\ Shaped(with) /\ with.edge = graph.edge /\ DOMAIN with.node = DOMAIN graph.node \cup {id}
        /\ \A n \in DOMAIN graph.node \ {id} : with.node[n] = graph.node[n]
    BY <1>3, NodesUpserted DEF UpsertNode
  <1> HIDE DEF with
  <1>9. /\ Shaped(defined) /\ DOMAIN defined.node = DOMAIN graph.node \cup {id, d}
        /\ defined.edge = graph.edge \cup {GraphRow("DEFINES_SYMBOL", d, id, path, r.tag.line)}
        /\ defined.node[d].path = path /\ defined.node[d].repository = o
        /\ \A n \in DOMAIN graph.node \ {id, d} :
             /\ defined.node[n].path = graph.node[n].path
             /\ defined.node[n].repository = graph.node[n].repository
    <2>1. id \in DOMAIN with.node /\ d = DefinitionId(o, path, r.tag.line, id)
      BY <1>8 DEF d, o, path
    <2> QED BY <2>1, <1>7, <1>8, DefinitionUpserted
  <1> HIDE DEF defined
  <1>10. /\ Shaped(filed) /\ filed.edge = defined.edge
         /\ DOMAIN filed.node = DOMAIN graph.node \cup {id, d, file}
         /\ \A n \in DOMAIN defined.node \ {file} : filed.node[n] = defined.node[n]
    BY <1>9, NodesUpserted DEF UpsertNode
  <1> HIDE DEF filed
  <1>11. /\ Shaped(graph') /\ graph'.node = filed.node
         /\ graph'.edge = filed.edge \cup {GraphRow("DECLARED_IN", id, file, path, r.tag.line)}
    <2>1. graph' = UpsertEdge(filed, "DECLARED_IN", id, file, path, r.tag.line)
      BY <1>1 DEF filed, defined, with, id, path, file, o
    <2> QED BY <2>1, <1>10, EdgeUpserted
  <1>12. NodesGrow
    <2>1. KnownNode(id)
      <3>1. id \in PlatformTypes \/ job.turn[1] >= 6 \/ id.type \notin InterfaceTypes \cup ClassTypes
        BY <1>3, <1>4 DEF PlatformTypes, DeclaredIn, id, Turned
      <3> QED BY <3>1, <1>6 DEF KnownNode
    <2>2. KnownNode(d) /\ KnownNode(file)
      BY <1>6 DEF KnownNode, InterfaceTypes, ClassTypes
    <2>3. ASSUME NEW n \in DOMAIN graph'.node, n.type = "SYMBOL_DEFINITION"
          PROVE  \/ graph'.node[n].path = n.path /\ graph'.node[n].repository = n.repository
                 \/ /\ n \in DOMAIN graph.node
                    /\ graph'.node[n].path = graph.node[n].path
                    /\ graph'.node[n].repository = graph.node[n].repository
      <3>1. n # id /\ n # file BY <2>3, <1>6
      <3>2. CASE n = d BY <3>2, <3>1, <1>6, <1>7, <1>9, <1>10, <1>11
      <3>3. CASE n # d BY <3>1, <3>3, <1>9, <1>10, <1>11
      <3> QED BY <3>2, <3>3
    <2> QED BY <2>1, <2>2, <2>3, <1>10, <1>11 DEF NodesGrow
  <1>13. GraphRow("DEFINES_SYMBOL", d, id, path, r.tag.line) = Link(o, r)
    BY DEF Link, d, id, path, o
  <1>14. /\ Link(o, r).from = d /\ Link(o, r).to = id
    BY <1>13 DEF GraphRow
  <1>15. EdgesGrow
    <2>1. ASSUME NEW e \in graph'.edge, e \notin graph.edge
          PROVE  e = Link(o, r) \/ e.type = "DECLARED_IN"
      BY <2>1, <1>9, <1>10, <1>11, <1>13 DEF GraphRow
    <2>2. Link(o, r).type = "DEFINES_SYMBOL" BY DEF Link, GraphRow
    <2>3. graph.edge \subseteq graph'.edge BY <1>9, <1>10, <1>11
    <2>4. {Link(o, r).from, Link(o, r).to} \subseteq DOMAIN graph'.node
      BY <1>10, <1>11, <1>14
    <2> QED BY <2>1, <2>2, <2>3, <2>4, <1>4 DEF EdgesGrow
  <1>16. ReportGrows BY <1>2 DEF ReportGrows
  <1>17. Brought(r)
    <2>1. Link(o, r)' = Link(o, r) /\ job' = job BY <1>1 DEF Link, Take, o
    <2>2. Defined(job.origin, r)'
      BY <2>1, <1>9, <1>10, <1>11, <1>13, <1>14 DEF Defined, o
    <2> QED BY <2>2, <1>3 DEF Brought
  <1> QED BY <1>1, <1>2, <1>3, <1>12, <1>15, <1>16, <1>17, GrowStep DEF Takes, SeenGrows

(* One edge more, or none. *)
LEMMA EdgeAdded ==
  ASSUME Shaped(graph), NEW type, NEW from, NEW to, NEW path, NEW line,
         type # "DEFINES_SYMBOL", type = "IMPLEMENTS_BINDER" => BothKnown(from, to),
         graph' \in {graph, UpsertEdge(graph, type, from, to, path, line)}
  PROVE  NodesGrow /\ EdgesGrow
  <1>1. /\ Shaped(graph') /\ graph'.node = graph.node
        /\ graph'.edge \in {graph.edge, graph.edge \cup {GraphRow(type, from, to, path, line)}}
    BY EdgeUpserted
  <1>2. NodesGrow BY <1>1 DEF NodesGrow
  <1>3. EdgesGrow BY <1>1 DEF EdgesGrow, GraphRow
  <1> QED BY <1>2, <1>3

LEMMA ImportMemberStep ==
  ASSUME SymbolInv, ImportMember
  PROVE  SymbolInv'
  <1>1. PICK r \in items :
          /\ \E owner : graph' \in {graph, UpsertEdge(graph, "HAS_METHOD", owner,
                                             SymbolId(r.file, r.tag), r.file.path, r.tag.line)}
          /\ Take(r)
    BY DEF ImportMember
  <1>2. Step("members") /\ UNCHANGED <<unresolved, collisions, outcome>> BY DEF ImportMember
  <1>3. Shaped(graph) /\ ~Final /\ job.step = "members" BY <1>2, JobUnderWay
  <1>4. NodesGrow /\ EdgesGrow BY <1>1, <1>3, EdgeAdded
  <1>5. ReportGrows /\ Brought(r) BY <1>2, <1>3 DEF ReportGrows, Brought
  <1> QED BY <1>1, <1>2, <1>3, <1>4, <1>5, GrowStep DEF Takes, SeenGrows

LEMMA ImportInterfaceStep ==
  ASSUME SymbolInv, ImportInterface
  PROVE  SymbolInv'
  <1>1. PICK f \in items :
          LET file == Id("FILE", f.path)
              id == Id("AIDL_INTERFACE", InterfaceName(f))
              methods == {Id("AIDL_METHOD", InterfaceName(f) \o <<"#", t.name>>) :
                            t \in {x \in f.tags : x.kind = "method"}}
              declared == UpsertNodes(graph, {file, id} \cup methods, f.path, NoRepository)
          IN /\ graph' = [declared EXCEPT !.edge = @ \cup
                    {GraphRow("DECLARED_IN", x, file, f.path, 0) : x \in {id} \cup methods} \cup
                    {GraphRow("AIDL_HAS_METHOD", id, x, f.path, 0) : x \in methods}]
             /\ Take(f)
    BY DEF ImportInterface
  <1> DEFINE file == Id("FILE", f.path)
             id == Id("AIDL_INTERFACE", InterfaceName(f))
             methods == {Id("AIDL_METHOD", InterfaceName(f) \o <<"#", t.name>>) :
                           t \in {x \in f.tags : x.kind = "method"}}
             ids == {file, id} \cup methods
             declared == UpsertNodes(graph, ids, f.path, NoRepository)
             rows == {GraphRow("DECLARED_IN", x, file, f.path, 0) : x \in {id} \cup methods} \cup
                     {GraphRow("AIDL_HAS_METHOD", id, x, f.path, 0) : x \in methods}
  <1>2. Step("interfaces") /\ UNCHANGED <<unresolved, collisions, outcome>>
    BY DEF ImportInterface
  <1>3. /\ Shaped(graph) /\ ~Final /\ job.step = "interfaces" /\ f \in Interfaces(world)
    BY <1>2, JobUnderWay DEF Items
  <1>4. /\ Shaped(declared) /\ declared.edge = graph.edge
        /\ DOMAIN declared.node = DOMAIN graph.node \cup ids
        /\ \A n \in DOMAIN graph.node \ ids : declared.node[n] = graph.node[n]
    <2> HIDE DEF ids
    <2> QED BY <1>3, NodesUpserted
  <1>5. \A e \in rows : e.type \in {"DECLARED_IN", "AIDL_HAS_METHOD"} BY DEF GraphRow
  <1>6. \A n \in ids : n.type \in {"FILE", "AIDL_INTERFACE", "AIDL_METHOD"} /\
                       (n.type = "AIDL_INTERFACE" => n = id)
    <2>1. file.type = "FILE" /\ id.type = "AIDL_INTERFACE" BY DEF Id
    <2>2. ASSUME NEW n \in methods PROVE n.type = "AIDL_METHOD"
      <3>1. \A name : Id("AIDL_METHOD", name).type = "AIDL_METHOD" BY DEF Id
      <3> QED BY <2>2, <3>1
    <2> HIDE DEF file, id, methods
    <2> QED BY <2>1, <2>2
  <1>7. graph' = [declared EXCEPT !.edge = @ \cup rows] /\ Take(f)
    <2>1. [declared EXCEPT !.edge = @ \cup
                 {GraphRow("DECLARED_IN", x, file, f.path, 0) : x \in {id} \cup methods} \cup
                 {GraphRow("AIDL_HAS_METHOD", id, x, f.path, 0) : x \in methods}] =
          [declared EXCEPT !.edge = @ \cup rows]
      <3> HIDE DEF declared, file, id, methods
      <3>1. \A set : set \cup {GraphRow("DECLARED_IN", x, file, f.path, 0) : x \in {id} \cup methods}
                         \cup {GraphRow("AIDL_HAS_METHOD", id, x, f.path, 0) : x \in methods}
                     = set \cup rows
        OBVIOUS
      <3> QED BY <3>1
    <2> QED BY <1>1, <2>1
  <1>8. id \in ids OBVIOUS
  <1>9. \E name \in InterfaceNames : id = Id("AIDL_INTERFACE", name)
    BY <1>3 DEF InterfaceNames
  <1> HIDE DEF declared, rows, ids, id
  <1>10. Shaped(graph') /\ graph'.node = declared.node /\ graph'.edge = graph.edge \cup rows
    BY <1>4, <1>7 DEF Shaped
  <1>11. NodesGrow
    <2>1. \A n \in ids : KnownNode(n)
      BY <1>6, <1>9 DEF KnownNode, InterfaceTypes, ClassTypes
    <2> QED BY <2>1, <1>4, <1>6, <1>10 DEF NodesGrow
  <1>12. EdgesGrow BY <1>5, <1>10 DEF EdgesGrow
  <1>13. ReportGrows BY <1>2 DEF ReportGrows
  <1>14. Brought(f) BY <1>3, <1>4, <1>8, <1>10 DEF Brought, id
  <1> QED BY <1>2, <1>3, <1>7, <1>11, <1>12, <1>13, <1>14, GrowStep DEF Takes, SeenGrows

LEMMA TraceArtifactStep ==
  ASSUME SymbolInv, TraceArtifact
  PROVE  SymbolInv'
  <1>1. PICK j \in items :
       LET artifact == Id("VENDOR_ARTIFACT", <<j.origin>>)
           known == UpsertNode(graph, artifact, <<j.origin>>, NoRepository)
           definitions == {d \in DOMAIN known.node :
                             /\ d.type = "SYMBOL_DEFINITION"
                             /\ known.node[d].repository = j.origin}
       IN /\ graph' = [known EXCEPT !.edge = @ \cup
                         {GraphRow("DERIVED_FROM_ARTIFACT", d, artifact, <<>>, 0) :
                            d \in definitions}]
          /\ Take(j)
    BY DEF TraceArtifact
  <1> DEFINE artifact == Id("VENDOR_ARTIFACT", <<j.origin>>)
             known == UpsertNode(graph, artifact, <<j.origin>>, NoRepository)
             definitions == {d \in DOMAIN known.node :
                               /\ d.type = "SYMBOL_DEFINITION"
                               /\ known.node[d].repository = j.origin}
             rows == {GraphRow("DERIVED_FROM_ARTIFACT", d, artifact, <<>>, 0) :
                        d \in definitions}
  <1>2. Step("trace") /\ UNCHANGED <<unresolved, collisions, outcome>> BY DEF TraceArtifact
  <1>3. Shaped(graph) /\ ~Final /\ job.step = "trace" BY <1>2, JobUnderWay
  <1>4. /\ Shaped(known) /\ known.edge = graph.edge
        /\ DOMAIN known.node = DOMAIN graph.node \cup {artifact}
        /\ \A n \in DOMAIN graph.node \ {artifact} : known.node[n] = graph.node[n]
    BY <1>3, NodesUpserted DEF UpsertNode
  <1>5. artifact.type = "VENDOR_ARTIFACT" BY DEF Id
  <1>6. \A e \in rows : e.type = "DERIVED_FROM_ARTIFACT" BY DEF GraphRow
  <1>7. graph' = [known EXCEPT !.edge = @ \cup rows] /\ Take(j) BY <1>1
  <1> HIDE DEF known, rows, artifact
  <1>8. Shaped(graph') /\ graph'.node = known.node /\ graph'.edge = graph.edge \cup rows
    BY <1>4, <1>7 DEF Shaped
  <1>9. NodesGrow
    <2>1. KnownNode(artifact) BY <1>5 DEF KnownNode, InterfaceTypes, ClassTypes
    <2> QED BY <2>1, <1>4, <1>5, <1>8 DEF NodesGrow
  <1>10. EdgesGrow BY <1>6, <1>8 DEF EdgesGrow
  <1>11. ReportGrows /\ Brought(j) BY <1>2, <1>3 DEF ReportGrows, Brought
  <1> QED BY <1>2, <1>3, <1>7, <1>9, <1>10, <1>11, GrowStep DEF Takes, SeenGrows
-----------------------------------------------------------------------------
(* The platform is known before what refers to it is read. *)
LEMMA PlatformComplete ==
  ASSUME SymbolInv, job.turn[1] >= 3
  PROVE  /\ \A o \in DOMAIN world.root : \A r \in Declared(o) : Defined(o, r)
         /\ PlatformTypes \subseteq DOMAIN graph.node
  <1>1. ScheduleInv /\ DefinedInv BY DEF SymbolInv
  <1>2. Planned(world) BY <1>1, ScheduleFacts
  <1>3. ASSUME NEW o \in DOMAIN world.root, NEW r \in Declared(o)
        PROVE  Defined(o, r)
    <2>1. ASSUME NEW k \in Jobs(world), k.step = "symbols", k.origin = o
          PROVE  k.turn[1] \in {1, 2}
      BY <2>1, <1>1, ScheduleFacts DEF Placed, Artifact
    <2>2. ~Left("symbols", r.file.lang, o, r)
      <3>1. \A k \in jobs : ~(k.step = "symbols" /\ k.origin = o)
        BY <2>1, <1>1, ScheduleFacts DEF ScheduleInv, Turned
      <3>2. ~(job.step = "symbols" /\ job.origin = o)
        BY <2>1, <1>1 DEF ScheduleInv, NoJob, Job
      <3> QED BY <3>1, <3>2 DEF Left
    <2>3. o \in Origins BY DEF Origins
    <2> QED BY <2>2, <2>3, <1>1 DEF DefinedInv
  <1>4. ASSUME NEW id \in PlatformTypes
        PROVE  id \in DOMAIN graph.node
    <2>1. PICK o \in DOMAIN world.root : \E r \in Declared(o) : id = SymbolId(r.file, r.tag)
      BY DEF PlatformTypes, DeclaredIn
    <2>2. PICK r \in Declared(o) : id = SymbolId(r.file, r.tag) BY <2>1
    <2>3. Link(o, r).to = id BY <2>2 DEF Link, GraphRow
    <2> QED BY <1>3, <2>3 DEF Defined
  <1> QED BY <1>3, <1>4

LEMMA ImportRelationStep ==
  ASSUME SymbolInv, ImportRelation
  PROVE  SymbolInv'
  <1>1. PICK r \in items :
       LET class == Id("JAVA_CLASS", r.class)
           aidl == Id("AIDL_INTERFACE", r.aidl)
           found == {class, aidl} \subseteq DOMAIN graph.node
       IN /\ graph' = IF found
                      THEN UpsertEdge(graph, "IMPLEMENTS_BINDER", class, aidl, r.path, 0)
                      ELSE graph
          /\ unresolved' = IF found THEN unresolved
                           ELSE unresolved \cup {Missing("binder", class, aidl, r.path)}
          /\ Take(r)
    BY DEF ImportRelation
  <1> DEFINE class == Id("JAVA_CLASS", r.class)
             aidl == Id("AIDL_INTERFACE", r.aidl)
             found == {class, aidl} \subseteq DOMAIN graph.node
  <1>2. Step("binder") /\ UNCHANGED <<collisions, outcome>> BY DEF ImportRelation
  <1>3. /\ Shaped(graph) /\ ~Final /\ job.step = "binder"
        /\ job = Job(<<3, 1, 2>>, "binder", "java", "all")
    BY <1>2, JobUnderWay DEF Placed
  <1>4. job.turn[1] = 3 BY <1>3 DEF Job
  <1>5. class.type = "JAVA_CLASS" /\ aidl.type = "AIDL_INTERFACE" BY DEF Id
  <1>6. \A f \in Interfaces(world) :
          Id("AIDL_INTERFACE", InterfaceName(f)) \in DOMAIN graph.node
    <2>1. \A k \in jobs : k.step # "interfaces"
      <3> SUFFICES ASSUME NEW k \in jobs, k.step = "interfaces" PROVE FALSE OBVIOUS
      <3>1. k = Job(<<3, 1, 1>>, "interfaces", "aidl", "all") /\ Before(job, k)
        BY ScheduleFacts DEF SymbolInv, ScheduleInv, Placed
      <3> QED BY <3>1, <1>3 DEF Before, Job
    <2> QED BY <2>1, <1>3 DEF SymbolInv, KnownInv, Left
  <1>7. found <=> BothKnown(class, aidl)
    <2>1. class \in DOMAIN graph.node => class \in PlatformTypes
      BY <1>4, <1>5 DEF SymbolInv, KnownInv, KnownNode, ClassTypes
    <2>2. class \in PlatformTypes => class \in DOMAIN graph.node
      BY <1>4, PlatformComplete
    <2>3. aidl \in DOMAIN graph.node <=>
            \E name \in InterfaceNames : aidl = Id("AIDL_INTERFACE", name)
      BY <1>5, <1>6 DEF SymbolInv, KnownInv, KnownNode, InterfaceNames
    <2> QED BY <2>1, <2>2, <2>3 DEF BothKnown
  <1> HIDE DEF class, aidl
  <1>8. NodesGrow /\ EdgesGrow
    <2>1. CASE found
      <3>1. graph' = UpsertEdge(graph, "IMPLEMENTS_BINDER", class, aidl, r.path, 0)
        BY <2>1, <1>1 DEF class, aidl
      <3> QED BY <3>1, <2>1, <1>3, <1>7, EdgeAdded
    <2>2. CASE ~found
      <3>1. graph' = graph BY <2>2, <1>1 DEF class, aidl
      <3> QED BY <3>1, <1>3 DEF NodesGrow, EdgesGrow
    <2> QED BY <2>1, <2>2
  <1>9. unresolved' = IF found THEN unresolved
                      ELSE unresolved \cup {Missing("binder", class, aidl, r.path)}
    BY <1>1 DEF class, aidl
  <1>10. ReportGrows BY <1>7, <1>9 DEF ReportGrows, Missing
  <1>11. Drawn(class, aidl)' \/ Missing("binder", class, aidl, r.path) \in unresolved'
    <2>1. CASE found
      <3>1. GraphRow("IMPLEMENTS_BINDER", class, aidl, r.path, 0) \in graph'.edge
        BY <2>1, <1>1, <1>3, EdgeUpserted DEF class, aidl
      <3>2. GraphRow("IMPLEMENTS_BINDER", class, aidl, r.path, 0).type = "IMPLEMENTS_BINDER"
            /\ GraphRow("IMPLEMENTS_BINDER", class, aidl, r.path, 0).from = class
            /\ GraphRow("IMPLEMENTS_BINDER", class, aidl, r.path, 0).to = aidl
        BY DEF GraphRow
      <3> QED BY <3>1, <3>2 DEF Drawn
    <2>2. CASE ~found BY <2>2, <1>9
    <2> QED BY <2>1, <2>2
  <1>12. Brought(r) BY <1>3, <1>11 DEF Brought, class, aidl
  <1> QED BY <1>1, <1>2, <1>3, <1>8, <1>10, <1>12, GrowStep DEF Takes, SeenGrows

-----------------------------------------------------------------------------
(* The first rule that finds something, when one does. *)
LEMMA LeastNatural ==
  ASSUME NEW S \in SUBSET Nat, S # {}
  PROVE  \E i \in S : \A j \in S : i <= j
  <1> DEFINE R == OpToRel(<, Nat)
  <1>1. IsWellFoundedOn(R, Nat) BY NatLessThanWellFounded, Zenon
  <1>2. ASSUME NEW m \in Nat, NEW n \in Nat, m < n PROVE <<m, n>> \in R
    BY <1>2, Zenon DEF OpToRel
  <1> HIDE DEF R
  <1>3. PICK x \in S : \A y \in S : <<y, x>> \notin R BY <1>1, WFMin
  <1>4. \A y \in S : ~(y < x) BY <1>2, <1>3
  <1> QED BY <1>4

LEMMA FirstFound ==
  ASSUME NEW c, NEW n \in Nat, DOMAIN c = 1..n, \E i \in 1..n : c[i] # {}
  PROVE  \E i \in 1..n : c[i] # {} /\ FirstOf(c) = c[i] /\ \A j \in 1..n : j < i => c[j] = {}
  <1> DEFINE found == {i \in DOMAIN c : c[i] # {}}
             first == CHOOSE i \in found : \A j \in found : i <= j
  <1>1. found \subseteq Nat /\ found # {} OBVIOUS
  <1>2. first \in found /\ \A j \in found : first <= j BY <1>1, LeastNatural
  <1>3. FirstOf(c) = c[first] BY <1>1 DEF FirstOf
  <1> HIDE DEF first
  <1> QED BY <1>2, <1>3

LEMMA LastOfNames ==
  ASSUME NEW a \in Names, NEW b \in Names, b # <<>>
  PROVE  Last(a \o b) = Last(b) /\ a \o b \in Names
  <1>1. Len(a) \in Nat /\ Len(b) \in Nat /\ Len(b) > 0 /\ Len(a \o b) = Len(a) + Len(b)
    BY DEF Names
  <1>2. (a \o b)[Len(a) + Len(b)] = b[Len(b)] BY <1>1 DEF Names
  <1> QED BY <1>1, <1>2 DEF Last, Names

Listed(c, a, b, d, e, w, m) == c = <<a, b, d>> \o e \o <<w, m>>
LEMMA Candidates ==
  ASSUME NEW a, NEW b, NEW d, NEW e, NEW w, NEW m, NEW c, NEW S,
         Listed(c, a, b, d, e, w, m), {a, b, d, w, m} \subseteq S, e \in Seq(S)
  PROVE  /\ c \in Seq(S) /\ DOMAIN c = 1..Len(c) /\ Len(c) \in Nat /\ 2 \in DOMAIN c
         /\ c[1] = a /\ c[2] = b /\ c[Len(c)] = m
  <1> DEFINE h == <<a, b, d>> \o e
  <1>1. h \in Seq(S) /\ Len(h) \in Nat /\ Len(h) >= 3 /\ h[1] = a /\ h[2] = b OBVIOUS
  <1>2. c = h \o <<w, m>> BY DEF Listed
  <1> HIDE DEF h
  <1> QED BY <1>1, <1>2

LEMMA NamesOfTypes ==
  ASSUME NEW r, FileFound(r.file), r.tag \in r.file.tags, r.tag.kind \in {"class", "interface"}
  PROVE  /\ QualifiedName(r.file, r.tag) \in Names
         /\ Len(QualifiedName(r.file, r.tag)) > Len(r.file.package)
  <1>1. /\ r.file.package \in Seq(STRING) /\ r.tag.scope \in Seq(STRING) /\ r.tag.name \in STRING
    BY DEF FileFound, Names
  <1>2. /\ Owner(r.file, r.tag) \in Seq(STRING)
        /\ Len(Owner(r.file, r.tag)) >= Len(r.file.package)
    <2>1. CASE Scope(r.file, r.tag) = r.tag.scope /\
               IsStrictPrefix(r.file.package, r.tag.scope)
      BY <2>1, <1>1 DEF Owner, IsStrictPrefix, IsPrefix
    <2>2. CASE Scope(r.file, r.tag) = r.file.package \o r.tag.scope
      <3> DEFINE scope == r.file.package \o r.tag.scope
      <3>1. scope \in Seq(STRING) /\ Len(scope) >= Len(r.file.package)
        <4>1. \A s, t \in Seq(STRING) : s \o t \in Seq(STRING) /\ Len(s \o t) >= Len(s)
          OBVIOUS
        <4> QED BY <4>1, <1>1, Zenon
      <3>2. Owner(r.file, r.tag) \in {scope, r.file.package} BY <2>2, Zenon DEF Owner
      <3> HIDE DEF scope
      <3> QED BY <3>1, <3>2, <1>1
    <2>3. CASE Scope(r.file, r.tag) = <<>>
      BY <2>3, <1>1 DEF Owner
    <2> QED BY <2>1, <2>2, <2>3 DEF Scope
  <1>3. QualifiedName(r.file, r.tag) = Append(Owner(r.file, r.tag), r.tag.name)
    BY DEF QualifiedName
  <1> QED BY <1>1, <1>2, <1>3 DEF Names

LEMMA Resolves ==
  ASSUME Types = PlatformTypes, NEW r, FileFound(r.file), NEW x \in Names \ {<<>>},
         NEW child, child.name \in Names, Len(child.name) > Len(r.file.package),
         NEW parent, Meant(r, x) = {parent}
  PROVE  Resolve(x, child, r.file) = {parent}
  <1> DEFINE simple == Last(x)
             local == SubSeq(child.name, Len(r.file.package) + 1, Len(child.name))
             n == Len(local)
             enclosing == [i \in 1..n |->
                             ByName(r.file.package \o SubSeq(local, 1, n - i) \o x)]
             wildcards == {p \in r.file.wildcards : ByName(Append(p, simple)) # {}}
             Only(set) == IF Cardinality(set) = 1 THEN set ELSE {}
             a == ByName(x)
             b == UNION {ByName(q) : q \in NamedImports(r.file, simple)}
             d == ByName(r.file.package \o x)
             w == UNION {ByName(Append(p, simple)) : p \in Only(wildcards)}
             m == Only(Named(x))
             c == <<a, b, d>> \o enclosing \o <<w, m>>
  <1>1. /\ r.file.package \in Names /\ r.file.imports \subseteq Names
        /\ r.file.wildcards \subseteq Names
    BY DEF FileFound
  <1>2. local \in Names /\ n \in Nat
    BY <1>1 DEF Names
  <1>3. Resolve(x, child, r.file) = FirstOf(c)
    BY DEF Resolve, Named
  <1>4. \A q \in Names : ByName(q \o x) \subseteq Named(x)
    BY LastOfNames DEF ByName, Named
  <1>5. a \subseteq Named(x) /\ d \subseteq Named(x)
    BY <1>1, <1>4 DEF ByName, Named
  <1>6. b = Imported(r, x)
    BY DEF ByName, Named, NamedImports, Imported
  <1>7. w \subseteq Named(x)
    <2>1. \A p \in Names : Last(Append(p, simple)) = simple
      BY DEF Names, Last
    <2>2. Only(wildcards) \subseteq Names BY <1>1
    <2> QED BY <2>1, <2>2 DEF ByName, Named
  <1>8. \A i \in 1..n : enclosing[i] \subseteq Named(x)
    <2> TAKE i \in 1..n
    <2> DEFINE outer == SubSeq(local, 1, n - i)
    <2>1. outer \in Names
      <3> HIDE DEF local
      <3>1. n - i \in 0..n BY <1>2
      <3> QED BY <3>1, <1>2 DEF Names
    <2> HIDE DEF outer
    <2>2. r.file.package \o outer \in Names BY <1>1, <2>1 DEF Names
    <2> HIDE DEF n
    <2>3. ByName(r.file.package \o outer \o x) \subseteq Named(x)
      BY <2>2, <1>4
    <2> QED BY <2>3 DEF outer
  <1>9. m \subseteq Named(x) OBVIOUS
  <1>10. Imported(r, x) \subseteq Named(x) BY DEF Imported
  <1> DEFINE S == SUBSET Named(x)
  <1>11. enclosing \in [1..n -> S] BY <1>8
  <1> HIDE DEF a, b, d, w, m, n, enclosing
  <1> DEFINE last == Len(c)
  <1>12. /\ c \in Seq(S) /\ DOMAIN c = 1..last /\ last \in Nat /\ 2 \in DOMAIN c
         /\ c[1] = a /\ c[2] = b /\ c[last] = m
    <2>1. {a, b, d, w, m} \subseteq S
      BY <1>5, <1>6, <1>7, <1>9, <1>10
    <2>2. Listed(c, a, b, d, enclosing, w, m) BY DEF Listed
    <2>3. enclosing \in Seq(S) BY <1>2, <1>11
    <2> HIDE DEF S, c
    <2> QED BY <2>1, <2>2, <2>3, Candidates
  <1> HIDE DEF c, last
  <1>13. 2 \in 1..last /\ last \in 1..last BY <1>12
  <1>14. \A i \in 1..last : c[i] \subseteq Named(x) BY <1>12
  <1>15. CASE Len(x) = 1 /\ Imported(r, x) # {} /\ \A id \in Named(x) : id.name # x
    <2>1. b = {parent} BY <1>6, <1>15 DEF Meant
    <2>2. a = {} BY <1>5, <1>15 DEF a, ByName
    <2>3. PICK i \in 1..last :
            c[i] # {} /\ FirstOf(c) = c[i] /\ \A j \in 1..last : j < i => c[j] = {}
      BY <1>12, <1>13, <1>14, <2>1, FirstFound
    <2>4. i # 1 BY <2>2, <2>3, <1>12, <1>14
    <2>5. ~(2 < i) BY <2>1, <2>3, <1>12, <1>13, <1>14
    <2>6. i = 2 BY <2>4, <2>5, <1>12, <1>13
    <2> QED BY <2>1, <2>3, <2>6, <1>3, <1>12, <1>14
  <1>16. CASE ~(Len(x) = 1 /\ Imported(r, x) # {} /\ \A id \in Named(x) : id.name # x)
    <2>1. Named(x) = {parent} BY <1>16 DEF Meant
    <2>2. m = {parent} BY <2>1, FS_Singleton DEF m
    <2>3. PICK i \in 1..last : c[i] # {} /\ FirstOf(c) = c[i]
      BY <1>12, <1>13, <1>14, <2>2, FirstFound
    <2> QED BY <2>1, <2>3, <1>3, <1>12, <1>14
  <1> QED BY <1>15, <1>16
LEMMA ImportSupertypeStep ==
  ASSUME SymbolInv, ImportSupertype
  PROVE  SymbolInv'
  <1>1. PICK it \in items :
       LET name == QualifiedName(it.file, it.tag)
           children == ByName(name)
           Unresolved(child) == unresolved \cup
                                  {Missing("inheritance", child, it.reference, it.file.path)}
       IN /\ \/ /\ children = {}
                /\ unresolved' = Unresolved(Id("unknown", name))
                /\ UNCHANGED <<seen, graph>>
             \/ \E child \in children :
                  LET parents == Resolve(it.reference, child, it.file) IN
                  \/ /\ parents = {}
                     /\ unresolved' = Unresolved(child)
                     /\ UNCHANGED <<seen, graph>>
                  \/ \E parent \in parents :
                       /\ seen' = seen \cup {Identity(child, parent)}
                       /\ graph' = IF Identity(child, parent) \in seen THEN graph
                                   ELSE UpsertEdge(graph, InheritanceEdge(child, parent),
                                          child, parent, it.file.path, it.tag.line)
                       /\ UNCHANGED unresolved
          /\ Take(it)
    BY DEF ImportSupertype
  <1> DEFINE children == ByName(QualifiedName(it.file, it.tag))
             Drew(child, parent) ==
               /\ seen' = seen \cup {Identity(child, parent)}
               /\ graph' = IF Identity(child, parent) \in seen THEN graph
                           ELSE UpsertEdge(graph, InheritanceEdge(child, parent),
                                  child, parent, it.file.path, it.tag.line)
  <1>2. Step("inheritance") /\ UNCHANGED <<collisions, outcome>> BY DEF ImportSupertype
  <1>3. /\ Shaped(graph) /\ ~Final /\ job.step = "inheritance" /\ Planned(world)
        /\ Placed(world, job) /\ Turned(job)
    BY <1>2, JobUnderWay
  <1>4. /\ \/ UNCHANGED <<seen, graph>>
           \/ \E child \in children :
                \E parent \in Resolve(it.reference, child, it.file) : Drew(child, parent)
        /\ \A child : children = {child} /\ Resolve(it.reference, child, it.file) # {} =>
             \E parent \in Resolve(it.reference, child, it.file) : Drew(child, parent)
        /\ \/ unresolved' = unresolved
           \/ \E child : unresolved' = unresolved \cup
                {Missing("inheritance", child, it.reference, it.file.path)}
        /\ Take(it)
    <2> HIDE DEF children
    <2>1. CASE /\ children = {} /\ UNCHANGED <<seen, graph>>
               /\ \E child : unresolved' = unresolved \cup
                    {Missing("inheritance", child, it.reference, it.file.path)}
      BY <2>1, <1>1
    <2>2. ASSUME NEW child \in children, Resolve(it.reference, child, it.file) = {},
                 unresolved' = unresolved \cup
                   {Missing("inheritance", child, it.reference, it.file.path)},
                 UNCHANGED <<seen, graph>>
          PROVE  <1>4!1
      BY <2>2, <1>1
    <2>3. ASSUME NEW child \in children,
                 NEW parent \in Resolve(it.reference, child, it.file), Drew(child, parent),
                 UNCHANGED unresolved
          PROVE  <1>4!1
      <3> HIDE DEF Drew
      <3> QED BY <2>3, <1>1
    <2> QED BY <1>1, <2>1, <2>2, <2>3 DEF children
  <1>5. \A child, parent : InheritanceEdge(child, parent) \in
                             {"IMPLEMENTS_JAVA_INTERFACE", "EXTENDS"}
    BY DEF InheritanceEdge
  <1>6. NodesGrow /\ EdgesGrow
    <2>1. CASE graph' = graph BY <2>1, <1>3 DEF NodesGrow, EdgesGrow
    <2>2. ASSUME NEW child, NEW parent,
                 graph' = UpsertEdge(graph, InheritanceEdge(child, parent), child, parent,
                                     it.file.path, it.tag.line)
          PROVE  NodesGrow /\ EdgesGrow
      <3>1. /\ InheritanceEdge(child, parent) # "DEFINES_SYMBOL"
            /\ InheritanceEdge(child, parent) # "IMPLEMENTS_BINDER"
        BY <1>5
      <3> QED BY <2>2, <3>1, <1>3, EdgeAdded
    <2> QED BY <2>1, <2>2, <1>4
  <1>7. ReportGrows BY <1>4 DEF ReportGrows, Missing
  <1>8. ASSUME NEW o \in DOMAIN world.root, job.origin = o, NEW child, NEW parent,
               child \in children, Drew(child, parent)
        PROVE  DrawnFrom(o, child, parent)'
    <2>1. job.lang = "java" BY <1>3, <1>8 DEF Placed, Artifact
    <2>2. it \in Items(world, job) BY <1>2, JobUnderWay
    <2>3. PICK s \in Tags(world, o, "java", {"class", "interface", "enum"}) :
            it.file = s.file /\ it.tag = s.tag
      BY <2>1, <2>2, <1>3, <1>8 DEF Items
    <2>4. s \in Declared(o)
      <3>1. s \in Tags(world, o, "java", DOMAIN NodeType["java"])
        BY <2>3, TagsOf DEF NodeType
      <3>2. "java" \in Languages(o)
        BY <1>3, <1>8, <2>1 DEF Placed, Platform, Artifact, Languages
      <3> QED BY <3>1, <3>2 DEF Declared
    <2>5. child.name = QualifiedName(s.file, s.tag) BY <1>8, <2>3 DEF ByName
    <2>6. CASE Identity(child, parent) \in seen
      <3>1. DrawnFrom(o, child, parent)
        BY <2>6, <1>3, <1>8 DEF SymbolInv, SeenInv, SeenFrom
      <3>2. UNCHANGED world BY <1>4 DEF Take
      <3>3. \A q, c, p : DrawnFrom(q, c, p) => DrawnFrom(q, c, p)'
        BY <3>2, <1>6, MoreOfTheSame DEF NodesGrow, EdgesGrow
      <3> QED BY <3>1, <3>3
    <2>7. CASE Identity(child, parent) \notin seen
      <3>1. graph' = UpsertEdge(graph, InheritanceEdge(child, parent), child, parent,
                                s.file.path, s.tag.line)
        BY <2>3, <2>7, <1>8
      <3>2. GraphRow(InheritanceEdge(child, parent), child, parent, s.file.path, s.tag.line)
              \in graph'.edge
        BY <3>1, <1>3, EdgeUpserted
      <3> QED BY <3>2, <2>4, <2>5, <1>4, SameSources DEF DrawnFrom, Take
    <2> QED BY <2>6, <2>7
  <1>9. SeenGrows
    <2> SUFFICES ASSUME NEW o \in DOMAIN world.root, job.origin = o, NEW key \in seen', key \notin seen
                 PROVE  SeenFrom(o, key)'
      BY DEF SeenGrows
    <2>0. PICK child \in children :
            \E parent \in Resolve(it.reference, child, it.file) : Drew(child, parent)
      BY <1>4
    <2>1. PICK parent \in Resolve(it.reference, child, it.file) : Drew(child, parent)
      BY <2>0
    <2>2. key = Identity(child, parent) BY <2>1
    <2>3. DrawnFrom(o, child, parent)' BY <2>1, <1>8
    <2>4. \A c, p : key = Identity(c, p) => c = child /\ p = parent BY <2>2 DEF Identity
    <2>5. \A c, p : key = Identity(c, p) => DrawnFrom(o, c, p)' BY <2>3, <2>4
    <2> QED BY <2>5 DEF SeenFrom, Identity, InheritanceEdge
  <1>10. ASSUME NEW o \in DOMAIN world.root, job.origin = o, NEW r \in Declared(o),
                NEW x \in it.tag.inherits, r.tag.kind \in {"class", "interface"},
                it = [file |-> r.file, tag |-> r.tag, reference |-> x]
         PROVE  SuperDrawn(o, r, x)'
    <2>1. job.turn[1] = 4 BY <1>3, <1>10 DEF Placed, Artifact
    <2>2. Types = PlatformTypes
      <3>1. Types \subseteq PlatformTypes
        BY <2>1 DEF Types, SymbolInv, KnownInv, KnownNode
      <3>2. PlatformTypes \subseteq Types
        BY <2>1, PlatformComplete DEF Types, PlatformTypes
      <3> QED BY <3>1, <3>2
    <2>3. o \in Origins BY <1>10 DEF Origins
    <2>4. it.file = r.file /\ it.tag = r.tag /\ it.reference = x BY <1>10
    <2>5. FileFound(r.file) /\ r.tag \in r.file.tags BY <1>3, <1>10, <2>3, DeclaredAre
    <2>6. x \in Names \ {<<>>} BY <2>4, <2>5 DEF FileFound
    <2>7. children = Children(r) BY <2>2, <2>4 DEF ByName, Children
    <2> SUFFICES ASSUME NEW child \in PlatformTypes, NEW parent \in PlatformTypes,
                        Children(r) = {child}, Meant(r, x) = {parent}
                 PROVE  DrawnFrom(o, child, parent)'
      <3>1. UNCHANGED <<world, job>> BY <1>4 DEF Take
      <3>2. /\ PlatformTypes' = PlatformTypes /\ Children(r)' = Children(r)
            /\ Meant(r, x)' = Meant(r, x)
        BY <3>1, SameSources
      <3> QED BY <3>1, <3>2 DEF SuperDrawn
    <2>8. child.name = QualifiedName(r.file, r.tag) BY DEF Children
    <2>9. child.name \in Names /\ Len(child.name) > Len(r.file.package)
      BY <1>10, <2>5, <2>8, NamesOfTypes
    <2>10. Resolve(x, child, r.file) = {parent} BY <2>2, <2>5, <2>6, <2>9, Resolves
    <2>11. Drew(child, parent)
      <3> HIDE DEF children, Drew
      <3> QED BY <1>4, <2>4, <2>7, <2>10
    <2>12. child \in children BY <2>7
    <2> QED BY <2>11, <2>12, <1>8, <1>10
  <1>11. Brought(it)
    <2>1. \A o \in DOMAIN world.root : job.origin = o =>
            \A r \in Declared(o), x \in it.tag.inherits :
              r.tag.kind \in {"class", "interface"} /\
              it = [file |-> r.file, tag |-> r.tag, reference |-> x]
                => SuperDrawn(o, r, x)'
      BY <1>10, Zenon
    <2>2. /\ job.step # "symbols" /\ job.step # "interfaces" /\ job.step # "binder"
      BY <1>3
    <2> QED BY <2>1, <2>2, Zenon DEF Brought
  <1> QED BY <1>2, <1>3, <1>4, <1>6, <1>7, <1>9, <1>11, GrowStep DEF Takes
-----------------------------------------------------------------------------
(* The commands at the end of the script, and the beginning of each command. *)
LEMMA LastTurns ==
  ASSUME ScheduleInv
  PROVE  /\ Job(<<7, 1, 1>>, "annotate", "all", "all") \in Jobs(world)
         /\ \A k \in Jobs(world) :
              k = Job(<<7, 1, 1>>, "annotate", "all", "all") \/
              k = Job(<<7, 1, 2>>, "collisions", "all", "all") \/ k.turn[1] \in 1..6
         /\ job.step = "collisions" => jobs = {}
         /\ job.step = "annotate" => \A k \in jobs : k.step = "collisions"
  <1>1. Job(<<7, 1, 1>>, "annotate", "all", "all") \in Jobs(world) BY SingleJobs
  <1>2. \A k \in Jobs(world) :
          k = Job(<<7, 1, 1>>, "annotate", "all", "all") \/
          k = Job(<<7, 1, 2>>, "collisions", "all", "all") \/ k.turn[1] \in 1..6
    BY ScheduleFacts DEF Placed, Job
  <1>3. job.step = "collisions" => job = Job(<<7, 1, 2>>, "collisions", "all", "all")
    BY ScheduleFacts DEF ScheduleInv, NoJob, Job, Placed
  <1>4. job.step = "annotate" => job = Job(<<7, 1, 1>>, "annotate", "all", "all")
    BY ScheduleFacts DEF ScheduleInv, NoJob, Job, Placed
  <1>5. jobs \subseteq Jobs(world) /\ \A k \in jobs : Before(job, k) BY DEF ScheduleInv
  <1>6. ~Before(Job(<<7, 1, 2>>, "collisions", "all", "all"),
                Job(<<7, 1, 2>>, "collisions", "all", "all")) /\
        ~Before(Job(<<7, 1, 2>>, "collisions", "all", "all"),
                Job(<<7, 1, 1>>, "annotate", "all", "all")) /\
        ~Before(Job(<<7, 1, 1>>, "annotate", "all", "all"),
                Job(<<7, 1, 1>>, "annotate", "all", "all"))
    BY DEF Before, Job
  <1>7. \A j, k : j.turn[1] = 7 /\ k.turn[1] \in 1..6 => ~Before(j, k)
    BY DEF Before
  <1>8. /\ Job(<<7, 1, 2>>, "collisions", "all", "all").turn[1] = 7
        /\ Job(<<7, 1, 1>>, "annotate", "all", "all").turn[1] = 7
        /\ Job(<<7, 1, 2>>, "collisions", "all", "all").step = "collisions"
    BY DEF Job
  <1> QED BY <1>1, <1>2, <1>3, <1>4, <1>5, <1>6, <1>7, <1>8

LEMMA NextJobStep ==
  ASSUME SymbolInv, NextJob
  PROVE  SymbolInv'
  <1> USE DEF SymbolInv
  <1>1. /\ ScheduleInv'
        /\ job' \in jobs /\ job' # NoJob /\ jobs' = jobs \ {job'} /\ items' = Items(world, job')
        /\ items = {} /\ seen' = {} /\ job.turn[1] <= job'.turn[1]
        /\ UNCHANGED <<world, graph, unresolved, collisions, outcome>> /\ ~Final /\ ~Final'
    BY NextJobSchedule
  <1>2. \A step, lang, origin, item :
          (Left(step, lang, origin, item) =>
             Left(step, lang, origin, item)' \/
             (job'.step = step /\ job'.lang = lang /\ job'.origin = origin /\ item \notin items'))
    BY NextJobSchedule, Zenon
  <1>3. /\ Planned(world) /\ Turned(job) /\ Turned(job') /\ job' \in Jobs(world)
    BY <1>1, ScheduleFacts DEF ScheduleInv
  <1>4. job'.step \in {"annotate", "collisions"} => items' # {}
    BY <1>1 DEF Items
  <1>5. Annotation' = Annotation
    <2>1. CASE job.step = "collisions" BY <2>1, <1>1, LastTurns
    <2>2. CASE job.step = "annotate" BY <2>2, <1>1, LastTurns DEF Annotation
    <2>3. CASE job.step \notin {"annotate", "collisions"}
      <3> DEFINE first == Job(<<7, 1, 1>>, "annotate", "all", "all")
      <3>1. first \in jobs \/ Before(first, job)
        <4>1. first # job BY <2>3 DEF Job
        <4> QED BY <4>1, LastTurns DEF ScheduleInv
      <3>2. ~Before(first, job)
        <4>1. job = NoJob \/ job.turn[1] \in 1..6
          BY <2>3, LastTurns DEF ScheduleInv, Job
        <4>2. job.turn[1] \in 0..6 BY <4>1 DEF NoJob, Job
        <4> QED BY <4>2 DEF Before, Job
      <3>3. job' = first \/ Before(job', first)
        BY <1>1, <3>1, <3>2 DEF NextJob
      <3>4. job'.step # "collisions"
        <4> SUFFICES ASSUME job'.step = "collisions" PROVE FALSE OBVIOUS
        <4>1. job' = Job(<<7, 1, 2>>, "collisions", "all", "all")
          BY <1>3, ScheduleFacts DEF Placed
        <4> QED BY <4>1, <3>3 DEF Before, Job
      <3> QED BY <2>3, <3>4, <1>4 DEF Annotation
    <2> QED BY <2>1, <2>2, <2>3
  <1>6. /\ Origins' = Origins /\ \A o : Declared(o)' = Declared(o)
        /\ InterfaceNames' = InterfaceNames /\ PlatformTypes' = PlatformTypes
        /\ \A c, a : BothKnown(c, a)' = BothKnown(c, a)
        /\ \A r, x : Meant(r, x)' = Meant(r, x) /\ Children(r)' = Children(r)
    BY <1>1, SameSources
  <1>7. /\ \A o, r : Defined(o, r) => Defined(o, r)'
        /\ \A c, a : Drawn(c, a) => Drawn(c, a)'
        /\ \A o, r, x : SuperDrawn(o, r, x) => SuperDrawn(o, r, x)'
        /\ \A o, key : SeenFrom(o, key) => SeenFrom(o, key)'
    BY <1>1, MoreOfTheSame
  <1>8. NodesInv' BY <1>1, <1>5 DEF NodesInv
  <1>9. DefinedInv'
    <2>1. ASSUME NEW o \in Origins, NEW r \in Declared(o)
          PROVE  Left("symbols", r.file.lang, o, r)' \/ Defined(o, r)'
      <3>1. Left("symbols", r.file.lang, o, r) \/ Defined(o, r) BY DEF DefinedInv
      <3>2. r \in Tags(world, o, r.file.lang, DOMAIN NodeType[r.file.lang])
        BY <1>3, DeclaredAre
      <3>3. job'.step = "symbols" /\ job'.lang = r.file.lang /\ job'.origin = o => r \in items'
        BY <3>2, <1>1 DEF Items
      <3> QED BY <3>1, <3>3, <1>2, <1>7
    <2>2. \A o, r : Link(o, r)' = Link(o, r) BY DEF Link
    <2>3. \A e \in graph'.edge : e.type = "DEFINES_SYMBOL" =>
            \E o \in Origins : \E r \in Declared(o) : e = Link(o, r) /\ Defined(o, r)'
      BY <1>1, <1>7, Zenon DEF DefinedInv
    <2> QED BY <1>6, <2>1, <2>2, <2>3, Zenon DEF DefinedInv
  <1>10. KnownInv'
    <2>1. \A n \in DOMAIN graph'.node : KnownNode(n)'
      BY <1>1, <1>3, <1>6 DEF KnownInv, KnownNode, Turned
    <2>2. ASSUME NEW f \in Interfaces(world)
          PROVE  Left("interfaces", "aidl", "all", f)' \/
                 Id("AIDL_INTERFACE", InterfaceName(f)) \in DOMAIN graph'.node
      <3>1. job'.step = "interfaces" => f \in items' BY <1>1 DEF Items
      <3>2. graph' = graph BY <1>1
      <3> QED BY <3>1, <3>2, <1>2, Zenon DEF KnownInv
    <2> QED BY <2>1, <2>2, <1>1 DEF KnownInv
  <1>11. BinderInv'
    <2>1. ASSUME NEW r \in Relations(world)
          PROVE  \/ Left("binder", "java", "all", r)'
                 \/ Drawn(Id("JAVA_CLASS", r.class), Id("AIDL_INTERFACE", r.aidl))'
                 \/ Missing("binder", Id("JAVA_CLASS", r.class),
                            Id("AIDL_INTERFACE", r.aidl), r.path) \in unresolved'
      <3>1. job'.step = "binder" => r \in items' BY <1>1 DEF Items
      <3>2. unresolved' = unresolved BY <1>1
      <3> QED BY <3>1, <3>2, <1>2, <1>7, Zenon DEF BinderInv
    <2>2. Relations(world)' = Relations(world) BY <1>1
    <2> QED BY <2>1, <2>2, <1>1, <1>6 DEF BinderInv
  <1>12. SupertypesInv'
    <2>1. ASSUME NEW o \in DOMAIN world.root, NEW r \in Declared(o),
                 r.tag.kind \in {"class", "interface"},
                 "inheritance" \in Capabilities[r.file.lang], NEW x \in r.tag.inherits
          PROVE  \/ Left("inheritance", r.file.lang, o,
                         [file |-> r.file, tag |-> r.tag, reference |-> x])'
                 \/ SuperDrawn(o, r, x)'
      <3> DEFINE it == [file |-> r.file, tag |-> r.tag, reference |-> x]
      <3>1. Left("inheritance", r.file.lang, o, it) \/ SuperDrawn(o, r, x)
        BY <2>1, Zenon DEF SupertypesInv
      <3>2. job'.step = "inheritance" /\ job'.lang = r.file.lang /\ job'.origin = o =>
              it \in items'
        <4>1. o \in Origins BY DEF Origins
        <4>2. r \in Tags(world, o, r.file.lang, {"class", "interface", "enum"})
          BY <2>1, <4>1, <1>3, DeclaredAre, TagsOf
        <4> QED BY <4>2, <1>1 DEF Items
      <3> HIDE DEF it
      <3> QED BY <3>1, <3>2, <1>2, <1>7 DEF it
    <2> QED BY <2>1, <1>1, <1>6 DEF SupertypesInv
  <1>13. SeenInv' BY <1>1 DEF SeenInv
  <1>14. ReportInv' BY <1>4 DEF ReportInv
  <1> QED BY <1>1, <1>8, <1>9, <1>10, <1>11, <1>12, <1>13, <1>14
(* Annotation and the report, which process one item each. *)
LEMMA OnceItem ==
  ASSUME SymbolInv, NEW step \in {"annotate", "collisions"}, Step(step), NEW j \in items, Take(j)
  PROVE  items' = {} /\ Takes(j) /\ UNCHANGED <<world, job, jobs>>
  <1>1. items \subseteq Items(world, job) /\ job.step = step /\ ~Final BY JobUnderWay
  <1>2. items \subseteq {job} BY <1>1 DEF Items
  <1> QED BY <1>1, <1>2 DEF Take, Takes

LEMMA NodesOnly ==
  ASSUME SymbolInv, ScheduleInv', UNCHANGED <<world, job, seen, unresolved>>,
         DOMAIN graph'.node = DOMAIN graph.node, graph'.edge = graph.edge,
         \A step, lang, origin, x : step \in {"symbols", "interfaces", "binder", "inheritance"} =>
           (Left(step, lang, origin, x) => Left(step, lang, origin, x)')
  PROVE  DefinedInv' /\ KnownInv' /\ BinderInv' /\ SupertypesInv' /\ SeenInv'
  <1> USE DEF SymbolInv
  <1>1. /\ Origins' = Origins /\ \A o : Declared(o)' = Declared(o)
        /\ InterfaceNames' = InterfaceNames
        /\ \A n : KnownNode(n)' = KnownNode(n)
        /\ \A c, a : BothKnown(c, a)' = BothKnown(c, a)
    BY SameSources
  <1>2. /\ \A o, r : Defined(o, r) => Defined(o, r)'
        /\ \A c, a : Drawn(c, a) => Drawn(c, a)'
        /\ \A o, r, x : SuperDrawn(o, r, x) => SuperDrawn(o, r, x)'
        /\ \A o, key : SeenFrom(o, key) => SeenFrom(o, key)'
    BY MoreOfTheSame
  <1>3. DefinedInv'
    <2>1. \A o \in Origins : \A r \in Declared(o) :
            Left("symbols", r.file.lang, o, r)' \/ Defined(o, r)'
      BY <1>2 DEF DefinedInv
    <2>2. \A o, r : Link(o, r)' = Link(o, r) BY DEF Link
    <2>3. \A e \in graph'.edge : e.type = "DEFINES_SYMBOL" =>
            \E o \in Origins : \E r \in Declared(o) : e = Link(o, r) /\ Defined(o, r)'
      BY <1>2, Zenon DEF DefinedInv
    <2> QED BY <1>1, <2>1, <2>2, <2>3, Zenon DEF DefinedInv
  <1>4. KnownInv'
    <2>1. \A n \in DOMAIN graph'.node : KnownNode(n)' BY <1>1 DEF KnownInv
    <2>2. \A f \in Interfaces(world) :
            Left("interfaces", "aidl", "all", f)' \/
            Id("AIDL_INTERFACE", InterfaceName(f)) \in DOMAIN graph'.node
      BY DEF KnownInv
    <2> QED BY <2>1, <2>2 DEF KnownInv
  <1>5. BinderInv'
    <2>1. \A r \in Relations(world) :
             \/ Left("binder", "java", "all", r)'
             \/ Drawn(Id("JAVA_CLASS", r.class), Id("AIDL_INTERFACE", r.aidl))'
             \/ Missing("binder", Id("JAVA_CLASS", r.class),
                        Id("AIDL_INTERFACE", r.aidl), r.path) \in unresolved'
      BY <1>2 DEF BinderInv
    <2>2. Relations(world)' = Relations(world) OBVIOUS
    <2> QED BY <2>1, <2>2, <1>1 DEF BinderInv
  <1>6. SupertypesInv' BY <1>1, <1>2 DEF SupertypesInv
  <1>7. SeenInv'
    <2>1. \A o \in DOMAIN world.root : job.step = "inheritance" /\ job.origin = o =>
            \A key \in seen : SeenFrom(o, key)'
      BY <1>2, Zenon DEF SeenInv
    <2> QED BY <2>1 DEF SeenInv
  <1> QED BY <1>3, <1>4, <1>5, <1>6, <1>7

LEMMA AnnotateStep ==
  ASSUME SymbolInv, Annotate
  PROVE  SymbolInv'
  <1> USE DEF SymbolInv
  <1>1. /\ Step("annotate") /\ UNCHANGED <<seen, unresolved, collisions, outcome>>
        /\ graph' = [graph EXCEPT !.node = [id \in DOMAIN @ |-> AnnotatedNode(world, @[id])]]
    BY DEF Annotate
  <1>2. PICK j \in items : Take(j) BY DEF Annotate
  <1>3. items' = {} /\ Takes(j) /\ UNCHANGED <<world, job, jobs>> BY <1>1, <1>2, OnceItem
  <1>4. Shaped(graph) /\ ~Final /\ job.step = "annotate" /\ ~Final'
    BY <1>1, JobUnderWay DEF Final
  <1>5. /\ ScheduleInv'
        /\ \A step, lang, origin, x : step # "annotate" =>
             (Left(step, lang, origin, x) => Left(step, lang, origin, x)')
    BY <1>3, <1>4, TakeSchedule, Zenon
  <1> DEFINE node == [id \in DOMAIN graph.node |-> AnnotatedNode(world, graph.node[id])]
  <1>6. graph' = [node |-> node, edge |-> graph.edge] BY <1>1, <1>4 DEF Shaped
  <1>7. \A n \in DOMAIN graph.node : node[n] =
          [path |-> graph.node[n].path,
           repository |-> Annotated(world, graph.node[n].path, graph.node[n].repository),
           definitions |-> graph.node[n].definitions, resolution |-> graph.node[n].resolution]
    <2> TAKE n \in DOMAIN graph.node
    <2>1. Row(graph.node[n]) BY <1>4 DEF Shaped
    <2> DEFINE row == graph.node[n]
    <2>2. node[n] = [row EXCEPT !.repository = Annotated(world, row.path, @)]
      BY DEF AnnotatedNode
    <2> HIDE DEF row, node
    <2> QED BY <2>1, <2>2 DEF Row, row
  <1>8. node = [n \in DOMAIN node |-> node[n]] /\ DOMAIN node = DOMAIN graph.node OBVIOUS
  <1> HIDE DEF node
  <1>9. \A n \in DOMAIN node :
          /\ Row(node[n]) /\ node[n].path = graph.node[n].path
          /\ node[n].repository =
               Annotated(world, graph.node[n].path, graph.node[n].repository)
    <2> TAKE n \in DOMAIN node
    <2> DEFINE old == graph.node[n]
    <2>1. n \in DOMAIN graph.node BY <1>8
    <2>2. node[n] = [path |-> old.path, repository |-> Annotated(world, old.path, old.repository),
                     definitions |-> old.definitions, resolution |-> old.resolution]
      BY <2>1, <1>7
    <2> HIDE DEF old
    <2>3. Row(node[n]) /\ node[n].path = old.path
          /\ node[n].repository = Annotated(world, old.path, old.repository)
      BY <2>2 DEF Row
    <2> QED BY <2>3 DEF old
  <1>10. graph'.node = node /\ graph'.edge = graph.edge BY <1>6
  <1>11. Shaped(graph') BY <1>6, <1>8, <1>9, <1>10 DEF Shaped
  <1>12. NodesInv'
    <2>1. ~Annotation /\ Annotation' BY <1>2, <1>3, <1>4 DEF Annotation
    <2>2. ASSUME NEW n \in DOMAIN graph'.node, n.type = "SYMBOL_DEFINITION"
          PROVE  /\ graph'.node[n].path = n.path
                 /\ graph'.node[n].repository = Annotated(world, n.path, n.repository)
      <3>1. graph.node[n].path = n.path /\ graph.node[n].repository = n.repository
        BY <2>1, <2>2, <1>8, <1>10 DEF NodesInv
      <3> QED BY <3>1, <1>8, <1>9, <1>10
    <2> QED BY <2>1, <2>2, <1>3, <1>11 DEF NodesInv
  <1>13. DefinedInv' /\ KnownInv' /\ BinderInv' /\ SupertypesInv' /\ SeenInv'
    BY <1>1, <1>3, <1>5, <1>8, <1>10, NodesOnly
  <1>14. ReportInv' BY <1>3, <1>4 DEF ReportInv
  <1> QED BY <1>5, <1>12, <1>13, <1>14

LEMMA ValidateCollisionsStep ==
  ASSUME SymbolInv, ValidateCollisions
  PROVE  SymbolInv'
  <1> USE DEF SymbolInv
  <1>1. /\ Step("collisions") /\ UNCHANGED <<seen, graph, unresolved>> /\ collisions' = Collisions
        /\ outcome' = IF world.strict /\ Semantic(Collisions) THEN "failed" ELSE outcome
    BY DEF ValidateCollisions
  <1>2. PICK j \in items : Take(j) BY DEF ValidateCollisions
  <1>3. items' = {} /\ Takes(j) /\ UNCHANGED <<world, job, jobs>> BY <1>1, <1>2, OnceItem
  <1>4. ~Final /\ job.step = "collisions" BY <1>1, JobUnderWay
  <1>5. /\ ScheduleInv'
        /\ \A step, lang, origin, x : step # "collisions" =>
             (Left(step, lang, origin, x) => Left(step, lang, origin, x)')
    BY <1>3, <1>4, TakeSchedule, Zenon
  <1>6. NodesInv' BY <1>1, <1>3, <1>4 DEF NodesInv, Annotation
  <1>7. DefinedInv' /\ KnownInv' /\ BinderInv' /\ SupertypesInv' /\ SeenInv'
    BY <1>1, <1>3, <1>5, NodesOnly
  <1>8. ReportInv'
    <2>1. Collisions' = Collisions /\ \A ids : Semantic(ids)' = Semantic(ids)
      BY <1>1 DEF Collisions, Definitions, Semantic
    <2>2. outcome = "running" BY <1>4 DEF Final
    <2> QED BY <2>1, <2>2, <1>1, <1>3 DEF ReportInv
  <1> QED BY <1>5, <1>6, <1>7, <1>8

LEMMA LastJobStep ==
  ASSUME SymbolInv, LastJob
  PROVE  SymbolInv'
  <1> USE DEF SymbolInv
  <1>1. /\ outcome = "running" /\ items = {} /\ job.step = "collisions" /\ outcome' = "done"
        /\ UNCHANGED <<world, job, jobs, items, seen, graph, unresolved, collisions>>
    BY DEF LastJob
  <1>2. ScheduleInv' BY <1>1 DEF ScheduleInv, Final
  <1>3. NodesInv' BY <1>1 DEF NodesInv, Annotation
  <1>4. DefinedInv' /\ KnownInv' /\ BinderInv' /\ SupertypesInv' /\ SeenInv'
    BY <1>1, <1>2, NodesOnly DEF Left
  <1>5. ReportInv'
    <2>1. Collisions' = Collisions /\ Semantic(collisions)' = Semantic(collisions)
      BY <1>1 DEF Collisions, Definitions, Semantic
    <2> QED BY <2>1, <1>1 DEF ReportInv
  <1> QED BY <1>2, <1>3, <1>4, <1>5

LEMMA SameStep ==
  ASSUME SymbolInv, UNCHANGED symbolVars
  PROVE  SymbolInv'
  <1> USE DEF SymbolInv, symbolVars
  <1>1. ScheduleInv' BY DEF ScheduleInv, Final
  <1>2. NodesInv' BY DEF NodesInv, Annotation
  <1>3. DefinedInv' /\ KnownInv' /\ BinderInv' /\ SupertypesInv' /\ SeenInv'
    BY <1>1, NodesOnly DEF Left
  <1>4. ReportInv'
    <2>1. Collisions' = Collisions /\ Semantic(collisions)' = Semantic(collisions)
      BY DEF Collisions, Definitions, Semantic
    <2> QED BY <2>1 DEF ReportInv
  <1> QED BY <1>1, <1>2, <1>3, <1>4

LEMMA InitSymbolInv == SymbolInit => SymbolInv
  <1> SUFFICES ASSUME SymbolInit PROVE SymbolInv OBVIOUS
  <1>1. /\ world \in Worlds /\ job = NoJob /\ jobs = Jobs(world) /\ items = {}
        /\ seen = {} /\ graph = [node |-> <<>>, edge |-> {}] /\ unresolved = {} /\ ~Final
    BY DEF SymbolInit, Final
  <1>2. Planned(world) BY <1>1, WorldsAssumption
  <1>3. job.step = "none" BY <1>1 DEF NoJob, Job
  <1>4. DOMAIN graph.node = {} /\ graph.edge = {} BY <1>1
  <1>5. ScheduleInv
    <2>1. ASSUME NEW k \in Jobs(world) PROVE Before(NoJob, k)
      <3>1. k.turn[1] \in 1..7
        BY <1>2, JobsPlaced DEF Placed, Job
      <3> QED BY <3>1 DEF NoJob, Job, Before
    <2> QED BY <2>1, <1>1 DEF ScheduleInv
  <1>6. NodesInv
    <2>1. graph.node = [n \in DOMAIN graph.node |-> graph.node[n]] BY <1>1
    <2> QED BY <2>1, <1>1, <1>4 DEF NodesInv, Shaped
  <1>7. DefinedInv
    <2>1. ASSUME NEW o \in Origins, NEW r \in Declared(o)
          PROVE  Left("symbols", r.file.lang, o, r)
      <3>1. r.file.lang \in {"java", "kotlin"} /\ r.file.lang \in Languages(o)
        BY <1>2, DeclaredAre
      <3>2. \/ o \in DOMAIN world.root /\ r.file.lang \in world.languages[o]
            \/ o \in ToSet(world.manifest)
        BY <3>1 DEF Origins, Languages
      <3>3. \E k \in Jobs(world) : k.step = "symbols" /\ k.lang = r.file.lang /\ k.origin = o
        BY <1>2, <3>1, <3>2, JobsOfOrigins DEF Capabilities
      <3> QED BY <3>3, <1>1 DEF Left
    <2> QED BY <2>1, <1>4 DEF DefinedInv
  <1>8. \A k : k \in {Job(<<3, 1, 1>>, "interfaces", "aidl", "all"),
                      Job(<<3, 1, 2>>, "binder", "java", "all")} => k \in jobs
    BY <1>1, SingleJobs
  <1>9. KnownInv
    <2>1. \A f : Left("interfaces", "aidl", "all", f) BY <1>8 DEF Left, Job
    <2> QED BY <2>1, <1>4 DEF KnownInv
  <1>10. BinderInv
    <2>1. \A r : Left("binder", "java", "all", r) BY <1>8 DEF Left, Job
    <2> QED BY <2>1, <1>1, <1>4 DEF BinderInv
  <1>11. SupertypesInv
    <2>1. ASSUME NEW o \in DOMAIN world.root, NEW r \in Declared(o),
                 "inheritance" \in Capabilities[r.file.lang], NEW it
          PROVE  Left("inheritance", r.file.lang, o, it)
      <3>1. o \in Origins BY DEF Origins
      <3>2. r.file.lang \in {"java", "kotlin"} /\ r.file.lang \in world.languages[o]
        BY <1>2, <3>1, DeclaredAre DEF Languages
      <3>3. \E k \in Jobs(world) : k.step = "inheritance" /\ k.lang = r.file.lang /\ k.origin = o
        BY <1>2, <2>1, <3>2, JobsOfOrigins
      <3> QED BY <3>3, <1>1 DEF Left
    <2> QED BY <2>1 DEF SupertypesInv
  <1>12. SeenInv BY <1>1 DEF SeenInv
  <1>13. ReportInv BY <1>3 DEF ReportInv
  <1> QED BY <1>5, <1>6, <1>7, <1>9, <1>10, <1>11, <1>12, <1>13 DEF SymbolInv

THEOREM SymbolInvariant == SymbolSpec => []SymbolInv
  <1>1. SymbolInv /\ [SymbolNext]_symbolVars => SymbolInv'
    BY NextJobStep, LastJobStep, ImportSymbolStep, ImportMemberStep, ImportInterfaceStep,
       ImportRelationStep, ImportSupertypeStep, TraceArtifactStep, AnnotateStep,
       ValidateCollisionsStep, SameStep DEF SymbolNext
  <1> QED BY <1>1, InitSymbolInv, PTL DEF SymbolSpec

-----------------------------------------------------------------------------
(* Once the last command has ended nothing is left to bring. *)
LEMMA NothingLeft ==
  ASSUME SymbolInv, Final
  PROVE  /\ Planned(world) /\ items = {} /\ Annotation /\ job.step = "collisions"
         /\ \A step, lang, origin, x : step # "collisions" => ~Left(step, lang, origin, x)
  <1>1. ScheduleInv /\ job.step = "collisions" /\ items = {} BY DEF SymbolInv, ScheduleInv
  <1>2. jobs = {} BY <1>1, LastTurns
  <1> QED BY <1>1, <1>2, ScheduleFacts DEF Left, Annotation

LEMMA DefinedAtTheEnd ==
  ASSUME SymbolInv, Final, NEW o \in Origins, NEW r \in Declared(o)
  PROVE  LET id == SymbolId(r.file, r.tag)
             d == DefinitionId(o, r.file.path, r.tag.line, id)
         IN /\ d \in Definitions(graph, id) /\ Link(o, r) \in graph.edge
            /\ Link(o, r).to = id /\ Link(o, r).type = "DEFINES_SYMBOL" /\ d.line = r.tag.line
            /\ graph.node[d].path = r.file.path
            /\ graph.node[d].repository = NamedOwner(o, r.file.path)
  <1> DEFINE id == SymbolId(r.file, r.tag)
             d == DefinitionId(o, r.file.path, r.tag.line, id)
  <1>1. Planned(world) /\ Annotation /\ Defined(o, r)
    BY NothingLeft DEF SymbolInv, DefinedInv
  <1>2. /\ Link(o, r).from = d /\ Link(o, r).to = id /\ Link(o, r).type = "DEFINES_SYMBOL"
    BY DEF Link, GraphRow
  <1>3. Link(o, r) \in graph.edge /\ d \in DOMAIN graph.node
    BY <1>1, <1>2 DEF Defined
  <1>4. d \in Definitions(graph, id) BY <1>2, <1>3 DEF Definitions
  <1>5. /\ d.type = "SYMBOL_DEFINITION" /\ d.path = r.file.path /\ d.repository = o
        /\ d.line = r.tag.line
    BY DEF DefinitionId
  <1> HIDE DEF d
  <1>6. /\ graph.node[d].path = r.file.path
        /\ graph.node[d].repository = Annotated(world, r.file.path, o)
    BY <1>1, <1>3, <1>5 DEF SymbolInv, NodesInv
  <1>7. Annotated(world, r.file.path, o) = NamedOwner(o, r.file.path)
    BY <1>1, DeclaredAre, OwnerIsAnnotated
  <1> QED BY <1>2, <1>3, <1>4, <1>5, <1>6, <1>7 DEF d

LEMMA SitesAre ==
  ASSUME NEW id
  PROVE  \A site : site \in DeclaredAt(id) <=>
           \E o \in Origins : \E r \in Declared(o) :
             SymbolId(r.file, r.tag) = id /\ site = <<o, r.file.path>>
  BY DEF DeclaredAt

LEMMA DefinitionsAtTheEnd ==
  ASSUME SymbolInv, Final, NEW id
  PROVE  {graph.node[d].repository : d \in Definitions(graph, id)} = NamesOf(id)
  <1>1. ASSUME NEW d \in Definitions(graph, id)
        PROVE  graph.node[d].repository \in NamesOf(id)
    <2>1. PICK e \in graph.edge : e.type = "DEFINES_SYMBOL" /\ e.to = id /\ e.from = d
      BY DEF Definitions
    <2>2. PICK o \in Origins : \E r \in Declared(o) : e = Link(o, r)
      BY <2>1 DEF SymbolInv, DefinedInv
    <2>3. PICK r \in Declared(o) : e = Link(o, r) BY <2>2
    <2>4. SymbolId(r.file, r.tag) = id /\ d = DefinitionId(o, r.file.path, r.tag.line, id)
      BY <2>1, <2>3 DEF Link, GraphRow
    <2>5. graph.node[d].repository = NamedOwner(o, r.file.path)
      BY <2>4, DefinedAtTheEnd
    <2>6. <<o, r.file.path>> \in DeclaredAt(id) BY <2>4, SitesAre
    <2> QED BY <2>5, <2>6 DEF NamesOf
  <1>2. ASSUME NEW site \in DeclaredAt(id)
        PROVE  NamedOwner(site[1], site[2]) \in
                 {graph.node[d].repository : d \in Definitions(graph, id)}
    <2>1. PICK o \in Origins : \E r \in Declared(o) :
            SymbolId(r.file, r.tag) = id /\ site = <<o, r.file.path>>
      BY SitesAre
    <2>2. PICK r \in Declared(o) : SymbolId(r.file, r.tag) = id /\ site = <<o, r.file.path>>
      BY <2>1
    <2>3. /\ DefinitionId(o, r.file.path, r.tag.line, id) \in Definitions(graph, id)
          /\ graph.node[DefinitionId(o, r.file.path, r.tag.line, id)].repository =
               NamedOwner(o, r.file.path)
      BY <2>2, DefinedAtTheEnd
    <2>4. site[1] = o /\ site[2] = r.file.path BY <2>2
    <2> QED BY <2>3, <2>4
  <1> QED BY <1>1, <1>2 DEF NamesOf

(* Where every owner bears its own name, the names are the owners. *)
LEMMA NamesAreOwners ==
  ASSUME Planned(world), NEW id,
         \A site \in DeclaredAt(id) :
           site[1] \in DOMAIN world.root \/ Holders(world, site[2]) = {}
  PROVE  NamesOf(id) = OwnersOf(id)
  <1>1. ASSUME NEW site \in DeclaredAt(id)
        PROVE  NamedOwner(site[1], site[2]) = InnermostOwner(site[1], site[2])
    <2>1. PICK o \in Origins : \E r \in Declared(o) : site = <<o, r.file.path>>
      BY SitesAre
    <2>2. PICK r \in Declared(o) : site = <<o, r.file.path>> BY <2>1
    <2>3. site[1] = o /\ site[2] = r.file.path BY <2>2
    <2>4. r.file \in FilesOf(world, o) /\ FileFound(r.file) BY DeclaredAre
    <2> QED BY <2>3, <2>4, OwnerIsNamed
  <1> QED BY <1>1 DEF NamesOf, OwnersOf

(* Whatever the order of the scans and however often a symbol is declared     *)
(* again, each declaration of the platform and of the artifacts has its       *)
(* definition in the graph, with its file, its line and its owner: first_pass *)
(* and upsert_symbol_definition over any trees, plans and manifests.          *)
THEOREM DefinitionsKept == SymbolSpec => []NoDefinitionLost
  <1>1. SymbolInv => NoDefinitionLost
    <2> SUFFICES ASSUME SymbolInv, Final, NEW o \in Origins, NEW r \in Declared(o)
                 PROVE  \E d \in Definitions(graph, SymbolId(r.file, r.tag)) :
                          /\ d.line = r.tag.line
                          /\ graph.node[d].path = r.file.path
                          /\ graph.node[d].repository = NamedOwner(o, r.file.path)
      BY DEF NoDefinitionLost
    <2> QED BY DefinedAtTheEnd
  <1> QED BY <1>1, SymbolInvariant, PTL

(* The report of the collision validator names exactly the symbols whose      *)
(* files have owners of several names, which are the symbols of several       *)
(* owners where no artifact's file takes a repository's name, and a strict    *)
(* build fails exactly when an edge depends on one of them: annotate() and    *)
(* validate_symbol_collisions.                                               *)
THEOREM CollisionsReported == SymbolSpec => []CollisionsExact
  <1>1. SymbolInv => CollisionsExact
    <2> DEFINE defined == {e.to : e \in {x \in graph.edge : x.type = "DEFINES_SYMBOL"}}
               declared == {SymbolId(r.file, r.tag) : r \in DeclaredIn(Origins)}
    <2> SUFFICES ASSUME SymbolInv, Final
                 PROVE  /\ collisions = {id \in declared : Cardinality(NamesOf(id)) > 1}
                        /\ \A id \in declared :
                             (\A site \in DeclaredAt(id) :
                                site[1] \in DOMAIN world.root \/ Holders(world, site[2]) = {})
                             => (id \in collisions) = (Cardinality(OwnersOf(id)) > 1)
                        /\ (outcome = "failed") = (world.strict /\ Semantic(collisions))
      BY DEF CollisionsExact
    <2>1. /\ collisions = Collisions /\ Planned(world)
          /\ (outcome = "failed") = (world.strict /\ Semantic(collisions))
      BY NothingLeft DEF SymbolInv, ReportInv
    <2>2. defined \subseteq declared
      BY DEF SymbolInv, DefinedInv, DeclaredIn, Link, GraphRow
    <2>3. declared \subseteq defined
      <3>1. \A o \in Origins : \A r \in Declared(o) :
              /\ Link(o, r) \in graph.edge /\ Link(o, r).to = SymbolId(r.file, r.tag)
              /\ Link(o, r).type = "DEFINES_SYMBOL"
        BY DefinedAtTheEnd
      <3> QED BY <3>1 DEF DeclaredIn
    <2>4. Collisions = {id \in defined :
            Cardinality({graph.node[d].repository : d \in Definitions(graph, id)}) > 1}
      BY DEF Collisions
    <2> HIDE DEF defined, declared
    <2>5. Collisions = {id \in declared : Cardinality(NamesOf(id)) > 1}
      BY <2>2, <2>3, <2>4, DefinitionsAtTheEnd
    <2>6. ASSUME NEW id \in declared,
                 \A site \in DeclaredAt(id) :
                   site[1] \in DOMAIN world.root \/ Holders(world, site[2]) = {}
          PROVE  (id \in collisions) = (Cardinality(OwnersOf(id)) > 1)
      <3>1. NamesOf(id) = OwnersOf(id) BY <2>1, <2>6, NamesAreOwners
      <3>2. id \in collisions <=> Cardinality(NamesOf(id)) > 1 BY <2>1, <2>5
      <3> QED BY <3>1, <3>2
    <2> QED BY <2>1, <2>5, <2>6
  <1> QED BY <1>1, SymbolInvariant, PTL

(* A supertype that is the only platform type of its name, or the one that    *)
(* the file imports, is drawn from the type that declares it, once for each   *)
(* repository that declares it, whatever the order of the repositories:       *)
(* TypeIndex.resolve reads all of the platform.                              *)
THEOREM SupertypesFound == SymbolSpec => []SupertypesDrawn
  <1>1. SymbolInv => SupertypesDrawn
    <2> SUFFICES ASSUME SymbolInv, Final PROVE SupertypesDrawn BY DEF SupertypesDrawn
    <2>1. \A o \in DOMAIN world.root : \A r \in Declared(o) :
            r.tag.kind \in {"class", "interface"} /\ "inheritance" \in Capabilities[r.file.lang]
            => \A x \in r.tag.inherits : SuperDrawn(o, r, x)
      BY NothingLeft, Zenon DEF SymbolInv, SupertypesInv
    <2> QED BY <2>1, Zenon DEF SupertypesDrawn, SuperDrawn, Children, Meant, Named, Imported,
                               DrawnFrom
  <1> QED BY <1>1, SymbolInvariant, PTL

(* A recognised implementation of a Binder stub is drawn when the class and   *)
(* the interface are in the sources, and reported when one of them is not:    *)
(* import_binder_relations and the second look of multi_aidl agree.           *)
THEOREM BindersKept == SymbolSpec => []BindersAccounted
  <1>1. SymbolInv => BindersAccounted
    <2> SUFFICES ASSUME SymbolInv, Final, NEW r \in Relations(world)
                 PROVE  LET class == Id("JAVA_CLASS", r.class)
                            aidl == Id("AIDL_INTERFACE", r.aidl)
                        IN /\ Drawn(class, aidl) =
                                (Missing("binder", class, aidl, r.path) \notin unresolved)
                           /\ Drawn(class, aidl) =
                                (/\ class \in PlatformTypes
                                 /\ r.aidl \in {InterfaceName(f) : f \in Interfaces(world)})
      BY Zenon DEF BindersAccounted, Drawn
    <2> DEFINE class == Id("JAVA_CLASS", r.class)
               aidl == Id("AIDL_INTERFACE", r.aidl)
               line == Missing("binder", class, aidl, r.path)
    <2>1. Drawn(class, aidl) => BothKnown(class, aidl) BY DEF Drawn, SymbolInv, BinderInv
    <2>2. line \in unresolved => ~BothKnown(class, aidl)
      <3>1. line.report = "binder" /\ line.child = class /\ line.parent = aidl BY DEF Missing
      <3> HIDE DEF line, class, aidl
      <3> QED BY <3>1 DEF SymbolInv, BinderInv
    <2>3. Drawn(class, aidl) \/ line \in unresolved
      BY NothingLeft DEF SymbolInv, BinderInv
    <2>4. BothKnown(class, aidl) <=>
            class \in PlatformTypes /\ r.aidl \in {InterfaceName(f) : f \in Interfaces(world)}
      BY DEF BothKnown, InterfaceNames, Id
    <2>5. Drawn(class, aidl) \in BOOLEAN /\ (line \notin unresolved) \in BOOLEAN BY DEF Drawn
    <2> HIDE DEF line, class, aidl
    <2>6. /\ Drawn(class, aidl) = (line \notin unresolved)
          /\ Drawn(class, aidl) = (/\ class \in PlatformTypes
                                   /\ r.aidl \in {InterfaceName(f) : f \in Interfaces(world)})
      BY <2>1, <2>2, <2>3, <2>4, <2>5
    <2> QED BY <2>6 DEF line, class, aidl
  <1> QED BY <1>1, SymbolInvariant, PTL
===============================================================================
