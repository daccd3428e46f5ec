------------------------- MODULE ServiceScanProofs -------------------------
(* What the service scan leaves in the graph, for any sources, edits, kills   *)
(* and damaged entries of the cache.  The invariant says that a model is the  *)
(* one of the content that was read, whatever the cache held, and that the    *)
(* facts do not change while they are written: they are of the models and of  *)
(* the graph's types, so the facts that are in the graph and the ones still   *)
(* to import are always the same set.                                         *)
EXTENDS ServiceScan, FiniteSetTheorems, WellFoundedInduction, TLAPS

SourcesOf(t) ==
  [path : DOMAIN t.contents, repository : DOMAIN t.files,
   model : ContentsOf(t), content : ContentsOf(t)]

ServiceTypeInv ==
  /\ tree \in Trees
  /\ disk \in [DOMAIN tree.contents -> Nat]
  /\ \A p \in DOMAIN tree.contents : disk[p] \in 1..Len(tree.contents[p])
  /\ scan \in Seq((DOMAIN tree.files) \X (DOMAIN tree.contents))
  /\ scanPhase \in {"scan", "write", "done"}

(* An entry that would be used has the key of the content it was parsed from. *)
CacheInv ==
  \A e \in models :
    /\ e = [version |-> e.version, key |-> e.key, model |-> e.model, whole |-> e.whole]
    /\ e.version = Version /\ e.whole => e.key = ModelKey("any", e.model)

(* What is loaded is what was read, and a path is loaded once. *)
LoadedInv ==
  /\ loaded \in Seq(SourcesOf(tree))
  /\ \A i \in DOMAIN loaded : loaded[i].model = loaded[i].content
  /\ \A i, j \in DOMAIN loaded : loaded[i].path = loaded[j].path => i = j

(* The facts of the sources are in the graph, or still to import. *)
FactsInv ==
  /\ scanPhase = "scan" => facts = {} /\ nodes = {} /\ edges = {}
  /\ scanPhase # "scan" =>
       /\ facts \cup nodes = Facts
       /\ edges = UNION {FactEdges(n) : n \in nodes}
  /\ scanPhase = "done" => facts = {}

ServiceInv == ServiceTypeInv /\ CacheInv /\ LoadedInv /\ FactsInv

-----------------------------------------------------------------------------
(* The facts are of the models that were loaded, and of the graph's types.    *)
LEMMA SameTypeName ==
  ASSUME tree' = tree
  PROVE  \A src, reference, offset :
           TypeName(src, reference, offset)' = TypeName(src, reference, offset)
  BY DEF TypeName

LEMMA SameInstance ==
  ASSUME tree' = tree
  PROVE  \A src, expression, offset :
           InstanceType(src, expression, offset)' = InstanceType(src, expression, offset)
  BY SameTypeName DEF InstanceType

LEMMA SameClass ==
  ASSUME tree' = tree
  PROVE  \A guess : Class(guess)' = Class(guess)
  <1>1. Rows' = Rows BY DEF Rows
  <1>2. \A name : Row(name)' = Row(name) BY DEF Row
  <1> QED BY <1>1, <1>2 DEF Class

LEMMA SameConstants ==
  ASSUME loaded' = loaded
  PROVE  Constants' = Constants
  BY DEF Constants, DefinedIn

LEMMA SameCandidates ==
  ASSUME loaded' = loaded
  PROVE  \A reference, src, offset :
           CandidatesFor(reference, src, offset)' = CandidatesFor(reference, src, offset)
  <1>1. \A name : Qualified(name)' = Qualified(name) BY SameConstants DEF Qualified
  <1> SUFFICES ASSUME NEW reference, NEW src, NEW offset
               PROVE  CandidatesFor(reference, src, offset)'
                        = CandidatesFor(reference, src, offset)
    OBVIOUS
  <1>2. {Qualified(q)' : q \in NamesFor(reference, src, offset)}
          = {Qualified(q) : q \in NamesFor(reference, src, offset)}
    BY <1>1
  <1> QED BY <1>2, SameConstants DEF CandidatesFor

LEMMA SameFollow ==
  ASSUME loaded' = loaded
  PROVE  \A s : Follow(s)' = Follow(s)
  BY SameCandidates DEF Follow

LEMMA FollowStays ==
  ASSUME NEW s,
         \/ s.expression.form # "name" \/ s.expression.value \in s.seen
         \/ Unique(CandidatesFor(s.expression.value, s.src, s.offset)) = {}
  PROVE  Follow(s) = s
  BY DEF Follow

LEMMA FollowGoes ==
  ASSUME NEW s, s.expression.form = "name", s.expression.value \notin s.seen,
         NEW c, Unique(CandidatesFor(s.expression.value, s.src, s.offset)) = {c}
  PROVE  Follow(s) = [expression |-> c.expression, src |-> loaded[c.source].model,
                      offset |-> c.offset, seen |-> s.seen \cup {s.expression.value}]
  <1>1. AnyOf({c}) = c BY DEF AnyOf
  <1>2. {c} # {} OBVIOUS
  <1> QED BY <1>1, <1>2 DEF Follow

(* Without a function: ten steps, one after another. *)
FiveTimes(s) == Follow(Follow(Follow(Follow(Follow(s)))))
TenTimes(s) == FiveTimes(FiveTimes(s))

Chain(h, s, m) == h = [n \in 0..m |-> IF n = 0 THEN s ELSE Follow(h[n - 1])]

LEMMA FollowedTenTimes ==
  ASSUME NEW s
  PROVE  Followed(s) = TenTimes(s)
  <1>1. \E h : Chain(h, s, 0)
    <2> DEFINE h == [n \in 0..0 |-> s]
    <2>1. h = [n \in 0..0 |-> IF n = 0 THEN s ELSE Follow(h[n - 1])] OBVIOUS
    <2> QED BY <2>1 DEF Chain
  <1>2. ASSUME NEW m \in Nat, NEW h, Chain(h, s, m)
        PROVE  \E g : Chain(g, s, m + 1)
    <2> DEFINE g == [n \in 0..(m + 1) |-> IF n = m + 1 THEN Follow(h[m]) ELSE h[n]]
    <2>1. ASSUME NEW n \in 0..(m + 1)
          PROVE  g[n] = IF n = 0 THEN s ELSE Follow(g[n - 1])
      <3>1. CASE n = m + 1 BY <3>1
      <3>2. CASE n = 0 BY <1>2, <3>2 DEF Chain
      <3>3. CASE n \in 1..m
        <4>1. n \in 0..m /\ n - 1 \in 0..(m + 1) /\ n - 1 # m + 1 /\ n # m + 1 /\ n # 0
          BY <3>3
        <4>2. h[n] = Follow(h[n - 1]) BY <1>2, <4>1 DEF Chain
        <4> QED BY <4>1, <4>2
      <3> QED BY <3>1, <3>2, <3>3
    <2>2. g = [n \in 0..(m + 1) |-> g[n]] OBVIOUS
    <2>3. g = [n \in 0..(m + 1) |-> IF n = 0 THEN s ELSE Follow(g[n - 1])]
      <3> HIDE DEF g
      <3> QED BY <2>1, <2>2
    <2> QED BY <2>3 DEF Chain
  <1>3. \A m \in Nat : (\E h : Chain(h, s, m)) => \E h : Chain(h, s, m + 1) BY <1>2
  <1>4. \E h : Chain(h, s, MaxDepth)
    <2>1. \E h : Chain(h, s, 5) BY <1>1, <1>3
    <2> QED BY <1>3, <2>1 DEF MaxDepth
  <1> DEFINE a == CHOOSE h : h = [n \in 0..MaxDepth |->
                                    IF n = 0 THEN s ELSE Follow(h[n - 1])]
  <1>5. a = [n \in 0..MaxDepth |-> IF n = 0 THEN s ELSE Follow(a[n - 1])]
    BY <1>4 DEF Chain
  <1>6. Followed(s) = a[10] BY DEF Followed, MaxDepth
  <1> HIDE DEF a
  <1>7. \A n \in 1..10 : a[n] = Follow(a[n - 1]) BY <1>5 DEF MaxDepth
  <1>8. a[0] = s BY <1>5 DEF MaxDepth
  <1>9. a[5] = FiveTimes(s) BY <1>7, <1>8 DEF FiveTimes
  <1>10. a[10] = FiveTimes(a[5]) BY <1>7 DEF FiveTimes
  <1> QED BY <1>6, <1>9, <1>10 DEF TenTimes

LEMMA AllTenTimes == \A s : Followed(s) = TenTimes(s)
  BY FollowedTenTimes

LEMMA SameKey ==
  ASSUME loaded' = loaded
  PROVE  \A expression, src, offset :
           ResolveKey(expression, src, offset)' = ResolveKey(expression, src, offset)
  <1>1. \A s : TenTimes(s)' = TenTimes(s)
    <2>1. \A s : FiveTimes(s)' = FiveTimes(s) BY SameFollow DEF FiveTimes
    <2> QED BY <2>1 DEF TenTimes
  <1>2. (\A s : Followed(s) = TenTimes(s))' BY AllTenTimes, PTL
  <1>3. \A s : Followed(s)' = Followed(s) BY <1>1, <1>2, AllTenTimes
  <1> QED BY <1>3 DEF ResolveKey

LEMMA SameFacts ==
  ASSUME tree' = tree, loaded' = loaded
  PROVE  Facts' = Facts
  <1>1. \A src, call : RegistrationKey(src, call)' = RegistrationKey(src, call)
    BY SameKey, SameTypeName DEF RegistrationKey
  <1>2. \A source, call : Fact(source, call)' = Fact(source, call)
    BY <1>1, SameInstance, SameClass DEF Fact
  <1> QED BY <1>2 DEF Facts

LEMMA SameEdges ==
  ASSUME tree' = tree
  PROVE  \A f : FactEdges(f)' = FactEdges(f)
  BY SameClass DEF FactEdges

-----------------------------------------------------------------------------
(* The calls of what is loaded are told apart by what their facts are named.  *)
LEMMA ContentRead ==
  ASSUME ServiceInv, NEW p \in DOMAIN tree.contents
  PROVE  OnDisk(p) \in ContentsOf(tree)
  <1>1. DOMAIN tree.contents[p] = 1..Len(tree.contents[p])
    BY TreesAssumption DEF ServiceInv, ServiceTypeInv, Scannable
  <1> QED BY <1>1 DEF ServiceInv, ServiceTypeInv, OnDisk, ContentsOf

LEMMA CallsApart ==
  ASSUME ServiceInv, NEW i \in DOMAIN loaded, NEW j \in DOMAIN loaded,
         NEW c \in Calls(loaded[i].content), NEW d \in Calls(loaded[j].content),
         RegistrationId(loaded[i].path, c) = RegistrationId(loaded[j].path, d)
  PROVE  i = j /\ c = d
  <1>1. loaded[i].path = loaded[j].path /\ c.api = d.api /\ c.line = d.line
        /\ c.offset = d.offset
    BY DEF RegistrationId
  <1>2. i = j BY <1>1 DEF ServiceInv, LoadedInv
  <1>3. loaded[i].content \in ContentsOf(tree)
    <2>1. loaded[i] \in SourcesOf(tree) BY DEF ServiceInv, LoadedInv
    <2> QED BY <2>1 DEF SourcesOf
  <1>4. Scannable(tree) BY TreesAssumption DEF ServiceInv, ServiceTypeInv
  <1> QED BY <1>1, <1>2, <1>3, <1>4 DEF Scannable

LEMMA FactsApart ==
  ASSUME ServiceInv, NEW f \in Facts, NEW g \in Facts, f.id = g.id
  PROVE  f = g
  <1>1. PICK i \in DOMAIN loaded : \E c \in Calls(loaded[i].model) : f = Fact(loaded[i], c)
    BY DEF Facts
  <1>2. PICK c \in Calls(loaded[i].model) : f = Fact(loaded[i], c) BY <1>1
  <1>3. PICK j \in DOMAIN loaded : \E d \in Calls(loaded[j].model) : g = Fact(loaded[j], d)
    BY DEF Facts
  <1>4. PICK d \in Calls(loaded[j].model) : g = Fact(loaded[j], d) BY <1>3
  <1>5. loaded[i].model = loaded[i].content /\ loaded[j].model = loaded[j].content
    BY DEF ServiceInv, LoadedInv
  <1>6. RegistrationId(loaded[i].path, c) = RegistrationId(loaded[j].path, d)
    BY <1>2, <1>4 DEF Fact
  <1> QED BY <1>2, <1>4, <1>5, <1>6, CallsApart

-----------------------------------------------------------------------------
LEMMA InitServiceInv == ASSUME ServiceInit PROVE ServiceInv
  <1> USE DEF ServiceInit
  <1>1. Scannable(tree) BY TreesAssumption
  <1>2. ServiceTypeInv BY <1>1 DEF ServiceTypeInv, Scannable
  <1>3. CacheInv BY DEF CacheInv, Version
  <1>4. LoadedInv BY DEF LoadedInv
  <1>5. FactsInv BY DEF FactsInv
  <1> QED BY <1>2, <1>3, <1>4, <1>5 DEF ServiceInv

LEMMA LoadFileStep == ASSUME ServiceInv, LoadFile PROVE ServiceInv'
  <1> DEFINE path == scan[1][2]
             key == ModelKey(path, OnDisk(path))
             hits == Hits(key)
             model == IF hits = {} THEN OnDisk(path) ELSE AnyOf(hits).model
             new == [version |-> Version, key |-> key, model |-> model, whole |-> TRUE]
             read == [path |-> path, repository |-> scan[1][1], model |-> model,
                      content |-> OnDisk(path)]
  <1>1. /\ scanPhase = "scan" /\ scan # <<>> /\ scan' = Tail(scan)
        /\ UNCHANGED <<tree, disk, facts, nodes, edges, scanPhase>>
        /\ models' = IF hits # {} THEN models
                     ELSE {e \in models : e.version # Version \/ e.key # key} \cup {new}
        /\ loaded' = IF \E i \in DOMAIN loaded : loaded[i].path = path THEN loaded
                     ELSE Append(loaded, read)
    BY DEF LoadFile
  <1>2. scan[1] \in (DOMAIN tree.files) \X (DOMAIN tree.contents)
    BY <1>1 DEF ServiceInv, ServiceTypeInv
  <1>3. path \in DOMAIN tree.contents /\ scan[1][1] \in DOMAIN tree.files BY <1>2
  <1>4. OnDisk(path) \in ContentsOf(tree) BY <1>3, ContentRead
  <1>5. model = OnDisk(path)
    <2> SUFFICES ASSUME hits # {} PROVE AnyOf(hits).model = OnDisk(path) OBVIOUS
    <2>1. AnyOf(hits) \in hits BY DEF AnyOf
    <2> QED BY <2>1 DEF Hits, ModelKey, ServiceInv, CacheInv
  <1> HIDE DEF model, path
  <1>6. ServiceTypeInv' BY <1>1 DEF ServiceInv, ServiceTypeInv
  <1>7. CacheInv' BY <1>1, <1>5 DEF ServiceInv, CacheInv, ModelKey
  <1>8. LoadedInv'
    <2>1. CASE \E i \in DOMAIN loaded : loaded[i].path = path
      BY <1>1, <2>1 DEF ServiceInv, LoadedInv
    <2>2. CASE ~\E i \in DOMAIN loaded : loaded[i].path = path
      <3>1. read \in SourcesOf(tree) BY <1>3, <1>4, <1>5 DEF SourcesOf
      <3> HIDE DEF read
      <3>2. loaded' = Append(loaded, read) /\ loaded \in Seq(SourcesOf(tree))
        BY <1>1, <2>2 DEF ServiceInv, LoadedInv
      <3>3. /\ loaded' \in Seq(SourcesOf(tree))
            /\ DOMAIN loaded' = DOMAIN loaded \cup {Len(loaded) + 1}
            /\ \A i \in DOMAIN loaded : loaded'[i] = loaded[i]
            /\ loaded'[Len(loaded) + 1] = read
        BY <3>1, <3>2
      <3>4. read.path = path /\ read.model = read.content BY <1>5 DEF read
      <3> QED BY <1>1, <2>2, <3>3, <3>4 DEF ServiceInv, LoadedInv
    <2> QED BY <2>1, <2>2
  <1>9. FactsInv' BY <1>1 DEF ServiceInv, FactsInv
  <1> QED BY <1>6, <1>7, <1>8, <1>9 DEF ServiceInv

LEMMA BuildFactsStep == ASSUME ServiceInv, BuildFacts PROVE ServiceInv'
  <1> USE DEF BuildFacts
  <1>1. ServiceTypeInv' /\ CacheInv' /\ LoadedInv'
    BY DEF ServiceInv, ServiceTypeInv, CacheInv, LoadedInv
  <1>2. facts' = Facts' /\ nodes' = {} /\ edges' = {}
    BY SameFacts DEF ServiceInv, FactsInv
  <1>3. FactsInv' BY <1>2 DEF FactsInv
  <1> QED BY <1>1, <1>3 DEF ServiceInv

LEMMA ImportFactStep == ASSUME ServiceInv, ImportFact PROVE ServiceInv'
  <1>1. PICK f \in facts : /\ facts' = facts \ {f}
                           /\ nodes' = {n \in nodes : n.id # f.id} \cup {f}
                           /\ edges' = edges \cup FactEdges(f)
    BY DEF ImportFact
  <1>2. /\ scanPhase = "write" /\ scanPhase' = "write"
        /\ UNCHANGED <<tree, disk, models, scan, loaded>>
    BY DEF ImportFact
  <1>3. ServiceTypeInv' /\ CacheInv' /\ LoadedInv'
    BY <1>2 DEF ServiceInv, ServiceTypeInv, CacheInv, LoadedInv
  <1>4. facts \cup nodes = Facts /\ edges = UNION {FactEdges(n) : n \in nodes}
    BY <1>2 DEF ServiceInv, FactsInv
  <1>5. \A n \in nodes : n.id = f.id => n = f BY <1>4, FactsApart
  <1>6. nodes' = nodes \cup {f} BY <1>1, <1>5
  <1>7. Facts' = Facts /\ \A g : FactEdges(g)' = FactEdges(g)
    BY <1>2, SameFacts, SameEdges
  <1>8. edges' = UNION {FactEdges(n) : n \in nodes'} BY <1>1, <1>4, <1>6
  <1>9. {FactEdges(n)' : n \in nodes'} = {FactEdges(n) : n \in nodes'} BY <1>7
  <1>10. facts' \cup nodes' = Facts' BY <1>1, <1>4, <1>6, <1>7
  <1>11. FactsInv' BY <1>2, <1>8, <1>9, <1>10 DEF FactsInv
  <1> QED BY <1>3, <1>11 DEF ServiceInv

(* Nothing the facts are of changes. *)
LEMMA OtherSteps ==
  ASSUME ServiceInv, Finish \/ EditSource \/ DamageEntry \/ UNCHANGED serviceVars
  PROVE  ServiceInv'
  <1>1. UNCHANGED <<tree, scan, loaded, facts, nodes, edges>>
    BY DEF Finish, EditSource, DamageEntry, serviceVars
  <1>2. disk' \in [DOMAIN tree.contents -> Nat]
        /\ \A p \in DOMAIN tree.contents : disk'[p] \in 1..Len(tree.contents[p])
    <2>1. \A p \in DOMAIN tree.contents : Len(tree.contents[p]) \in Nat
      BY TreesAssumption DEF ServiceInv, ServiceTypeInv, Scannable
    <2>2. CASE EditSource
      <3>1. PICK p \in DOMAIN disk : /\ disk[p] < Len(tree.contents[p])
                                     /\ disk' = [disk EXCEPT ![p] = @ + 1]
        BY <2>2 DEF EditSource
      <3> QED BY <2>1, <3>1 DEF ServiceInv, ServiceTypeInv
    <2>3. CASE ~EditSource
      BY <2>3 DEF ServiceInv, ServiceTypeInv, Finish, DamageEntry, serviceVars
    <2> QED BY <2>2, <2>3
  <1>3. ServiceTypeInv'
    BY <1>1, <1>2 DEF ServiceInv, ServiceTypeInv, Finish, EditSource, DamageEntry, serviceVars
  <1>4. CacheInv'
    <2>1. CASE DamageEntry BY <2>1 DEF DamageEntry, ServiceInv, CacheInv
    <2>2. CASE ~DamageEntry
      BY <2>2 DEF ServiceInv, CacheInv, Finish, EditSource, serviceVars
    <2> QED BY <2>1, <2>2
  <1>5. LoadedInv' BY <1>1 DEF ServiceInv, LoadedInv
  <1>6. scanPhase' = scanPhase \/ (scanPhase = "write" /\ scanPhase' = "done" /\ facts = {})
    BY DEF Finish, EditSource, DamageEntry, serviceVars
  <1>7. Facts' = Facts /\ \A g : FactEdges(g)' = FactEdges(g)
    BY <1>1, SameFacts, SameEdges
  <1>8. {FactEdges(n)' : n \in nodes'} = {FactEdges(n) : n \in nodes} BY <1>1, <1>7
  <1>9. FactsInv' BY <1>1, <1>6, <1>7, <1>8 DEF ServiceInv, FactsInv
  <1> QED BY <1>3, <1>4, <1>5, <1>9 DEF ServiceInv

LEMMA RebuildStep == ASSUME ServiceInv, Rebuild PROVE ServiceInv'
  <1> USE DEF Rebuild, BeginScan
  <1>1. Scannable(tree) BY TreesAssumption DEF ServiceInv, ServiceTypeInv
  <1>2. ServiceTypeInv' BY <1>1 DEF ServiceInv, ServiceTypeInv, Scannable
  <1>3. CacheInv' BY DEF ServiceInv, CacheInv
  <1>4. LoadedInv' BY DEF LoadedInv
  <1>5. FactsInv' BY DEF FactsInv
  <1> QED BY <1>2, <1>3, <1>4, <1>5 DEF ServiceInv

(* The inductive invariant of the service scan. *)
THEOREM ServiceInvariant == ServiceSpec => []ServiceInv
  <1>1. ServiceInv /\ [ServiceNext]_serviceVars => ServiceInv'
    BY LoadFileStep, BuildFactsStep, ImportFactStep, OtherSteps, RebuildStep DEF ServiceNext
  <1> QED BY <1>1, InitServiceInv, PTL DEF ServiceSpec

-----------------------------------------------------------------------------
(* A class that was found is found again by its name, unless a type that is   *)
(* no class bears the name too.                                               *)
TypesNamedOnce ==
  \A t \in Trees : \A i, j \in DOMAIN t.types :
    t.types[i].name = t.types[j].name => t.types[i].type = t.types[j].type

LEMMA LastIndex ==
  ASSUME NEW n \in Nat, NEW S \in SUBSET (1..n), S # {}
  PROVE  \E i \in S : \A j \in S : j <= i
  <1> DEFINE R == OpToRel(<, Nat)
             T == {n - i : i \in S}
  <1>1. IsWellFoundedOn(R, Nat) BY NatLessThanWellFounded
  <1>2. ASSUME NEW m \in Nat, NEW k \in Nat, m < k PROVE <<m, k>> \in R
    BY <1>2, Zenon DEF OpToRel
  <1> HIDE DEF R
  <1>3. T \subseteq Nat /\ T # {}
    <2>1. \A i \in S : n - i \in Nat OBVIOUS
    <2> QED BY <2>1
  <1> HIDE DEF T
  <1>4. PICK x \in T : \A y \in T : <<y, x>> \notin R BY <1>1, <1>3, WFMin
  <1>5. \A y \in T : ~(y < x) BY <1>2, <1>3, <1>4
  <1>6. PICK i \in S : x = n - i BY DEF T
  <1>7. \A j \in S : n - j \in T BY DEF T
  <1> QED BY <1>5, <1>6, <1>7

LEMMA ClassAgain ==
  ASSUME ServiceInv, TypesNamedOnce, NEW guess, Class(guess) # None
  PROVE  Class(Class(guess)) # None
  <1> DEFINE classes == {t \in Rows : t.type = "JAVA_CLASS" /\ Last(t.name) = Last(guess)}
             suffixed == {t \in classes : IsStrictSuffix(guess, t.name)}
             name == Class(guess)
  <1>1. CASE guess # None /\ \E t \in Row(guess) : t.type = "JAVA_CLASS"
    BY <1>1 DEF Class
  <1>2. CASE guess = None \/ ~\E t \in Row(guess) : t.type = "JAVA_CLASS"
    <2>1. \/ Single(classes) /\ name = AnyOf(classes).name
          \/ Single(suffixed) /\ name = AnyOf(suffixed).name
      BY <1>2 DEF Class
    <2>2. \E t \in classes : name = t.name
      <3>1. \A set : Single(set) => AnyOf(set) \in set BY DEF Single, AnyOf
      <3> QED BY <2>1, <3>1
    <2>3. PICK k \in DOMAIN tree.types : tree.types[k].type = "JAVA_CLASS"
                                         /\ tree.types[k].name = name
      BY <2>2 DEF Rows
    <2> DEFINE at == {i \in DOMAIN tree.types : tree.types[i].name = name}
    <2>4. DOMAIN tree.types = 1..Len(tree.types) /\ Len(tree.types) \in Nat
      BY TreesAssumption DEF ServiceInv, ServiceTypeInv, Scannable
    <2>5. k \in at BY <2>3
    <2>6. PICK i \in at : \A j \in at : j <= i BY <2>4, <2>5, LastIndex
    <2>7. tree.types[i].type = "JAVA_CLASS"
      BY <2>3 DEF TypesNamedOnce, ServiceInv, ServiceTypeInv
    <2>8. tree.types[i] \in Row(name) BY <2>6 DEF Row
    <2> HIDE DEF name
    <2>9. name # None BY DEF name
    <2>10. Class(name) = name BY <2>7, <2>8, <2>9 DEF Class
    <2> QED BY <2>9, <2>10 DEF name
  <1> QED BY <1>1, <1>2

-----------------------------------------------------------------------------
(* The registrations: a call of the sources that were read is one fact.       *)
LEMMA DueFinite == ASSUME ServiceInv PROVE IsFiniteSet(Due)
  <1> DEFINE Of(i) == {[source |-> loaded[i], call |-> c] : c \in Calls(loaded[i].content)}
             all == {Of(i) : i \in DOMAIN loaded}
  <1>1. ASSUME NEW i \in DOMAIN loaded PROVE IsFiniteSet(Of(i))
    <2> DEFINE F == [c \in Calls(loaded[i].content) |-> [source |-> loaded[i], call |-> c]]
    <2>1. loaded[i] \in SourcesOf(tree) BY DEF ServiceInv, LoadedInv
    <2>2. loaded[i].content \in ContentsOf(tree) BY <2>1 DEF SourcesOf
    <2>3. IsFiniteSet(Calls(loaded[i].content))
      BY <2>2, TreesAssumption DEF ServiceInv, ServiceTypeInv, Scannable
    <2>4. F \in Surjection(Calls(loaded[i].content), Of(i)) BY DEF Surjection
    <2> HIDE DEF F, Of
    <2> QED BY <2>3, <2>4, FS_Surjection
  <1> HIDE DEF Of
  <1>2. IsFiniteSet(DOMAIN loaded)
    <2>1. Len(loaded) \in Nat /\ DOMAIN loaded = 1..Len(loaded) BY DEF ServiceInv, LoadedInv
    <2> QED BY <2>1, FS_Interval
  <1>3. IsFiniteSet(all)
    <2> DEFINE F == [i \in DOMAIN loaded |-> Of(i)]
    <2>1. F \in Surjection(DOMAIN loaded, all) BY DEF Surjection
    <2> HIDE DEF F, all
    <2> QED BY <1>2, <2>1, FS_Surjection
  <1>4. \A T \in all : IsFiniteSet(T) BY <1>1
  <1> HIDE DEF all
  <1>5. IsFiniteSet(UNION all) BY <1>3, <1>4, FS_UNION
  <1> QED BY <1>5 DEF all, Of, Due

LEMMA DueCall ==
  ASSUME ServiceInv, NEW d \in Due
  PROVE  \E i \in DOMAIN loaded : \E c \in Calls(loaded[i].content) :
           /\ d = [source |-> loaded[i], call |-> c]
           /\ loaded[i].model = loaded[i].content
  BY DEF Due, ServiceInv, LoadedInv

LEMMA OneFactEach ==
  ASSUME ServiceInv
  PROVE  [d \in Due |-> Fact(d.source, d.call)] \in Bijection(Due, Facts)
  <1> DEFINE F == [d \in Due |-> Fact(d.source, d.call)]
  <1>1. ASSUME NEW d \in Due PROVE F[d] \in Facts
    BY DueCall DEF Facts
  <1>2. ASSUME NEW f \in Facts PROVE \E d \in Due : F[d] = f
    <2>1. PICK i \in DOMAIN loaded : \E c \in Calls(loaded[i].model) : f = Fact(loaded[i], c)
      BY DEF Facts
    <2>2. PICK c \in Calls(loaded[i].model) : f = Fact(loaded[i], c) BY <2>1
    <2>3. loaded[i].model = loaded[i].content BY DEF ServiceInv, LoadedInv
    <2>4. [source |-> loaded[i], call |-> c] \in Due BY <2>2, <2>3 DEF Due
    <2> QED BY <2>2, <2>4
  <1>3. ASSUME NEW d \in Due, NEW e \in Due, F[d] = F[e] PROVE d = e
    <2>1. F[d].id = RegistrationId(d.source.path, d.call)
          /\ F[e].id = RegistrationId(e.source.path, e.call)
      BY DEF Fact
    <2>2. RegistrationId(d.source.path, d.call) = RegistrationId(e.source.path, e.call)
      BY <1>3, <2>1
    <2>3. PICK i \in DOMAIN loaded : \E c \in Calls(loaded[i].content) :
                                       d = [source |-> loaded[i], call |-> c]
      BY DueCall
    <2>4. PICK j \in DOMAIN loaded : \E c \in Calls(loaded[j].content) :
                                       e = [source |-> loaded[j], call |-> c]
      BY DueCall
    <2> QED BY <2>2, <2>3, <2>4, CallsApart
  <1>4. F \in [Due -> Facts] BY <1>1
  <1> HIDE DEF F
  <1>5. F \in Bijection(Due, Facts)
    BY <1>2, <1>3, <1>4 DEF Bijection, Injection, Surjection, IsInjective
  <1> QED BY <1>5 DEF F

LEMMA BoundAsResolved ==
  ASSUME ServiceInv, TypesNamedOnce, scanPhase = "done", NEW n \in nodes
  PROVE  (n.key # None /\ n.instance # None /\ ~n.test) <=>
           \E e \in edges : e[1] = "REGISTERED_AS" /\ e[4] = n.id
  <1>1. nodes = Facts /\ edges = UNION {FactEdges(m) : m \in nodes}
    BY DEF ServiceInv, FactsInv
  <1>2. ASSUME NEW m \in nodes, NEW e \in FactEdges(m), e[1] = "REGISTERED_AS"
        PROVE  /\ m.key # None /\ Class(m.instance) # None /\ ~m.test /\ e[4] = m.id
    BY <1>2 DEF FactEdges
  <1>3. \A m \in nodes : Class(m.instance) # None => m.instance # None BY DEF Class
  <1>4. ASSUME NEW e \in edges, e[1] = "REGISTERED_AS", e[4] = n.id
        PROVE  n.key # None /\ n.instance # None /\ ~n.test
    <2>1. PICK m \in nodes : e \in FactEdges(m) BY <1>1
    <2>2. m = n BY <1>1, <1>2, <1>4, <2>1, FactsApart
    <2> QED BY <1>2, <1>3, <1>4, <2>1, <2>2
  <1>5. ASSUME n.key # None, n.instance # None, ~n.test
        PROVE  \E e \in edges : e[1] = "REGISTERED_AS" /\ e[4] = n.id
    <2>1. \E guess : n.instance = Class(guess) BY <1>1 DEF Facts, Fact
    <2>2. Class(n.instance) # None BY <1>5, <2>1, ClassAgain
    <2> DEFINE e == <<"REGISTERED_AS", Class(n.instance), KeyId(n), n.id>>
    <2>3. e \in FactEdges(n) BY <1>5, <2>2 DEF FactEdges
    <2>4. e \in edges BY <1>1, <2>3
    <2> QED BY <2>4
  <1> QED BY <1>4, <1>5

(***************************************************************************)
(* When the scan is done every registration of the contents that were read *)
(* is a node, and no other node is there; its class is bound to its name   *)
(* exactly when both were resolved and the call is no test's, whatever the *)
(* cache held and however often a rebuild was cut off.                     *)
(***************************************************************************)
THEOREM RegistrationsKept ==
  ASSUME TypesNamedOnce PROVE ServiceSpec => []RegistrationsWhole
  <1>1. ASSUME ServiceInv, scanPhase = "done"
        PROVE  /\ Cardinality(nodes) = Cardinality(Due)
               /\ \A d \in Due :
                    \E n \in nodes : n.id = [api |-> d.call.api, path |-> d.source.path,
                                             line |-> d.call.line, offset |-> d.call.offset]
               /\ \A n \in nodes :
                    (n.key # None /\ n.instance # None /\ ~n.test) =
                      \E e \in edges : e[1] = "REGISTERED_AS" /\ e[4] = n.id
    <2>1. nodes = Facts BY <1>1 DEF ServiceInv, FactsInv
    <2>2. Cardinality(Facts) = Cardinality(Due)
      <3>1. ExistsBijection(Due, Facts) BY <1>1, OneFactEach DEF ExistsBijection
      <3> QED BY <1>1, <3>1, DueFinite, FS_Bijection
    <2>3. ASSUME NEW d \in Due
          PROVE  \E n \in Facts : n.id = [api |-> d.call.api, path |-> d.source.path,
                                          line |-> d.call.line, offset |-> d.call.offset]
      <3>1. Fact(d.source, d.call) \in Facts
        BY <1>1, OneFactEach DEF Bijection, Injection
      <3> QED BY <3>1 DEF Fact, RegistrationId
    <2>4. ASSUME NEW n \in nodes
          PROVE  (n.key # None /\ n.instance # None /\ ~n.test) =
                   \E e \in edges : e[1] = "REGISTERED_AS" /\ e[4] = n.id
      BY <1>1, BoundAsResolved
    <2> QED BY <2>1, <2>2, <2>3, <2>4
  <1>2. ServiceInv => RegistrationsWhole BY <1>1 DEF RegistrationsWhole
  <1> QED BY <1>2, ServiceInvariant, PTL

-----------------------------------------------------------------------------
(* The resolver and the language follow the same chain of constants, until    *)
(* one of them loses it.                                                      *)
LEMMA TrueFollowStays ==
  ASSUME NEW s,
         s.expression.form # "name" \/ ~Single(Named(s.expression.value, s.src, s.offset))
  PROVE  TrueFollow(s) = s
  BY DEF TrueFollow

LEMMA TrueFollowGoes ==
  ASSUME NEW s, s.expression.form = "name",
         NEW c, Named(s.expression.value, s.src, s.offset) = {c}
  PROVE  TrueFollow(s) = [expression |-> c.expression, src |-> loaded[c.source].content,
                          offset |-> c.offset]
  <1>1. AnyOf({c}) = c /\ Single({c}) BY DEF AnyOf, Single
  <1> QED BY <1>1 DEF TrueFollow

TrueFiveTimes(s) == TrueFollow(TrueFollow(TrueFollow(TrueFollow(TrueFollow(s)))))
TrueTenTimes(s) == TrueFiveTimes(TrueFiveTimes(s))

TrueChain(h, s, m) == h = [n \in 0..m |-> IF n = 0 THEN s ELSE TrueFollow(h[n - 1])]

LEMMA TrueFollowedTenTimes ==
  ASSUME NEW s
  PROVE  TrueFollowed(s) = TrueTenTimes(s)
  <1>1. \E h : TrueChain(h, s, 0)
    <2> DEFINE h == [n \in 0..0 |-> s]
    <2>1. h = [n \in 0..0 |-> IF n = 0 THEN s ELSE TrueFollow(h[n - 1])] OBVIOUS
    <2> QED BY <2>1 DEF TrueChain
  <1>2. ASSUME NEW m \in Nat, NEW h, TrueChain(h, s, m)
        PROVE  \E g : TrueChain(g, s, m + 1)
    <2> DEFINE g == [n \in 0..(m + 1) |-> IF n = m + 1 THEN TrueFollow(h[m]) ELSE h[n]]
    <2>1. ASSUME NEW n \in 0..(m + 1)
          PROVE  g[n] = IF n = 0 THEN s ELSE TrueFollow(g[n - 1])
      <3>1. CASE n = m + 1 BY <3>1
      <3>2. CASE n = 0 BY <1>2, <3>2 DEF TrueChain
      <3>3. CASE n \in 1..m
        <4>1. n \in 0..m /\ n - 1 \in 0..(m + 1) /\ n - 1 # m + 1 /\ n # m + 1 /\ n # 0
          BY <3>3
        <4>2. h[n] = TrueFollow(h[n - 1]) BY <1>2, <4>1 DEF TrueChain
        <4> QED BY <4>1, <4>2
      <3> QED BY <3>1, <3>2, <3>3
    <2>2. g = [n \in 0..(m + 1) |-> g[n]] OBVIOUS
    <2>3. g = [n \in 0..(m + 1) |-> IF n = 0 THEN s ELSE TrueFollow(g[n - 1])]
      <3> HIDE DEF g
      <3> QED BY <2>1, <2>2
    <2> QED BY <2>3 DEF TrueChain
  <1>3. \A m \in Nat : (\E h : TrueChain(h, s, m)) => \E h : TrueChain(h, s, m + 1) BY <1>2
  <1>4. \E h : TrueChain(h, s, MaxDepth)
    <2>1. \E h : TrueChain(h, s, 5) BY <1>1, <1>3
    <2> QED BY <1>3, <2>1 DEF MaxDepth
  <1> DEFINE a == CHOOSE h : h = [n \in 0..MaxDepth |->
                                    IF n = 0 THEN s ELSE TrueFollow(h[n - 1])]
  <1>5. a = [n \in 0..MaxDepth |-> IF n = 0 THEN s ELSE TrueFollow(a[n - 1])]
    BY <1>4 DEF TrueChain
  <1>6. TrueFollowed(s) = a[10] BY DEF TrueFollowed, MaxDepth
  <1> HIDE DEF a
  <1>7. \A n \in 1..10 : a[n] = TrueFollow(a[n - 1]) BY <1>5 DEF MaxDepth
  <1>8. a[0] = s BY <1>5 DEF MaxDepth
  <1>9. a[5] = TrueFiveTimes(s) BY <1>7, <1>8 DEF TrueFiveTimes
  <1>10. a[10] = TrueFiveTimes(a[5]) BY <1>7 DEF TrueFiveTimes
  <1> QED BY <1>6, <1>9, <1>10 DEF TrueTenTimes

Agree(k, t) ==
  k.expression = t.expression /\ k.src = t.src /\ k.offset = t.offset
KeyLost(k) == k.expression.form # "literal" /\ Follow(k) = k
ValueLost(t) == t.expression.form # "literal" /\ TrueFollow(t) = t
Together(k, t) == Agree(k, t) \/ KeyLost(k) \/ ValueLost(t)

(* The one constant that a reference names is a candidate of the resolver. *)
LEMMA NamedIsCandidate ==
  ASSUME ServiceInv, NEW reference, NEW src, NEW offset, NEW c,
         Named(reference, src, offset) = {c}
  PROVE  /\ c \in CandidatesFor(reference, src, offset)
         /\ loaded[c.source].model = loaded[c.source].content
  <1>1. \A i \in DOMAIN loaded : loaded[i].model = loaded[i].content
    BY DEF ServiceInv, LoadedInv
  <1>2. TrueConstants = Constants BY <1>1 DEF TrueConstants, Constants, DefinedIn
  <1>3. c \in TrueConstants /\ c.name \in NamesFor(reference, src, offset)
    BY DEF Named, NamesFor
  <1>4. \A d \in Constants : d.name = c.name => d = c
    BY <1>2 DEF Named
  <1>5. PICK i \in DOMAIN loaded :
          \E x \in ConstantsOf(loaded[i].content) :
            c = [name |-> x.name, expression |-> x.expression, offset |-> x.offset,
                 source |-> i]
    BY <1>3 DEF TrueConstants
  <1>6. c.source = i /\ \E x \in loaded[i].content.constants : c.offset = x.offset
    BY <1>5 DEF ConstantsOf
  <1>7. loaded[i] \in SourcesOf(tree) /\ i \in Nat
    BY DEF ServiceInv, LoadedInv
  <1>8. loaded[i].content \in ContentsOf(tree) BY <1>7 DEF SourcesOf
  <1>9. c.offset \in Nat
    BY <1>6, <1>8, TreesAssumption DEF ServiceInv, ServiceTypeInv, Scannable
  <1>10. c \in Qualified(c.name) BY <1>2, <1>3, <1>4, <1>9 DEF Qualified
  <1>11. c \in CandidatesFor(reference, src, offset)
    BY <1>3, <1>10 DEF CandidatesFor
  <1> QED BY <1>1, <1>6, <1>11

LEMMA OneStepTogether ==
  ASSUME ServiceInv
  PROVE  \A k, t : Together(k, t) => Together(Follow(k), TrueFollow(t))
  <1> SUFFICES ASSUME NEW k, NEW t, Agree(k, t)
               PROVE  Together(Follow(k), TrueFollow(t))
    BY DEF Together, KeyLost, ValueLost
  <1> DEFINE reference == k.expression.value
             named == Named(reference, k.src, k.offset)
             candidates == CandidatesFor(reference, k.src, k.offset)
  <1>1. CASE k.expression.form # "name"
    <2>1. t.expression.form # "name" BY <1>1 DEF Agree
    <2>2. Follow(k) = k /\ TrueFollow(t) = t BY <1>1, <2>1, FollowStays, TrueFollowStays
    <2> QED BY <2>2 DEF Together
  <1>2. CASE k.expression.form = "name" /\ ~Single(named)
    <2>1. t.expression = k.expression /\ t.src = k.src /\ t.offset = k.offset BY DEF Agree
    <2>2. TrueFollow(t) = t BY <1>2, <2>1, TrueFollowStays
    <2> QED BY <1>2, <2>1, <2>2 DEF Together, ValueLost
  <1>3. CASE k.expression.form = "name" /\ Single(named)
    <2>1. PICK c : named = {c} BY <1>3 DEF Single
    <2>2. c \in candidates /\ loaded[c.source].model = loaded[c.source].content
      BY <2>1, NamedIsCandidate
    <2>3. CASE reference \in k.seen \/ ~Single(candidates)
      <3>1. reference \in k.seen \/ Unique(candidates) = {} BY <2>3 DEF Unique
      <3>2. Follow(k) = k BY <3>1, FollowStays
      <3> QED BY <1>3, <3>2 DEF Together, KeyLost
    <2>4. CASE reference \notin k.seen /\ Single(candidates)
      <3>1. Unique(candidates) = {c} BY <2>2, <2>4 DEF Unique, Single
      <3>2. Follow(k) = [expression |-> c.expression, src |-> loaded[c.source].model,
                         offset |-> c.offset, seen |-> k.seen \cup {reference}]
        BY <1>3, <2>4, <3>1, FollowGoes
      <3>3. t.expression = k.expression /\ t.src = k.src /\ t.offset = k.offset BY DEF Agree
      <3>4. TrueFollow(t) = [expression |-> c.expression,
                             src |-> loaded[c.source].content, offset |-> c.offset]
        BY <1>3, <2>1, <3>3, TrueFollowGoes
      <3> QED BY <2>2, <3>2, <3>4 DEF Together, Agree
    <2> QED BY <2>3, <2>4
  <1> QED BY <1>1, <1>2, <1>3

LEMMA KeyOrNone ==
  ASSUME ServiceInv, NEW expression, NEW src, NEW offset
  PROVE  LET key == ResolveKey(expression, src, offset)
             true == TrueKey(expression, src, offset)
         IN key = None \/ true = None \/ key = true
  <1> DEFINE k == [expression |-> expression, src |-> src, offset |-> offset, seen |-> {}]
             t == [expression |-> expression, src |-> src, offset |-> offset]
  <1>1. Together(k, t) BY DEF Together, Agree
  <1> HIDE DEF k, t
  <1>2. Together(TenTimes(k), TrueTenTimes(t))
    <2>1. \A j, u : Together(j, u) => Together(Follow(Follow(j)), TrueFollow(TrueFollow(u)))
      BY OneStepTogether
    <2>2. \A j, u : Together(j, u) => Together(FiveTimes(j), TrueFiveTimes(u))
      BY <2>1, OneStepTogether DEF FiveTimes, TrueFiveTimes
    <2> QED BY <1>1, <2>2 DEF TenTimes, TrueTenTimes
  <1>3. Followed(k) = TenTimes(k) /\ TrueFollowed(t) = TrueTenTimes(t)
    BY FollowedTenTimes, TrueFollowedTenTimes
  <1>4. Together(Followed(k), TrueFollowed(t)) BY <1>2, <1>3
  <1>5. ResolveKey(expression, src, offset)
          = IF Followed(k).expression.form = "literal"
            THEN Followed(k).expression.value ELSE None
    BY DEF ResolveKey, k
  <1>6. TrueKey(expression, src, offset)
          = IF TrueFollowed(t).expression.form = "literal"
            THEN TrueFollowed(t).expression.value ELSE None
    BY DEF TrueKey, t
  <1> QED BY <1>4, <1>5, <1>6 DEF Together, Agree, KeyLost, ValueLost

(***************************************************************************)
(* A Binder service is never given another one's name: through chains of   *)
(* constants, equal names in several sources, and models that earlier      *)
(* rebuilds left in the cache, the resolver has the value of the constant  *)
(* that the reference names, or none.                                      *)
(***************************************************************************)
THEOREM KeysNeverGuessed == ServiceSpec => []KeySound
  <1>1. ASSUME ServiceInv, NEW f \in facts \cup nodes, NEW d \in Due,
               f.id = RegistrationId(d.source.path, d.call), d.call.api \in BinderApis
        PROVE  LET true == TrueKey(d.call.arguments[1], d.source.content, d.call.offset)
               IN f.key = None \/ true = None \/ f.key = true
    <2>1. f \in Facts BY <1>1 DEF ServiceInv, ServiceTypeInv, FactsInv
    <2>2. PICK i \in DOMAIN loaded : \E c \in Calls(loaded[i].model) : f = Fact(loaded[i], c)
      BY <2>1 DEF Facts
    <2>3. PICK c \in Calls(loaded[i].model) : f = Fact(loaded[i], c) BY <2>2
    <2>4. PICK j \in DOMAIN loaded : \E e \in Calls(loaded[j].content) :
                                       d = [source |-> loaded[j], call |-> e]
      BY <1>1, DueCall
    <2>5. loaded[i].model = loaded[i].content BY <1>1 DEF ServiceInv, LoadedInv
    <2>6. f.id = RegistrationId(loaded[i].path, c) BY <2>3 DEF Fact
    <2>7. d.source = loaded[i] /\ d.call = c BY <1>1, <2>4, <2>5, <2>6, CallsApart
    <2>8. f.key = ResolveKey(c.arguments[1], loaded[i].content, c.offset)
      BY <1>1, <2>3, <2>5, <2>7 DEF Fact, RegistrationKey
    <2> QED BY <1>1, <2>7, <2>8, KeyOrNone
  <1>2. ServiceInv => KeySound BY <1>1 DEF KeySound
  <1> QED BY <1>2, ServiceInvariant, PTL
=============================================================================
