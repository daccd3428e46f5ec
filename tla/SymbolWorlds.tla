---------------------------- MODULE SymbolWorlds ----------------------------
(* Source trees for SymbolImport.  Two of the three repositories are nested   *)
(* (frameworks/base and a service below it), the same packages and names      *)
(* recur in several of them, and the plan lists them in either order.         *)

Tag(name, kind, line, scope, scopeKind, inherits, stubs) ==
  [name |-> name, kind |-> kind, line |-> line, scope |-> scope,
   scopeKind |-> scopeKind, inherits |-> inherits, stubs |-> stubs]
Top(name, kind, inherits, stubs) ==
  Tag(name, kind, 1, <<>>, "", inherits, stubs)
Within(outer, name, kind, inherits, stubs) ==
  Tag(name, kind, 2, <<outer>>, "class", inherits, stubs)
File(path, lang, package, imports, wildcards, tags) ==
  [path |-> path, lang |-> lang, package |-> package, imports |-> imports,
   wildcards |-> wildcards, tags |-> tags]
World(root, order, files, artifact, manifest, strict) ==
  [root |-> root, order |-> order, files |-> files, artifact |-> artifact,
   languages |-> [r \in DOMAIN root |-> {"java", "kotlin", "aidl"}],
   manifest |-> manifest, strict |-> strict]

Platform == [base |-> <<"f">>, car |-> <<"f", "c">>, app |-> <<"a">>]
Orders == {<<"base", "car", "app">>, <<"app", "car", "base">>}
OfPlatform(order, files, strict) ==
  World(Platform, order, files, [x \in {} |-> {}], <<>>, strict)

\* One class declared in a repository and in the one nested in it, with the
\* same supertype.
Overlap(second, extends) ==
  {File(<<"f", "T">>, "java", <<"p">>, {}, {},
        {Top("T", "class", {extends}, {}), Within("T", "m", "method", {}, {})}),
   File(<<"f", "U">>, "java", <<"p">>, {}, {}, {Top(second, "class", {}, {})}),
   File(<<"f", "c", "T">>, "java", <<"p">>, {}, {},
        {Top(second, "class", IF second = "T" THEN {extends} ELSE {}, {})}),
   File(<<"a", "I">>, "kotlin", <<"q">>, {}, {},
        {Top("I", "interface", {}, {}),
         Tag("k", "method", 2, <<>>, "", {}, {})})}
Overlaps ==
  {OfPlatform(o, Overlap(s, e), strict) :
     o \in Orders, s \in {"T", "U"}, strict \in BOOLEAN,
     e \in {<<"I">>, <<"U">>, <<"q", "I">>}}

\* A supertype by its import, by a wildcard, as an inner class or by name.
Imports(imports, wildcards, extends) ==
  {File(<<"a", "T">>, "java", <<"p">>, imports, wildcards,
        {Top("T", "class", {}, {}), Within("T", "N", "class", {extends}, {})}),
   File(<<"f", "U">>, "java", <<"q">>, {}, {}, {Top("U", "interface", {}, {})}),
   File(<<"f", "c", "U">>, "kotlin", <<"r">>, {}, {},
        {Top("U", "class", {}, {}), Top("T", "object", {<<"q", "U">>}, {})})}
Supertypes ==
  {OfPlatform(o, Imports(i, w, e), FALSE) :
     o \in Orders, i \in {{}, {<<"q", "U">>}, {<<"z", "U">>}},
     w \in {{}, {<<"q">>}, {<<"q">>, <<"r">>}},
     e \in {<<"U">>, <<"T">>, <<"N">>, <<"r", "U">>}}

\* Decompiled artifacts beside a platform that may define the same class; the
\* package of the class may be a directory that a repository of the plan has.
Decompiled(extends, top) ==
  {File(<<top, "T">>, "java", <<"p">>, {}, {}, {Top("T", "class", {extends}, {})}),
   File(<<"s", "B">>, "kotlin", <<"q">>, {}, {}, {Top("B", "class", {}, {})})}
Vendors ==
  {World([base |-> <<"f">>], <<"base">>,
     {File(<<"f", "T">>, "java", <<"p">>, {}, {},
           {Top(n, "class", {}, {}), Within(n, "m", "method", {}, {})})},
     [v1 |-> Decompiled(<<"B">>, top), v2 |-> Decompiled(<<"q", "B">>, "s")], m, strict) :
     n \in {"T", "B"}, strict \in BOOLEAN, top \in {"f", "s"},
     m \in {<<"v1", "v2">>, <<"v2", "v1">>, <<"v1">>}}

\* AIDL interfaces of one name, implemented by nested and other classes.
Services(imports, stub, package) ==
  {File(<<"f", "IFoo">>, "aidl", <<"p">>, {}, {},
        {Top("IFoo", "interface", {}, {}), Top("call", "method", {}, {})}),
   File(<<"a", "IFoo">>, "aidl", <<package>>, {}, {},
        {Top("IFoo", "interface", {}, {})}),
   File(<<"a", "S">>, "java", <<"q">>, imports, {},
        {Top("S", "class", {}, {stub}),
         Within("S", "N", "class", {}, {<<"IFoo">>})}),
   File(<<"f", "N">>, "java", <<"p">>, {}, {},
        {Top("N", "class", {}, {<<"IFoo">>})})}
Binders ==
  {OfPlatform(o, Services(i, s, package), FALSE) :
     o \in Orders, i \in {{}, {<<"p", "IFoo">>}}, package \in {"q", "r"},
     s \in {<<"IFoo">>, <<"p", "IFoo">>, <<"z", "IBar">>, <<"Outer", "IFoo">>}}

AllWorlds == Overlaps \cup Supertypes \cup Vendors \cup Binders
=============================================================================
