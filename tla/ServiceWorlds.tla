---------------------------- MODULE ServiceWorlds ----------------------------
(* Source trees for ServiceScan: a class O that registers services, a class C *)
(* whose constants name them, a repository that lies within another one, and  *)
(* a second content for each file.                                            *)

Exp(form, value) == [form |-> form, value |-> value]
Def(name, offset, expression) ==
  [name |-> name, offset |-> offset, expression |-> expression]
Decl(name, offset, type) == [name |-> name, offset |-> offset, type |-> type]
Range(name, start, end) == [name |-> name, start |-> start, end |-> end]
Call(api, line, offset, key, instance) ==
  [api |-> api, line |-> line, offset |-> offset, arguments |-> <<key, instance>>]
Add == "ServiceManager.addService"

\* class O { NAME = name; C make(); class N { FOO = NAME; add } add; N v; local }
Registering(key, imports, name, instance, locals) ==
  [package |-> <<"p">>, imports |-> imports,
   classes |-> {Range("O", 1, 90), Range("N", 20, 35)},
   constants |-> {Def("NAME", 2, name), Def("FOO", 21, Exp("name", <<"NAME">>))},
   calls |-> {Call(Add, 3, 30, key, instance),
              Call(Add, 3, 40, key, Exp("this", <<>>))} \cup locals,
   variables |-> {Decl("v", 60, <<"N">>), Decl("v", 35, <<"C">>)},
   methods |-> {Decl("make", 10, <<"C">>)}]
Local == Call("LocalServices.addService", 7, 70, Exp("class", <<"N">>),
              Exp("name", <<"v">>))

\* class C { NAME = name; FOO = "foo" }
Naming(name) ==
  [package |-> <<"q">>, imports |-> {<<"p", "O">>},
   classes |-> {Range("C", 1, 90)},
   constants |-> {Def("NAME", 5, name), Def("FOO", 6, Exp("literal", <<"foo">>))},
   calls |-> {}, variables |-> {}, methods |-> {}]
Empty ==
  [package |-> <<"p">>, imports |-> {}, classes |-> {}, constants |-> {},
   calls |-> {}, variables |-> {}, methods |-> {}]

Tree(key, imports, name, instance, tests, types) ==
  [order |-> <<"outer", "inner">>,
   files |-> [outer |-> <<"O", "C">>, inner |-> <<"C">>],
   contents |->
     [O |-> <<Registering(key, imports, name, instance, {}),
              Registering(Exp("literal", <<"new">>), imports, name, instance,
                          {Local})>>,
      C |-> <<Naming(Exp("literal", <<"c">>)), Naming(Exp("name", <<"O", "NAME">>))>>],
   tests |-> tests, packages |-> {"p", "q", "x"}, types |-> types, stale |-> Empty]

Row(type, name) == [type |-> type, name |-> name]
Complete ==
  <<Row("JAVA_CLASS", <<"p", "O">>), Row("JAVA_CLASS", <<"p", "O", "N">>),
    Row("JAVA_CLASS", <<"q", "C">>)>>
Doubtful ==
  <<Row("JAVA_CLASS", <<"p", "O", "N">>), Row("JAVA_CLASS", <<"x", "N">>),
    Row("JAVA_INTERFACE", <<"p", "O">>)>>

KeyExpressions == {Exp("literal", <<"k">>), Exp("name", <<"NAME">>), Exp("name", <<"C", "NAME">>),
         Exp("name", <<"q", "C", "FOO">>), Exp("name", <<"FOO">>)}
Imports == {{}, {<<"q", "C">>}, {<<"q", "C", "NAME">>}}
Instances == {Exp("new", <<"N">>), Exp("inner", <<"N">>), Exp("name", <<"v">>),
              Exp("call", <<"make">>)}

\* How a name is found, and how a class is.
Named ==
  {Tree(k, i, n, Exp("new", <<"N">>), {}, Complete) :
     k \in KeyExpressions, i \in Imports,
     n \in {Exp("literal", <<"o">>), Exp("name", <<"C", "NAME">>)}}
Typed ==
  {Tree(Exp("name", <<"NAME">>), i, Exp("literal", <<"o">>), e, t, y) :
     i \in Imports, e \in Instances, t \in {{}, {"O"}}, y \in {Complete, Doubtful}}
AllTrees == Named \cup Typed
=============================================================================
