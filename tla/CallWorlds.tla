----------------------------- MODULE CallWorlds -----------------------------
(* Sources for CallFacts: S.entry calls T.run or U.run at line 15, a check at *)
(* 14, and clears and restores the identity at 13 and 17.  The graph knows    *)
(* some of the methods, or several for one, and learns of others later.       *)
EXTENDS Naturals, Sequences

X == <<"", "X">>
Meth(id, owner, name, param, path, first, last) ==
  [id |-> <<"method", id>>, lang |-> "java", owner |-> owner, name |-> name,
   params |-> <<param>>, path |-> path, first |-> first, last |-> last]
Def(key, m, synthetic) ==
  [key |-> key, lang |-> m.lang, owner |-> m.owner, name |-> m.name,
   params |-> m.params, path |-> m.path, first |-> m.first, last |-> m.last,
   synthetic |-> synthetic]
Row(caller, callee, relation, count, text, line, column, end) ==
  [caller |-> caller, callee |-> callee, relation |-> relation, count |-> count,
   text |-> text, path |-> "s", line |-> line, column |-> column, end |-> end]

entry == Meth("entry", "S", "entry", X, "s", 10, 20)
inner == Meth("inner", "S", "inner", X, "s", 12, 16)
run == Meth("run", "T", "run", X, "t", 30, 34)
other == Meth("other", "U", "run", X, "u", 30, 34)
check == Meth("check", "P", "check", X, "p", 5, 6)
\* The same methods with the parameter spelled otherwise: a second node.
entry2 == [entry EXCEPT !.id = <<"method", "entry2">>, !.params = <<<<"a", "X">>>>]
run2 == [run EXCEPT !.id = <<"method", "run2">>, !.params = <<<<"a", "X">>>>]
\* A second one that the path, or the lines, tell apart.
run3 == [run EXCEPT !.id = <<"method", "run3">>, !.params = <<<<"b", "X">>>>,
                    !.path = "elsewhere"]
run4 == [run EXCEPT !.id = <<"method", "run4">>, !.params = <<<<"c", "X">>>>,
                    !.first = 40, !.last = 44]

Definitions ==
  {Def("e", entry, FALSE), Def("i", inner, FALSE), Def("r", run, FALSE),
   Def("o", other, FALSE), Def("c", check, FALSE), Def("l", run, TRUE)}

Direct == {Row("e", "r", "must", 1, "run", 15, 5, 9)}
Virtual == {Row("e", k, "may", 2, "run", 15, 5, 9) : k \in {"r", "o"}}
Lambda == {Row("e", k, "may", 2, "run", 15, 5, 9) : k \in {"r", "l"}}
Outside == {Row("e", "", "unresolved", 0, "run", 15, 5, 9)}
\* Two classes of the same name: the query counts two targets with one key.
Twins == {Row("e", "r", "may", 2, "run", 15, 5, 9)}
Around == {Row("e", "c", "must", 1, "check", 14, 5, 9),
           Row("e", "", "unresolved", 0, "clear", 13, 5, 9),
           Row("e", "", "unresolved", 0, "restore", 17, 5, 9)}
Twice == {Row("e", "c", "must", 1, "check", 15, 25, 29)}

At(path, line) == [path |-> path, line |-> line]
Flow(name, middle) ==
  [name |-> name, entry |-> "e", sink |-> "e",
   locations |-> <<At("s", 10)>> \o middle \o <<At("s", 15)>>]
Flows == {{}, {Flow("short", <<>>)},
          {Flow("long", <<At("s", 14)>>), Flow("through", <<At("t", 31)>>),
           [Flow("across", <<>>) EXCEPT !.sink = "r", !.locations[2] = At("t", 31)]},
          {[Flow("cut", <<>>) EXCEPT !.locations = <<At("s", 15)>>]}}

Guard(line) == [owner |-> "e", path |-> "s", line |-> line, sink |-> 15]
Clear(restore, paired) ==
  [owner |-> "e", path |-> "s", line |-> 13, restore |-> restore, sink |-> 15,
   paired |-> paired]

World(ms, later, rows, paths, guards, identities) ==
  [methods |-> ms, later |-> later, definitions |-> Definitions, rows |-> rows,
   paths |-> paths, guards |-> guards, identities |-> identities]

All == {entry, inner, run, other, check}
\* What is found when, over all the ways of the call.
Resolutions ==
  {World(ms, later, rows \cup Around, {}, {}, {}) :
     ms \in {All, All \ {entry}, All \ {run}, All \ {run, other}, All \cup {run2},
             All \cup {run3}, All \cup {run4}},
     later \in {{}, {entry2}, {run2}, {run}, {entry, run3}},
     rows \in {Direct, Virtual, Lambda, Outside, Twins, Direct \cup Twice}}
\* Flows, guards and transitions.
Flowing ==
  {World(ms, later, Direct \cup Around \cup more, paths, guards, identities) :
     ms \in {All, All \ {inner}, All \ {run}}, later \in {{}, {entry2}, {inner, run}},
     more \in {{}, Twice}, paths \in Flows,
     guards \in {{}, {Guard(14)}, {Guard(11)}},
     identities \in {{}, {Clear(17, TRUE)}, {Clear(0, FALSE)}}}
\* Two callees that the graph has one method for: ctags has missed an overload.
Merging ==
  {[World(ms, {}, {Row("e", k, "may", 2, "run", 15, 5, 9) : k \in {"r", "v"}} \cup Around,
          {}, {}, {}) EXCEPT !.definitions = @ \cup {Def("v", run4, FALSE)}] :
     ms \in {All, All \cup {run4}, All \ {entry}}}
\* Another call on the line that restores, and a second clear that nothing restores.
Clash == {Row("e", "", "unresolved", 0, "close", 17, 25, 29)}
Second == {Row("e", "", "unresolved", 0, "clear", 12, 5, 9)}
Pairing ==
  {World(All, {}, Direct \cup Around \cup more, {Flow("short", <<>>)}, guards,
         {Clear(17, TRUE), [Clear(0, FALSE) EXCEPT !.line = 12]}) :
     more \in {{}, Clash, Second, Clash \cup Second}, guards \in {{}, {Guard(14)}}}
\* S is in two directories, and the method of the second is found later: the
\* key of the caller, or of a callee, then stands for two methods.
copy(m) == [m EXCEPT !.id = <<"copy", m.id[2]>>, !.path = "copy",
                     !.params = <<<<"copy", "X">>>>]
Copied ==
  {[World(ms, later, rows \cup Around, {Flow("short", <<>>)}, {}, {})
      EXCEPT !.definitions = @ \cup {Def("e", copy(entry), FALSE), Def("r", copy(run), FALSE)}] :
     ms \in {All, All \ {entry}, All \cup {copy(run)}},
     later \in {{}, {copy(entry)}, {copy(run)}, {entry2}}, rows \in {Direct, Virtual}}
\* x.run(a).run(b): both calls start where x does.
Chained ==
  {World(All, {}, {Row("e", "r", "must", 1, "run", 15, 5, 9),
                   Row("e", "o", "must", 1, "run", 15, 5, 16)}, {}, {}, {})}
AllWorlds == Resolutions \cup Flowing \cup Merging \cup Pairing \cup Copied
=============================================================================
