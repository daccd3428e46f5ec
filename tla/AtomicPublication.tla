------------------------- MODULE AtomicPublication -------------------------
(* What workspace/build_publish.py promises to those who read data/: the     *)
(* graph database and the report directories change together, in one step,   *)
(* to a build that began later than every build published before it.         *)
EXTENDS Integers

CONSTANT MaxBuilds    \* the builds are numbered 1 .. MaxBuilds as they begin

VARIABLES
  database,   \* the build the published database holds, 0 for none
  reports     \* the build the published reports belong to, 0 for none

Init == database = 0 /\ reports = 0

Publish(b) ==
  /\ b > database
  /\ database' = b
  /\ reports' = b

Next == \E b \in 1..MaxBuilds : Publish(b)

Spec == Init /\ [][Next]_<<database, reports>>
=============================================================================
