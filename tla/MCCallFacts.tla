---------------------------- MODULE MCCallFacts ----------------------------
(* CallFacts alone, over the worlds of CallWorlds.                            *)
EXTENDS CallFacts, CallWorlds
=============================================================================
