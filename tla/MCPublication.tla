--------------------------- MODULE MCPublication ---------------------------
(* Instances of Publication for TLC. *)
EXTENDS PublicationInvariant

\* Every rebuild keeps its failed batch, or none does.
AlwaysKeep == {TRUE}
AnyKeep == BOOLEAN

\* Failures the publisher and its recovery are written for.
ExpectedFaults == {"call_error", "power", "hangup"}
\* With --keep-failed-db, also a killed publisher and a failed restoration.
KeepFaults == {"call_error", "restore_error", "kill", "power", "hangup"}

AllFaults == FaultKinds

InterruptOnly == {"interrupt"}
KillOnly == {"kill"}
UnreadableRecovery == {"power", "unreadable"}
=============================================================================
