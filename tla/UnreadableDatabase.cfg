SPECIFICATION Spec
CONSTANTS
  MaxBuilds = 2
  MaxFaults = 2
  Faults <- UnreadableRecovery
  KeepModes <- AlwaysKeep
INVARIANT CommittedReportsLive
