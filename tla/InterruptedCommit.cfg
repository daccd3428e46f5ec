SPECIFICATION Spec
CONSTANTS
  MaxBuilds = 2
  MaxFaults = 2
  Faults <- InterruptOnly
  KeepModes <- AlwaysKeep
INVARIANT CommittedReportsLive
