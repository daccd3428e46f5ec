SPECIFICATION Spec
CONSTANTS
  MaxBuilds = 3
  MaxFaults = 3
  Faults <- KeepFaults
  KeepModes <- AlwaysKeep
INVARIANT KeptBatchComplete
