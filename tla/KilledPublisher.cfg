SPECIFICATION Spec
CONSTANTS
  MaxBuilds = 2
  MaxFaults = 2
  Faults <- KillOnly
  KeepModes <- AnyKeep
INVARIANT PriorReportsKept
