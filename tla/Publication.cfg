SPECIFICATION Spec
CONSTANTS
  MaxBuilds = 2
  MaxFaults = 2
  Faults <- ExpectedFaults
  KeepModes <- AnyKeep
INVARIANT TypeOK
INVARIANT ReportsMatchDatabase
INVARIANT PriorReportsKept
INVARIANT CommittedReportsLive
INVARIANT IInv
PROPERTY FailureRestoresReports
PROPERTY AtomicSpec
