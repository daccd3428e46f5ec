SPECIFICATION FairSpec
CONSTANTS
  MaxBuilds = 2
  MaxFaults = 2
  Faults <- AllFaults
  KeepModes <- AnyKeep
INVARIANT RecoveryNeverBlocked
PROPERTY InterruptionSettled
