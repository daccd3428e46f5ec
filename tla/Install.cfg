SPECIFICATION Spec
CONSTANTS
  MaxRuns = 3
  MaxAtOnce = 2
  MaxFaults = 3
  MaxFaultsAtOnce = 1
CHECK_DEADLOCK FALSE
INVARIANT TargetWhole
INVARIANT OldPayloadKept
PROPERTY RuntimeKept
PROPERTY FailedUpgradeUndone
PROPERTY UpgradeCarriesLocal
