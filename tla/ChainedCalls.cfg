SPECIFICATION CallsSpec
CONSTANTS
  Sources <- Chained
  MaxImports = 2
  MaxKills = 1
INVARIANT CallsSupported
CHECK_DEADLOCK FALSE
