SPECIFICATION Spec
CONSTANTS
  Repositories <- TwoRepositories
  MaxVersion = 2
  Passes = 1
  MaxDatabases = 0
  MaxFailures = 0
  Reverts = FALSE
INVARIANT ScopeMatchesProvenance
