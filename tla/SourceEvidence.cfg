SPECIFICATION FairSpec
CONSTANTS
  Repositories <- TwoRepositories
  MaxVersion = 2
  Passes = 2
  MaxDatabases = 1
  MaxFailures = 1
  Reverts = FALSE
INVARIANT TypeOK
INVARIANT IInv
INVARIANT GraphIsASnapshot
INVARIANT CodeQLOfTheSnapshot
INVARIANT StrictProvenance
PROPERTY QuietSourcesPublished
