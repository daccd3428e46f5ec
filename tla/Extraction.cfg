SPECIFICATION Extraction
CONSTANTS
  Preparers = {p1, p2}
  Keys = {k1, k2}
  Workers = {r1, r2}
  Queries = {q1, q2}
  Artifacts = {a1, a2}
  MaxDbFaults = 2
  MaxWork = 2
  MaxVersion = 1
  MaxRunFaults = 1
  MaxBytes = 1
  MaxTool = 1
  MaxStops = 1
  MaxEdits = 1
  MaxScanKills = 1
  Trees <- ServiceSources
  MaxKills = 1
  Sources <- CallSources
  MaxImports = 2
  Worlds <- SymbolSources
  PackageNames = {"p", "q", "r", "z"}
  Ids = {1, 2}
  Runs = {1, 2}
  Edges = {"call"}
  Candidates = {"candidate"}
  Revisions = {1, 2}
  Hashes = {TRUE, FALSE}
  Endpoints = {"node", "missing"}
  MaxReplays = 2
INVARIANT HandedOutWhole
INVARIANT ImportedAsNamed
INVARIANT SourcesAsRecorded
INVARIANT NoDefinitionLost
INVARIANT CollisionsExact
INVARIANT SupertypesDrawn
INVARIANT BindersAccounted
INVARIANT KeySound
INVARIANT RegistrationsWhole
INVARIANT CallsSupported
INVARIANT WrittenAsValidated
INVARIANT ReplacedFactHasSuccessor
INVARIANT OnlyReviewedContent
INVARIANT OneEffectPerRun
INVARIANT RunAllOrNothing
INVARIANT NoStalePublished
PROPERTY EntryLeftAlone
PROPERTY OnlyRaisingBlocks
PROPERTY CorrectionsStay
CHECK_DEADLOCK FALSE
