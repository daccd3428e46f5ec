SPECIFICATION Spec
CONSTANTS
  Ids = {1}
  Runs = {1, 2}
  Edges = {"call"}
  Candidates = {"candidate"}
  Revisions = {0, 1, 2}
  Hashes = {TRUE}
  Endpoints = {"node"}
  MaxReplays = 1
CHECK_DEADLOCK FALSE
INVARIANT StrictAppliesAll
