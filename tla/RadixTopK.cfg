CONSTANTS
  BITS = 1
  CTAS = 3
  Rounds = {2, 4}
  K = 2
  CHUNK = 3
  BLOCK_THREADS = 2
  Rows <- ThreeCtas
  ROW_BOUND = 2
  LAUNCHES = 2
SPECIFICATION FairSpec
INVARIANTS
  HistogramExact
  RowsSelected
  Reproducible
  WorkspaceClean
PROPERTIES
  MeetsAsOne
  LaunchesEnd
