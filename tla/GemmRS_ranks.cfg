CONSTANTS
  WORLD_SIZE = 2
  Cluster = {c1}
  CTA = {a1}
  RS_M_CLUSTERS = 1
  N_CLUSTERS = 2
  QueueOrder <- RowMajor
SPECIFICATION FairSpec
INVARIANTS
  ReducedFromEveryRank
  SemaphoreCountsStores
  ClearWhileQuiet
  TerminalState
  DoneMeansPeersDone
PROPERTIES
  ImplementsReduceScatter
  LaunchCompletes
