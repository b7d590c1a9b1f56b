CONSTANTS
  WORLD_SIZE = 2
  Cluster = {c1}
  c1 = c1
  LOCAL_GEMM_M_CLUSTERS = 2
  GEMM_N_CLUSTERS = 2
SPECIFICATION FairSpec
INVARIANTS
  ReturnsWholeProduct
  GatherMeetsLaunch
PROPERTY LaunchCompletes
