CONSTANT Kernels <- BothKernels
SPECIFICATION FairSpec
INVARIANTS
  StoresItsOwnTile
  NothingLost
  FreedLast
PROPERTIES
  AnswersBroadcast
  ClusterFinishes
