CONSTANT Shapes <- Aligned
SPECIFICATION FairSpec
INVARIANTS
  AccumulatorIntact
  NeverLapped
PROPERTIES
  PacketsBroadcast
  StagesBroadcast
  ClusterFinishes
