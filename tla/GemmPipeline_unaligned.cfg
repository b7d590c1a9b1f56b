CONSTANT Shapes <- Unaligned
SPECIFICATION FairSpec
PROPERTY ClusterFinishes
CHECK_DEADLOCK FALSE
