CONSTANTS
  WORLD_SIZE = 1
  Cluster = {c1, c2}
  CTA = {a1, a2}
  RS_M_CLUSTERS = 2
  N_CLUSTERS = 1
  QueueOrder <- RowMajor
SYMMETRY Symmetry
SPECIFICATION Spec
INVARIANTS
  TasksRunOnce
  ClaimsExclusive
