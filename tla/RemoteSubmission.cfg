CONSTANTS
  Thread = {t1, t2}
  Lost = lost
  WORKLOADS = 2
  TRANSPORT_ATTEMPTS = 2
  BUSY = 1
  LIMIT = 1
  STALE_ROOT_AGE = 2
SPECIFICATION FairSpec
INVARIANTS
  RunsBounded
  LiveRootsKept
  ClientsClosed
PROPERTIES
  SweepEnds
