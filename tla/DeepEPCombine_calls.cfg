CONSTANTS
  Rank = {r1, r2}
  BARRIERS = 4
  NUM_SMS = 2
  NUM_WARPS = 2
SPECIFICATION CombineFairSpec
INVARIANTS
  PassedAfterAll
  SlotsOfOneCall
  GridHolds
PROPERTIES
  RanksMeet
  CombinesEnd
