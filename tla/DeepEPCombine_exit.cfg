CONSTANTS
  Rank = {r1, r2}
  BARRIERS = 2
  NUM_SMS = 2
  NUM_WARPS = 2
SPECIFICATION CombineSpec
INVARIANT PeerDataVisible
