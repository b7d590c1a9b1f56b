CONSTANTS
  r1 = r1
  r2 = r2
  Rank = {r1, r2}
  BARRIERS = 4
  NUM_SMS = 2
  NUM_TOKENS = 2
  Routes <- TwoRoutes
SPECIFICATION FairSpec
INVARIANTS
  ReceivedExactly
  AtRest
PROPERTIES
  CallsEnd
