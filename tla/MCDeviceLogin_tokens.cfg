CONSTANTS
  d1 = d1
  d2 = d2
  None = None
  Codes = {d1, d2}
  MaxTokens = 6
  MaxRefreshes = 1
  MaxRestarts = 1
SPECIFICATION FairSpec
INVARIANTS TypeOK OneRefreshToken 
PROPERTIES StaysValid 
CHECK_DEADLOCK FALSE
