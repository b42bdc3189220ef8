CONSTANTS
  c1 = c1
  c2 = c2
  c3 = c3
  None = None
  Calls = {c1, c2, c3}
  Silent = {c2}
SPECIFICATION FairSpec
INVARIANTS TypeOK 
 
CHECK_DEADLOCK FALSE
