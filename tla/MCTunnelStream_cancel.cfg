SPECIFICATION Spec
CONSTANTS
  r1 = r1
  r2 = r2
  Requests = {r1}
  Kind <- OneMcp
  StreamIDs = {1}
  ChanCap = 8
  MaxFrames = 2
  DistinctTimestamps = TRUE
  NoReq = NoReq
  NoID = NoID
INVARIANTS
  CancelStopsUpstream
CHECK_DEADLOCK FALSE
