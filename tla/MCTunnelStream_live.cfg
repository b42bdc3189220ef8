SPECIFICATION FairSpec
CONSTANTS
  r1 = r1
  r2 = r2
  Requests = {r1, r2}
  Kind <- McpAndRefresh
  StreamIDs = {1, 2}
  ChanCap = 1
  MaxFrames = 2
  DistinctTimestamps = TRUE
  NoReq = NoReq
  NoID = NoID
PROPERTIES
  
  TunnelLossWakesWaiters
CHECK_DEADLOCK FALSE
