SPECIFICATION Spec
CONSTANTS
  r1 = r1
  r2 = r2
  Requests = {r1, r2}
  Kind <- McpAndInvoke
  StreamIDs = {1, 2}
  ChanCap = 2
  MaxFrames = 3
  DistinctTimestamps = TRUE
  NoReq = NoReq
  NoID = NoID
INVARIANTS
  TypeOK
  StreamIsolation
  OrderedDelivery
  StatusFrameFirst
  ShortAnswerComplete
  PendingOnlyInFlight
  CancelOnlyAbandoned
PROPERTIES
  ImplementsResponseStream
CHECK_DEADLOCK FALSE
