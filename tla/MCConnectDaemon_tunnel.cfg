CONSTANTS
  a = a
  b = b
  Names = {a, b}
  Taken = {b}
  DiskFails = TRUE
  MaxOps = 4
  MaxLosses = 1
  MaxExits = 1
  MaxLogins = 1
SPECIFICATION FairSpec
INVARIANTS TypeOK NoMissedChange BeatsAnnounced AcknowledgedIsStored
PROPERTIES Settles
CHECK_DEADLOCK FALSE
