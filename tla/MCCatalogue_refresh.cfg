CONSTANTS
  t1 = t1
  t2 = t2
  f1 = f1
  f2 = f2
  None = None
  Tools = {t1, t2}
  Lists = {{t1}, {t2}}
  FirstList = {t1}
  Refreshes = {f1, f2}
  UseStore = TRUE
  UseRedis = TRUE
  Faults = {"redis", "store", "upstream"}
  MaxChanges = 2
  MaxListings = 1
SPECIFICATION FairSpec
INVARIANTS TypeOK CatalogueWhole
 
CHECK_DEADLOCK FALSE
