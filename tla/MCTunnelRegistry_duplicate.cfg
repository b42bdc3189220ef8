CONSTANTS
  demo = demo
  c1 = c1
  c2 = c2
  a = a
  b = b
  t1 = t1
  t2 = t2
  t3 = t3
  None = None
  Tenants = {demo}
  Tunnels = {t1, t2}
  Connects = {c1, c2}
  Components = {a, b}
  Names = {a, b}
  HelloOf <- SameIdentifier
  UseStore = FALSE
  UseRedis = FALSE
  Timely = TRUE
  MaxCrashes = 0
SPECIFICATION Spec
PROPERTIES NoRouteTheft
CHECK_DEADLOCK FALSE
