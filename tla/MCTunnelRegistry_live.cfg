CONSTANTS
  demo = demo
  c1 = c1
  c2 = c2
  a = a
  b = b
  t1 = t1
  t2 = t2
  t3 = t3
  None = None
  Tenants = {demo}
  Tunnels = {t1, t2}
  Connects = {c1}
  Components = {a}
  Names = {a}
  HelloOf <- Reconnect
  UseStore = TRUE
  UseRedis = TRUE
  Timely = FALSE
  MaxCrashes = 1
SPECIFICATION FairSpec
INVARIANTS RouteServed
PROPERTIES HeartbeatHeals LostTunnelUnrouted
CHECK_DEADLOCK FALSE
