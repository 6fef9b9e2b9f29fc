\* Two traces, to destinations with different routes; answers may be late.
SPECIFICATION Spec
CONSTANTS
  gw = gw
  r1 = r1
  r2 = r2
  d1 = d1
  d2 = d2
  Hosts = {gw, r1, r2, d1, d2}
  Targets = {d1, d2}
  MaxHop = 4
  MaxCalls = 2
  ProcId = 4
  Distance <- MCDistance
  Routers <- MCRouters
  ForeignIds = {}
  ForeignSources = {}
  QueueLimit = 2
INVARIANT EveryRouteTrue
CHECK_DEADLOCK FALSE
