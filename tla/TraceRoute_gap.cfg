\* One trace over three hops, one of which does not answer in time.
SPECIFICATION Spec
CONSTANTS
  gw = gw
  r1 = r1
  r2 = r2
  d1 = d1
  d2 = d2
  Hosts = {gw, r1, r2, d1, d2}
  Targets = {d1}
  MaxHop = 4
  MaxCalls = 1
  ProcId = 4
  Distance <- MCDistance
  Routers <- MCRouters
  ForeignIds = {}
  ForeignSources = {}
  QueueLimit = 2
INVARIANT ListedHopsAdjacent
CHECK_DEADLOCK FALSE
