\* main(): one trace over three hops, with duplicated, late, foreign and cut
\* packets, and the splitting of its route.
SPECIFICATION MainSpec
CONSTANTS
  gw = gw
  r1 = r1
  r2 = r2
  d1 = d1
  d2 = d2
  Hosts = {gw, r1, r2, d1, d2}
  Targets = {d1}
  MaxHop = 4
  MaxCalls = 1
  ProcId = 4
  Distance <- MCDistance
  Routers <- MCRouters
  ForeignIds = {8}
  ForeignSources = {d2}
  QueueLimit = 2
  dot = dot
  Dash = dash
  Text <- MCText
  MyHosts = {d2}
INVARIANTS TypeOK NumberMeansTTL FirstRouteTrue RouteEndsAtDestination PrintsRoute
PROPERTY TraceEnds
CHECK_DEADLOCK FALSE
