\* Two calls of make(), over ranges that may be empty or end at an argument that
\* is no address; host 0 is silent; make() is fair.
SPECIFICATION FairSpec
CONSTANTS
  MaxAddr = 2
  ThreadNumLimit = 20
  StartQuads = {0, 1}
  EndQuads = {1, 3}
  MaxThreads = 3
  MaxCalls = 2
  MaxDrift = 4
  Silent = {0}
  Broadcast = {}
  IcmpId <- MCIcmpId
  Answerers <- MCAnswerers
  ForeignIds = {}
  ForeignSources = {}
  QueueLimit = 1
INVARIANTS TypeOK ProbedOnce
PROPERTIES LogSpec ScanEnds AllOnesNeverReturns
CHECK_DEADLOCK FALSE
