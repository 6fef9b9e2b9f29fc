\* One call of make() over two hosts that answer: what the counter counts.
SPECIFICATION Spec
CONSTANTS
  MaxAddr = 3
  ThreadNumLimit = 20
  StartQuads = {1}
  EndQuads = {2}
  MaxThreads = 2
  MaxCalls = 1
  MaxDrift = 5
  Silent = {}
  Broadcast = {}
  IcmpId <- MCIcmpId
  Answerers <- MCAnswerers
  ForeignIds = {}
  ForeignSources = {}
  QueueLimit = 2
INVARIANT CounterCountsThreads
CHECK_DEADLOCK FALSE
