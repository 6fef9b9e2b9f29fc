\* One call of make() over three addresses: a host, a silent one, a broadcast one.
SPECIFICATION Spec
CONSTANTS
  MaxAddr = 4
  ThreadNumLimit = 20
  StartQuads = {1}
  EndQuads = {3}
  MaxThreads = 3
  MaxCalls = 1
  MaxDrift = 5
  Silent = {2}
  Broadcast = {3}
  IcmpId <- MCIcmpId
  Answerers <- MCAnswerers
  ForeignIds = {1}
  ForeignSources = {4}
  QueueLimit = 2
INVARIANTS OneWorker NeverThrottled OwnAnswer ListedInOrder
  ListedHostsExist
PROPERTY LossOnlyByTermination
CHECK_DEADLOCK FALSE
