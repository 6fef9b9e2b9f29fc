\* One call of make() over two hosts that answer: one answer is late.
SPECIFICATION Spec
CONSTANTS
  MaxAddr = 3
  ThreadNumLimit = 20
  StartQuads = {1}
  EndQuads = {2}
  MaxThreads = 2
  MaxCalls = 1
  MaxDrift = 5
  Silent = {}
  Broadcast = {}
  IcmpId <- MCIcmpId
  Answerers <- MCAnswerers
  ForeignIds = {}
  ForeignSources = {}
  QueueLimit = 2
PROPERTY WaitingAnswerIsTaken
CHECK_DEADLOCK FALSE
