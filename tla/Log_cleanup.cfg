\* Two threads that log while cleanup() is called.
SPECIFICATION LibrarySpec
CONSTANTS
  Parts = {"log"}
  Radix = 8
  MaxWords = 4
  Buffers <- MCBuffers
  c1 = c1
  c2 = c2
  i1 = i1
  i2 = i2
  t1 = t1
  t2 = t2
  MaxT = 2
  ListNames = {c1, c2}
  Rest = Rest
  Items = {i1, i2}
  Wild = Wild
  MaxCount = 4
  Sub = {0, 1}
  WildSub = WildSub
  MaxOperand = 3
  Operands <- MCOperands
  MaxLen = 4
  Threads = {t1, t2}
  NoThread = NoThread
  LoggerBound = 3
  LogItems = 2
  CleanupRuns = TRUE
  ClassesUsed <- MCClasses
  HalfRadix = 2
  LongRadix = 4
  NoText = NoText
  AgentValues = {0, 1}
  RequestIds = {1, 2}
  ThisId = 2
  NoValue = NoValue
  BoundValues = {i1, i2}
  NoBinding = NoBinding
  PduMax = 2
  OwnVbs = 2
INVARIANT LoggerAlive
CHECK_DEADLOCK FALSE
