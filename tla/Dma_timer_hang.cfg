CONSTANTS
  Heads = {h1}
  NumSb = 1
  FifoLength = 2
  UintMax = 15
  Threads = {t1}
  Waiters = {}
  StartModes = {"CONT"}
  Todos = {2}
  Timeouts = {TRUE}
  WaitFrames = {2}
  MaxStarts = 2
  ClientOps = {}
  Faults = {}
  QueueAnyList = FALSE
  FreeUnderStart = FALSE
  NoHead = NoHead
SPECIFICATION Spec
CHECK_DEADLOCK FALSE
INVARIANTS
  NoHang
