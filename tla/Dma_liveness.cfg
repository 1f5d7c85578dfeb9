CONSTANTS
  Heads = {h1}
  NumSb = 1
  FifoLength = 1
  UintMax = 15
  Threads = {t1, t2}
  Waiters = {w1}
  StartModes = {"HANDSHAKE"}
  Todos = {2}
  Timeouts = {FALSE}
  WaitFrames = {2}
  MaxStarts = 2
  ClientOps = {"close", "unlock_all"}
  Faults = {}
  QueueAnyList = FALSE
  FreeUnderStart = FALSE
  NoHead = NoHead
SPECIFICATION FairSpec
CHECK_DEADLOCK FALSE
INVARIANTS
  StopHasOwner
PROPERTIES
  StopFinishes
  WaitersReleased
