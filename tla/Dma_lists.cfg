CONSTANTS
  Heads = {h1}
  NumSb = 2
  FifoLength = 1
  UintMax = 15
  Threads = {t1}
  Waiters = {}
  StartModes = {"HANDSHAKE", "SELECTIVE"}
  Todos = {2}
  Timeouts = {FALSE}
  WaitFrames = {2}
  MaxStarts = 1
  ClientOps = {"get_next", "get_act", "unlock", "unlock_all", "queue", "free_userbuf"}
  Faults = {}
  QueueAnyList = FALSE
  FreeUnderStart = FALSE
  NoHead = NoHead
SPECIFICATION Spec
CHECK_DEADLOCK FALSE
INVARIANTS
  ListsConsistent
  NeverOverqueued
  FramesInOrder
  QueuedBuffersRegistered
