CONSTANTS
  Heads = {h1}
  NumSb = 2
  FifoLength = 2
  UintMax = 15
  Threads = {t1}
  Waiters = {}
  StartModes = {"HANDSHAKE"}
  Todos = {2}
  Timeouts = {TRUE}
  WaitFrames = {2}
  MaxStarts = 2
  ClientOps = {"get_next", "get_act", "unlock_all", "free_userbuf"}
  Faults = {}
  QueueAnyList = FALSE
  FreeUnderStart = FALSE
  NoHead = NoHead
SPECIFICATION Spec
CHECK_DEADLOCK FALSE
INVARIANTS
  HotMatchesHardware
  NoWildEntry
  UnlockAllComplete
  EngineFed
