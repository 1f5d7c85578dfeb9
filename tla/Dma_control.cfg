CONSTANTS
  Heads = {h1, h2}
  NumSb = 1
  FifoLength = 1
  UintMax = 15
  Threads = {t1, t2}
  Waiters = {w1}
  StartModes = {"CONT"}
  Todos = {1}
  Timeouts = {TRUE}
  WaitFrames = {1}
  MaxStarts = 2
  ClientOps = {"free_head", "close"}
  Faults = {"start_fails", "stop_times_out", "irq_overflow"}
  QueueAnyList = FALSE
  FreeUnderStart = TRUE
  NoHead = NoHead
SPECIFICATION Spec
CHECK_DEADLOCK FALSE
INVARIANTS
  TypeOK
  RefusedStartIsStopping
  CloseFindsNoneStarted
  LinkConsistent
  NoLostWakeup
  StartedIsStoppable
