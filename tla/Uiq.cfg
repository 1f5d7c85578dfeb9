CONSTANTS
  TsWords = 1
  Kinds <- DeclaredKinds
  FifoDepth = 2
  Sizes = {1, 3}
  Requests = {1, 2}
  Packets = {2, 3}
  Stamps = {TRUE, FALSE}
  MaxWords = 4
  MaxAdmin = 3
  UintMax = 15
SPECIFICATION Spec
CHECK_DEADLOCK FALSE
INVARIANTS
  AllWordsAccounted
  StreamIntact
  PacketsNotTorn
  FpgaFifoBounded
  NoMissedWakeup
PROPERTY
  WriteQueueDriven
