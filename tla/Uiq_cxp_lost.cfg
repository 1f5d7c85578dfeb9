CONSTANTS
  TsWords = 1
  Kinds <- CxpKinds
  FifoDepth = 2
  Sizes = {2, 3}
  Requests = {1, 2}
  Packets = {2, 3}
  Stamps = {TRUE, FALSE}
  MaxWords = 5
  MaxAdmin = 2
  UintMax = 15
SPECIFICATION Spec
CHECK_DEADLOCK FALSE
INVARIANT
  PushedDataRemains
