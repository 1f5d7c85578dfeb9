CONSTANTS
  PageWords = 4
  NumBuffers = 2
  CountMax = 2
  MaxSent = 6
  MaxConfigs = 1
  MaxFaults = 2
SPECIFICATION Spec
INVARIANT RingAgreed
CHECK_DEADLOCK FALSE
