SPECIFICATION Spec
CONSTANTS
  Kinds = {"spi_v2", "spi_dual", "spi_bs", "bpi", "jtag", "i2c"}
  Scripts <- MCScripts
  Limits <- MCLimits
  LongestBurst = 7
  MaxTransactions = 2
  BankSize = 4
  BankCount = 2
  BpiReadFifo = 2
  Busses = {0, 1}
  Activated = {1}
  NoBus = NoBus
INVARIANTS
  QueuesWithinLimits
  ReleasedAsAsked
  TapTracked
  InactiveBussesIdle
  BankCacheTrue
PROPERTIES
  BurstsKeepPromise
  TransactionEnds
CHECK_DEADLOCK FALSE
