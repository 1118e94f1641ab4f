CONSTANTS
  a = a
  b = b
  Conn = {a, b}
  ProcOf <- OneEach
  NPages = 2
  InitSize = 2
  Modes <- Mixed
  FullSync = TRUE
  HeaderAligned = TRUE
  MaxTxn = 3
  MaxItems = 4
  MaxFault <- NoFault
  MaxPowerFail = 0
SPECIFICATION Spec
CHECK_DEADLOCK FALSE
INVARIANT Recoverable
