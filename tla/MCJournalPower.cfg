CONSTANTS
  a = a
  b = b
  Conn = {a}
  ProcOf <- OneEach
  NPages = 3
  InitSize = 2
  Modes <- Alike
  FullSync = TRUE
  HeaderAligned = FALSE
  MaxTxn = 2
  MaxItems = 4
  MaxFault <- NoFault
  MaxPowerFail = 1
SPECIFICATION Spec
CHECK_DEADLOCK FALSE
INVARIANT Recoverable
