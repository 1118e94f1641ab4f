CONSTANTS
  a = a
  b = b
  Conn = {a, b}
  ProcOf <- OneEach
  NPages = 2
  InitSize = 2
  Modes <- Alike
  FullSync = TRUE
  HeaderAligned = FALSE
  MaxTxn = 2
  MaxItems = 4
  MaxFault <- TwoInDelete
  MaxPowerFail = 0
SPECIFICATION Spec
SYMMETRY Twins
CHECK_DEADLOCK FALSE
INVARIANTS TypeOK Recoverable ViewOK CacheTrusted
PROPERTY WritesLocked
