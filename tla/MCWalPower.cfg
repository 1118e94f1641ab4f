SPECIFICATION Spec
CONSTANTS
  w = w
  r = r
  k = k
  Conn = {w, k}
  Readers = {}
  Writers = {w}
  Ckpters = {k}
  NReader = 2
  NPages = 2
  InitSize = 2
  Batches <- ResizeBatches
  Modes = {"passive"}
  SyncCkpt = TRUE
  SyncHeader = TRUE
  MaxFrame = 4
  MaxTxn = 3
  MaxSalt = 2
  MaxRetry = 1
  MaxCrash = 0
  MaxPowerFail = 1
  IoErrors = FALSE
  AllowRestartRace = FALSE
  AllowRestartCrash = FALSE
  AllowRecoverRace = TRUE
INVARIANTS Recoverable Durable
