SPECIFICATION Spec
CONSTANTS
  w = w
  r = r
  k = k
  Conn = {w, k}
  Readers = {}
  Writers = {w, k}
  Ckpters = {k}
  NReader = 2
  NPages = 2
  InitSize = 2
  Batches <- SpillAndFirst
  Modes = {"passive"}
  SyncCkpt = TRUE
  SyncHeader = TRUE
  MaxFrame = 2
  MaxTxn = 2
  MaxSalt = 2
  MaxRetry = 1
  MaxCrash = 1
  MaxPowerFail = 0
  IoErrors = TRUE
  AllowRestartRace = FALSE
  AllowRestartCrash = FALSE
  AllowRecoverRace = FALSE
INVARIANTS TypeOK Recoverable SnapshotRead CacheFresh RestartAssert LogIntact NothingHeld
