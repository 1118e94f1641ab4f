SPECIFICATION Spec
CONSTANTS
  w = w
  r = r
  k = k
  Conn = {w, k}
  Readers = {}
  Writers = {w}
  Ckpters = {k}
  NReader = 3
  NPages = 2
  InitSize = 2
  Batches <- SmallBatches
  Modes = {"passive"}
  SyncCkpt = TRUE
  SyncHeader = TRUE
  MaxFrame = 2
  MaxTxn = 3
  MaxSalt = 2
  MaxRetry = 1
  MaxCrash = 0
  MaxPowerFail = 0
  IoErrors = FALSE
  AllowRestartRace = TRUE
  AllowRestartCrash = FALSE
  AllowRecoverRace = TRUE
INVARIANTS SnapshotRead
