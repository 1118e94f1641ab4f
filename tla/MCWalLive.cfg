SPECIFICATION FairSpec
CONSTANTS
  w = w
  r = r
  k = k
  Conn = {w, k}
  Readers = {}
  Writers = {w}
  Ckpters = {k}
  NReader = 3
  NPages = 2
  InitSize = 2
  Batches <- SmallBatches
  Modes = {"passive", "full", "restart"}
  SyncCkpt = TRUE
  SyncHeader = TRUE
  MaxFrame = 2
  MaxTxn = 2
  MaxSalt = 2
  MaxRetry = 2
  MaxCrash = 0
  MaxPowerFail = 0
  IoErrors = TRUE
  AllowRestartRace = FALSE
  AllowRestartCrash = FALSE
  AllowRecoverRace = TRUE
PROPERTIES CallsReturn
INVARIANT CkptPromise
