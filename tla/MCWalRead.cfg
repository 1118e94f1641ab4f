SPECIFICATION Spec
CONSTANTS
  w = w
  r = r
  k = k
  Conn = {w, r, k}
  Readers = {r}
  Writers = {w}
  Ckpters = {k}
  NReader = 3
  NPages = 2
  InitSize = 2
  Batches <- FirstPage
  Modes = {"passive"}
  SyncCkpt = TRUE
  SyncHeader = TRUE
  MaxFrame = 2
  MaxTxn = 2
  MaxSalt = 2
  MaxRetry = 1
  MaxCrash = 0
  MaxPowerFail = 0
  IoErrors = FALSE
  AllowRestartRace = FALSE
  AllowRestartCrash = FALSE
  AllowRecoverRace = TRUE
INVARIANTS SnapshotRead ReadMarkSafe CkptBehindReaders
PROPERTIES ReadMarkStable SnapshotFramesStable
