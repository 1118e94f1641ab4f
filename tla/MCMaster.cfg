CONSTANTS
  NFile = 2
  CommitModes = {"delete", "truncate", "persist"}
  RecoverModes = {"delete"}
  Kinds = {"fault", "power"}
  MaxRec = 2
  MaxTxn = 3
  MaxEvents = 4
SPECIFICATION Spec
CHECK_DEADLOCK FALSE
INVARIANT TypeOK
PROPERTY CommitsAtomically
