CONSTANTS
  a = a
  b = b
  c = c
  NoConn = NoConn
  Conn = {a, b, c}
  Table = {1}
  Master = 1
SPECIFICATION Spec
CHECK_DEADLOCK FALSE
INVARIANTS TypeOK TablesIsolated PendingForReaders Listed NoCycle NotForgotten
PROPERTY Delivered
