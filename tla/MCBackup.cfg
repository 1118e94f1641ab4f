CONSTANTS
  x = x
  y = y
  b1 = b1
  Hole = Hole
  Old = Old
  Val = {x, y}
  BackupObj = {b1}
  N = 3
  MaxChange = 2
SPECIFICATION Spec
SYMMETRY Contents
INVARIANTS TypeOK PrefixCopied
PROPERTY CopyIsSnapshot
