CONSTANTS
  Thread = {t1, t2}
  Name = {"a", "b"}
  FileSize = 2
  Length = {1, 3}
  MaxLines = 4
  MaxFiles = 2
SPECIFICATION Spec
INVARIANTS
  FileInv
  DamageHasCause
  EveryLineIsKept
CHECK_DEADLOCK FALSE
