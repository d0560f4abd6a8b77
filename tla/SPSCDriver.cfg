\* The program with more rounds than the queue has room for, so that pushes fail
\* in some behaviours and in others none does, as in main().
SPECIFICATION DriverSpec
CONSTANTS
  Value = {1, 2, 3, 4, 5}
  NoValue = NoValue
  Size = 2
  Items = 5
INVARIANTS
  ShownInOrder
PROPERTIES
  EverythingShown
\* The program ends when no push has failed.
CHECK_DEADLOCK FALSE
