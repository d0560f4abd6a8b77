\* Two producers race two consumers over two cells for three laps of a cell.
SPECIFICATION Spec
CONSTANTS
  Producer = {p1, p2}
  Consumer = {c1, c2}
  Value = {v1, v2}
  NoValue = NoValue
  Size = 2
  MaxTickets = 5
SYMMETRY Symmetry
INVARIANTS
  ExclusiveCellAccess
  TicketInv
PROPERTIES
  ImplementsQueue
  EnqueueFailsOnlyWhenFull
  DequeueFailsOnlyWhenEmpty
