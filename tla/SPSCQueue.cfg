\* A ring of three slots, and every interleaving of push, pop and the queries.
SPECIFICATION Spec
CONSTANTS
  Value = {v1, v2, v3}
  NoValue = NoValue
  Size = 2
INVARIANTS
  ExclusiveSlotAccess
  AnswersStay
PROPERTIES
  ImplementsQueue
