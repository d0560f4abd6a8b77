\* Every call returns, two producers racing two consumers.
SPECIFICATION FairSpec
CONSTANTS
  Producer = {p1, p2}
  Consumer = {c1, c2}
  Value = {v1}
  NoValue = NoValue
  Size = 2
  MaxTickets = 3
PROPERTIES
  EveryCallReturns
