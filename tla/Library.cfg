SPECIFICATION Spec
CONSTANTS
  Node = {n1, n2, n3, n4}
  Nil = Nil
  Item = {1, 2}
  Null = Null
  ChainNode = {c1, c2, c3}
  NullNode = NullNode
  Nullptr = Nullptr
  Number <- MCNumber
  Junk = Junk
  Data = {1, 2}
  Key = {0, 1, 2, 3}
  Value = {x, v}
  Default = x
  FirstSize = 2
  MaxSize = 6
  MaxCount = 5
  Root = {r1, r2}
  Obj = {o1, o2, o3}
  Second = Second
  Variants = {v1, v2, v3}
  Type = {t, u}
  Void = Void
  Mixed = Mixed
  Dead = Dead
  Small = {s1, s2}
  Large = {l1, l2}
  SmallId = {i1, i2}
  LargeId = {g1, g2}
  Plain = Plain
  Gone = Gone
  Element = {a, b}
  MaxLength = 4
  Minus = Minus
INVARIANTS
  ListInv
  ChainInv
  MapInv
  CountIsOwners
  OwnedByOne
  TemplateInv
PROPERTIES
  FreedOnlyOnce
  TellsTheTypeUntilMixed
  KeptUntilMoved
CHECK_DEADLOCK FALSE
