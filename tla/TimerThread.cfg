CONSTANTS
  OneShot = {o1}
  Periodic = {p1, p2}
  Interval = 2
  Width = 8
  MaxElapsed = 3
  MaxJumps = 1
SPECIFICATION FairSpec
INVARIANTS
  TimerInv
PROPERTIES
  NotTooSoon
  TimersFire
  StopReturns
CHECK_DEADLOCK FALSE
