\* Two events, registered at any time, and three dispatches.
SPECIFICATION FairSpec
CONSTANTS
  Event = {e1, e2}
  NoEvent = NoEvent
  MaxEvents = 3
INVARIANTS
  JoinInv
  RunnerInv
  GoneEarlyTookNothing
PROPERTIES
  DispatchedIsHandled
  DestructorEnds
\* The destructor ends the program, or hangs in the join of a waiting runner.
CHECK_DEADLOCK FALSE
