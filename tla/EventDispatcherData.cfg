\* The thread of an event reads the variable of the runner too late.
SPECIFICATION Spec
CONSTANTS
  Event = {e1, e2}
  NoEvent = NoEvent
  MaxEvents = 3
INVARIANTS
  HandlerGetsItsData
CHECK_DEADLOCK FALSE
