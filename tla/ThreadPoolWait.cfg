\* A worker that waits for a task is never joined.
SPECIFICATION FairSpec
CONSTANTS
  Task = {t1, t2}
  NoTask = NoTask
  Owner = owner
  External = {}
  InitCount = 1
  Nested = FALSE
PROPERTIES
  WaitReturns
CHECK_DEADLOCK FALSE
