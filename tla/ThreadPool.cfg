\* Two workers and the ones the pool adds; the owner, running tasks and one more
\* thread submit three tasks, also while the owner shuts the pool down.
SPECIFICATION FairSpec
CONSTANTS
  Task = {t1, t2, t3}
  NoTask = NoTask
  Owner = owner
  External = {x1}
  InitCount = 2
  Nested = TRUE
INVARIANTS
  PoolInv
  NoLostWakeup
  JoinedMeansDone
PROPERTIES
  AcceptedIsRun
\* The program ends, or hangs in the join of a waiting thread.
CHECK_DEADLOCK FALSE
