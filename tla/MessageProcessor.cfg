\* Posts, registrations and stops of two threads, and the destructor.
SPECIFICATION FairSpec
CONSTANTS
  Handler = {h1, h2}
  NoHandler = NoHandler
  Owner = owner
  Other = {other}
  Registrar = {r1, r2}
  MaxPosts = 3
INVARIANTS
  MessageInv
  FirstCallIsEffective
PROPERTIES
  PostedIsHandled
  StopReachesWorker
\* The destructor ends the program, or hangs in the join.
CHECK_DEADLOCK FALSE
