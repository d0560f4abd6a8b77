------------------------------ MODULE MPMCQueue ------------------------------
(***************************************************************************)
(* mpmc_circular_queue.cpp: the bounded queue MPMC_Circular_Queue, with    *)
(* any number of threads in enqueue() and in dequeue() at the same time.   *)
(*                                                                         *)
(* Every load, store and compare-exchange of the code is an action of its  *)
(* own, so are the accesses to the plain data_ of a cell: the threads      *)
(* interleave between any two of them.  A relaxed load that returns an old *)
(* value is a load that was done earlier: the step that uses it may be     *)
(* delayed for as long as one likes.                                       *)
(*                                                                         *)
(* pc[t] says what thread t does next:                                     *)
(*   "idle"                 it is in no call                               *)
(*   "e_load"  / "d_load"   load of enqueue_index_ / dequeue_index_        *)
(*   "e_seq"   / "d_seq"    load of the cell's sequence_, and the tests    *)
(*   "e_cas"   / "d_cas"    compare_exchange_weak                          *)
(*   "e_write" / "d_read"   the move into / out of the cell's data_        *)
(*   "e_publish" / "d_release"   the store to the cell's sequence_         *)
(***************************************************************************)
EXTENDS Integers, Sequences

CONSTANTS Producer,    \* threads that call enqueue()
          Consumer,    \* threads that call dequeue()
          Value,       \* what is queued
          NoValue,     \* data no one has written
          Size,        \* QUEUE_SIZE
          MaxTickets   \* bound: how many values a behaviour enqueues

ASSUME SizeAssumption == Size \in Nat /\ Size >= 2
ASSUME MaskAssumption == \E k \in 1..Size : Size = 2^k
ASSUME ThreadAssumption == Producer \cap Consumer = {}
ASSUME ValueAssumption == NoValue \notin Value
ASSUME BoundAssumption == MaxTickets \in Nat

VARIABLES sequence,       \* buffer_[i].sequence_
          data,           \* buffer_[i].data_
          enqueue_index,
          dequeue_index,
          pc,             \* where each thread is
          index,          \* the local of a call; 0 outside of a call
          arg,            \* enqueue()'s parameter; NoValue outside of a call
          out             \* the object dequeue()'s reference is bound to

vars == <<sequence, data, enqueue_index, dequeue_index, pc, index, arg, out>>

Thread == Producer \cup Consumer
Slot == 0..(Size - 1)

\* index & index_mask_, the mask being a power of two less one.
Cell(k) == k % Size

InitialSequence == [i \in Slot |-> i]

Init == /\ sequence = InitialSequence
        /\ data = [i \in Slot |-> NoValue]
        /\ enqueue_index = 0
        /\ dequeue_index = 0
        /\ pc = [t \in Thread |-> "idle"]
        /\ index = [t \in Thread |-> 0]
        /\ arg = [p \in Producer |-> NoValue]
        /\ out = [c \in Consumer |-> NoValue]

Goto(t, label) == pc' = [pc EXCEPT ![t] = label]
Return(t) == Goto(t, "idle") /\ index' = [index EXCEPT ![t] = 0]
-----------------------------------------------------------------------------
(* enqueue() *)

EnqueueCall(p, v) ==
  /\ pc[p] = "idle"
  /\ enqueue_index < MaxTickets
  /\ arg' = [arg EXCEPT ![p] = v]
  /\ Goto(p, "e_load")
  /\ UNCHANGED <<sequence, data, enqueue_index, dequeue_index, index, out>>

EnqueueLoadIndex(p) ==
  /\ pc[p] = "e_load"
  /\ index' = [index EXCEPT ![p] = enqueue_index]
  /\ Goto(p, "e_seq")
  /\ UNCHANGED <<sequence, data, enqueue_index, dequeue_index, arg, out>>

\* Mutation: the difference is taken to the next ticket.
EnqueueDiffNext(p) == sequence[Cell(index[p])] - (index[p] + 1)
EnqueueDiff(p) == sequence[Cell(index[p])] - index[p]

\* The cell is free for this ticket; the ticket is still to be won.
EnqueueCellFree(p) ==
  /\ pc[p] = "e_seq"
  /\ EnqueueDiff(p) = 0
  /\ Goto(p, "e_cas")
  /\ UNCHANGED <<sequence, data, enqueue_index, dequeue_index, index, arg, out>>

\* The cell is not free: enqueue() returns false.
EnqueueFull(p) ==
  /\ pc[p] = "e_seq"
  /\ EnqueueDiff(p) < 0
  /\ Return(p)
  /\ arg' = [arg EXCEPT ![p] = NoValue]
  /\ UNCHANGED <<sequence, data, enqueue_index, dequeue_index, out>>

\* Mutation: a stale index is tried again without a reload.
EnqueueBehindNoReload(p) ==
  /\ pc[p] = "e_seq"
  /\ EnqueueDiff(p) > 0
  /\ UNCHANGED vars

\* Another producer has used the ticket: load the index again.
EnqueueBehind(p) ==
  /\ pc[p] = "e_seq"
  /\ EnqueueDiff(p) > 0
  /\ Goto(p, "e_load")
  /\ UNCHANGED <<sequence, data, enqueue_index, dequeue_index, index, arg, out>>

\* Mutation: the index is stored, not compared and exchanged.
EnqueueWinBlindly(p) ==
  /\ pc[p] = "e_cas"
  /\ enqueue_index' = index[p] + 1
  /\ Goto(p, "e_write")
  /\ UNCHANGED <<sequence, data, dequeue_index, index, arg, out>>

EnqueueWin(p) ==
  /\ pc[p] = "e_cas"
  /\ enqueue_index = index[p]
  /\ enqueue_index' = index[p] + 1
  /\ Goto(p, "e_write")
  /\ UNCHANGED <<sequence, data, dequeue_index, index, arg, out>>

\* The exchange fails because the index has moved, or for no reason
\* (compare_exchange_weak); either way it leaves the current index in index.
EnqueueLose(p) ==
  /\ pc[p] = "e_cas"
  /\ index' = [index EXCEPT ![p] = enqueue_index]
  /\ Goto(p, "e_seq")
  /\ UNCHANGED <<sequence, data, enqueue_index, dequeue_index, arg, out>>

\* Mutation: the cell is published before it is written.
EnqueueWritePublishes(p) ==
  /\ pc[p] = "e_write"
  /\ sequence' = [sequence EXCEPT ![Cell(index[p])] = index[p] + 1]
  /\ Goto(p, "e_publish")
  /\ UNCHANGED <<data, enqueue_index, dequeue_index, index, arg, out>>

EnqueueWrite(p) ==
  /\ pc[p] = "e_write"
  /\ data' = [data EXCEPT ![Cell(index[p])] = arg[p]]
  /\ Goto(p, "e_publish")
  /\ UNCHANGED <<sequence, enqueue_index, dequeue_index, index, arg, out>>

\* The cell is given to the consumers: enqueue() returns true.
EnqueuePublish(p) ==
  /\ pc[p] = "e_publish"
  /\ sequence' = [sequence EXCEPT ![Cell(index[p])] = index[p] + 1]
  /\ Return(p)
  /\ arg' = [arg EXCEPT ![p] = NoValue]
  /\ UNCHANGED <<data, enqueue_index, dequeue_index, out>>
-----------------------------------------------------------------------------
(* dequeue() *)

DequeueCall(c) ==
  /\ pc[c] = "idle"
  /\ Goto(c, "d_load")
  /\ UNCHANGED <<sequence, data, enqueue_index, dequeue_index, index, arg, out>>

DequeueLoadIndex(c) ==
  /\ pc[c] = "d_load"
  /\ index' = [index EXCEPT ![c] = dequeue_index]
  /\ Goto(c, "d_seq")
  /\ UNCHANGED <<sequence, data, enqueue_index, dequeue_index, arg, out>>

\* Mutation: the difference is taken to the ticket after the next.
DequeueDiffLong(c) == sequence[Cell(index[c])] - (index[c] + 2)
DequeueDiff(c) == sequence[Cell(index[c])] - (index[c] + 1)

DequeueCellReady(c) ==
  /\ pc[c] = "d_seq"
  /\ DequeueDiff(c) = 0
  /\ Goto(c, "d_cas")
  /\ UNCHANGED <<sequence, data, enqueue_index, dequeue_index, index, arg, out>>

\* Nothing is published in the cell: dequeue() returns false.
DequeueEmpty(c) ==
  /\ pc[c] = "d_seq"
  /\ DequeueDiff(c) < 0
  /\ Return(c)
  /\ UNCHANGED <<sequence, data, enqueue_index, dequeue_index, arg, out>>

DequeueBehind(c) ==
  /\ pc[c] = "d_seq"
  /\ DequeueDiff(c) > 0
  /\ Goto(c, "d_load")
  /\ UNCHANGED <<sequence, data, enqueue_index, dequeue_index, index, arg, out>>

DequeueWin(c) ==
  /\ pc[c] = "d_cas"
  /\ dequeue_index = index[c]
  /\ dequeue_index' = index[c] + 1
  /\ Goto(c, "d_read")
  /\ UNCHANGED <<sequence, data, enqueue_index, index, arg, out>>

DequeueLose(c) ==
  /\ pc[c] = "d_cas"
  /\ index' = [index EXCEPT ![c] = dequeue_index]
  /\ Goto(c, "d_seq")
  /\ UNCHANGED <<sequence, data, enqueue_index, dequeue_index, arg, out>>

\* What the move leaves in the cell is never read: the cell keeps its value.
DequeueRead(c) ==
  /\ pc[c] = "d_read"
  /\ out' = [out EXCEPT ![c] = data[Cell(index[c])]]
  /\ Goto(c, "d_release")
  /\ UNCHANGED <<sequence, data, enqueue_index, dequeue_index, index, arg>>

\* Mutation: the cell is released for the mask, one short of the next lap.
DequeueReleaseEarly(c) ==
  /\ pc[c] = "d_release"
  /\ sequence' = [sequence EXCEPT ![Cell(index[c])] = index[c] + (Size - 1)]
  /\ Return(c)
  /\ UNCHANGED <<data, enqueue_index, dequeue_index, arg, out>>

\* The cell is given to the producer of the next lap (index + index_mask_ + 1):
\* dequeue() returns true.
DequeueRelease(c) ==
  /\ pc[c] = "d_release"
  /\ sequence' = [sequence EXCEPT ![Cell(index[c])] = index[c] + Size]
  /\ Return(c)
  /\ UNCHANGED <<data, enqueue_index, dequeue_index, arg, out>>
-----------------------------------------------------------------------------
Enqueue(p) ==
  \/ \E v \in Value : EnqueueCall(p, v)
  \/ EnqueueLoadIndex(p)
  \/ EnqueueCellFree(p)
  \/ EnqueueFull(p)
  \/ EnqueueBehind(p)
  \/ EnqueueWin(p)
  \/ EnqueueLose(p)
  \/ EnqueueWrite(p)
  \/ EnqueuePublish(p)

Dequeue(c) ==
  \/ DequeueCall(c)
  \/ DequeueLoadIndex(c)
  \/ DequeueCellReady(c)
  \/ DequeueEmpty(c)
  \/ DequeueBehind(c)
  \/ DequeueWin(c)
  \/ DequeueLose(c)
  \/ DequeueRead(c)
  \/ DequeueRelease(c)

Next == \/ \E p \in Producer : Enqueue(p)
        \/ \E c \in Consumer : Dequeue(c)

Spec == Init /\ [][Next]_vars

\* A thread that is in a call is scheduled again.  A compare-exchange that is
\* retried for ever does not fail every time: weak ones fail without a reason
\* only now and then, and the code counts on winning the race at last.
EnqueueFairness(p) ==
  /\ WF_vars(EnqueueLoadIndex(p))
  /\ WF_vars(EnqueueCellFree(p) \/ EnqueueFull(p) \/ EnqueueBehind(p))
  /\ WF_vars(EnqueueWin(p) \/ EnqueueLose(p))
  /\ SF_vars(EnqueueWin(p))
  /\ WF_vars(EnqueueWrite(p))
  /\ WF_vars(EnqueuePublish(p))

DequeueFairness(c) ==
  /\ WF_vars(DequeueLoadIndex(c))
  /\ WF_vars(DequeueCellReady(c) \/ DequeueEmpty(c) \/ DequeueBehind(c))
  /\ WF_vars(DequeueWin(c) \/ DequeueLose(c))
  /\ SF_vars(DequeueWin(c))
  /\ WF_vars(DequeueRead(c))
  /\ WF_vars(DequeueRelease(c))

FairSpec == /\ Spec
            /\ \A p \in Producer : EnqueueFairness(p)
            /\ \A c \in Consumer : DequeueFairness(c)
-----------------------------------------------------------------------------
Label == {"idle", "e_load", "e_seq", "e_cas", "e_write", "e_publish",
          "d_load", "d_seq", "d_cas", "d_read", "d_release"}

\* The values the variables take: producers run enqueue(), consumers
\* dequeue(), and no sequence number or index is ever negative (size_t).
TypeOK ==
  /\ sequence \in [Slot -> Nat]
  /\ data \in [Slot -> Value \cup {NoValue}]
  /\ enqueue_index \in Nat
  /\ dequeue_index \in Nat
  /\ pc \in [Thread -> Label]
  /\ \A p \in Producer :
       pc[p] \in {"idle", "e_load", "e_seq", "e_cas", "e_write", "e_publish"}
  /\ \A c \in Consumer :
       pc[c] \in {"idle", "d_load", "d_seq", "d_cas", "d_read", "d_release"}
  /\ index \in [Thread -> Nat]
  /\ arg \in [Producer -> Value \cup {NoValue}]
  /\ \A p \in Producer : pc[p] # "idle" => arg[p] \in Value
  /\ out \in [Consumer -> Value \cup {NoValue}]

\* Between its compare-exchange and its store to sequence_ a thread owns the
\* cell of the ticket it won.
Fills(p) == pc[p] \in {"e_write", "e_publish"}
Drains(c) == pc[c] \in {"d_read", "d_release"}
Owns(t) == Fills(t) \/ Drains(t)

\* The plain data_ of a cell is accessed without any lock (48, 77): no two
\* threads own one cell at a time, so that these accesses never race.
ExclusiveCellAccess ==
  \A s, t \in Thread :
    s # t /\ Owns(s) /\ Owns(t) => Cell(index[s]) # Cell(index[t])

(***************************************************************************)
(* Why it holds.  The two indices are at most Size apart, and every ticket *)
(* of the window dequeue_index .. dequeue_index + Size - 1 stands for one  *)
(* cell.  A ticket already used by a producer has its value published, or  *)
(* is still being filled; one not yet used has a free cell, or a consumer  *)
(* is still draining the value of the lap before.                          *)
(***************************************************************************)
IndexOrder == /\ dequeue_index <= enqueue_index
              /\ enqueue_index <= dequeue_index + Size

CellState ==
  \A k \in dequeue_index..(dequeue_index + Size - 1) :
    IF k < enqueue_index
    THEN \/ sequence[Cell(k)] = k + 1
         \/ /\ sequence[Cell(k)] = k
            /\ \E p \in Producer : Fills(p) /\ index[p] = k
    ELSE \/ sequence[Cell(k)] = k
         \/ /\ sequence[Cell(k)] = (k - Size) + 1
            /\ \E c \in Consumer : Drains(c) /\ index[c] = k - Size

FillsOwnTicket ==
  /\ \A p \in Producer : Fills(p) =>
       /\ dequeue_index <= index[p] /\ index[p] < enqueue_index
       /\ sequence[Cell(index[p])] = index[p]
  /\ \A p, q \in Producer :
       Fills(p) /\ Fills(q) /\ index[p] = index[q] => p = q

DrainsOwnTicket ==
  /\ \A c \in Consumer : Drains(c) =>
       /\ index[c] < dequeue_index /\ enqueue_index <= index[c] + Size
       /\ sequence[Cell(index[c])] = index[c] + 1
  /\ \A c, d \in Consumer :
       Drains(c) /\ Drains(d) /\ index[c] = index[d] => c = d

\* What a thread saw of a cell before its compare-exchange is still true when
\* the exchange succeeds.
CheckedCell ==
  /\ \A p \in Producer : pc[p] = "e_cas" /\ index[p] = enqueue_index =>
       sequence[Cell(index[p])] = index[p]
  /\ \A c \in Consumer : pc[c] = "d_cas" /\ index[c] = dequeue_index =>
       sequence[Cell(index[c])] = index[c] + 1

\* A loaded index is never ahead of the shared one.
IndexBehind == /\ \A p \in Producer : index[p] <= enqueue_index
               /\ \A c \in Consumer : index[c] <= dequeue_index

\* A sequence number checked at line 33 or 62 is stale by the time of the
\* compare-exchange (39, 68): together these conjuncts say that it does no
\* harm, because a ticket is won only if its cell is in the state that was
\* seen.  It is the inductive invariant of the proofs.
TicketInv == /\ IndexOrder
             /\ CellState
             /\ FillsOwnTicket
             /\ DrainsOwnTicket
             /\ CheckedCell
             /\ IndexBehind

\* enqueue() returns false only when Size tickets are taken, or a consumer is
\* still draining the cell (43): never because of a stale index or a lost race.
EnqueueFailsOnlyWhenFull ==
  [][\A p \in Producer : pc[p] = "e_seq" /\ pc'[p] = "idle" =>
       \/ enqueue_index = dequeue_index + Size
       \/ \E c \in Consumer : Drains(c) /\ index[c] = enqueue_index - Size]_vars

\* dequeue() returns false only when nothing is enqueued, or the producer of
\* the oldest ticket has not published it yet (72).
DequeueFailsOnlyWhenEmpty ==
  [][\A c \in Consumer : pc[c] = "d_seq" /\ pc'[c] = "idle" =>
       \/ dequeue_index = enqueue_index
       \/ \E p \in Producer : Fills(p) /\ index[p] = dequeue_index]_vars

(***************************************************************************)
(* The queue a user sees: a value is in it from the compare-exchange of    *)
(* its producer to the compare-exchange of its consumer.                   *)
(***************************************************************************)
ValueOf(k) ==
  IF \E p \in Producer : pc[p] = "e_write" /\ index[p] = k
  THEN arg[CHOOSE p \in Producer : pc[p] = "e_write" /\ index[p] = k]
  ELSE data[Cell(k)]

QueueItems == [i \in 1..(enqueue_index - dequeue_index)
                 |-> ValueOf(dequeue_index + i - 1)]

\* A consumer holds the value from its exchange on, before it has moved it.
QueueHand == [c \in Consumer |-> IF pc[c] = "d_read" THEN data[Cell(index[c])]
                                                    ELSE out[c]]

Queue == INSTANCE BoundedQueue WITH items <- QueueItems,
                                    hand <- QueueHand,
                                    Capacity <- Size

\* Whatever the interleaving, the queue is a FIFO of Size values: none is
\* lost, duplicated, overwritten or taken out of turn.
ImplementsQueue == Queue!Spec

\* Every call returns, full and empty queues included: no thread is left
\* spinning on a cell or on an index (30-46, 59-75).
EveryCallReturns == \A t \in Thread : pc[t] # "idle" ~> pc[t] = "idle"
=============================================================================
