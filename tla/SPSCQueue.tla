------------------------------ MODULE SPSCQueue ------------------------------
(***************************************************************************)
(* lock_free_circular_queue.cpp: CircularQueue, a ring of SIZE + 1 slots   *)
(* between one producer thread (push) and one consumer thread (pop).       *)
(* Either thread may also ask is_empty() and is_full().                    *)
(*                                                                         *)
(* The load of an index that only the calling thread stores is part of the *)
(* call; every other access to shared memory is an action of its own.      *)
(***************************************************************************)
EXTENDS Naturals, Sequences

CONSTANTS Value,     \* what is queued
          NoValue,   \* an element no one has written
          Size       \* SIZE

ASSUME SizeAssumption == Size \in Nat /\ Size >= 1
ASSUME ValueAssumption == NoValue \notin Value

Producer == "producer"
Consumer == "consumer"
Role == {Producer, Consumer}

VARIABLES queue_head,   \* the slot to pop next; stored by the consumer only
          queue_tail,   \* the slot to push next; stored by the producer only
          queue,        \* the slots
          pc,           \* what each thread does next, "idle" outside of a call
          seen,         \* the first index is_empty() or is_full() has loaded
          item,         \* push()'s parameter
          out,          \* the object pop()'s reference is bound to
          told          \* the last answer of is_empty() or is_full() to a
                        \* thread that has not pushed or popped since

vars == <<queue_head, queue_tail, queue, pc, seen, item, out, told>>

QueueCapacity == Size + 1
Slot == 0..Size

Increment(i) == (i + 1) % QueueCapacity

Init == /\ queue_head = 0
        /\ queue_tail = 0
        /\ queue = [i \in Slot |-> NoValue]
        /\ pc = [r \in Role |-> "idle"]
        /\ seen = [r \in Role |-> 0]
        /\ item = NoValue
        /\ out = NoValue
        /\ told = [r \in Role |-> "nothing"]

Goto(r, label) == pc' = [pc EXCEPT ![r] = label]
Answer(r, answer) == /\ Goto(r, "idle")
                     /\ seen' = [seen EXCEPT ![r] = 0]
                     /\ told' = [told EXCEPT ![r] = answer]
-----------------------------------------------------------------------------
(* push() *)

PushCall(v) ==
  /\ pc[Producer] = "idle"
  /\ item' = v
  /\ told' = [told EXCEPT ![Producer] = "nothing"]
  /\ Goto(Producer, "push_load")
  /\ UNCHANGED <<queue_head, queue_tail, queue, seen, out>>

\* The head has caught up from behind: push() returns false.
PushFull ==
  /\ pc[Producer] = "push_load"
  /\ Increment(queue_tail) = queue_head
  /\ Goto(Producer, "idle")
  /\ UNCHANGED <<queue_head, queue_tail, queue, seen, item, out, told>>

\* Mutation: the last free slot is not kept free.
PushHasRoomUnchecked ==
  /\ pc[Producer] = "push_load"
  /\ Goto(Producer, "push_write")
  /\ UNCHANGED <<queue_head, queue_tail, queue, seen, item, out, told>>

PushHasRoom ==
  /\ pc[Producer] = "push_load"
  /\ Increment(queue_tail) # queue_head
  /\ Goto(Producer, "push_write")
  /\ UNCHANGED <<queue_head, queue_tail, queue, seen, item, out, told>>

PushWrite ==
  /\ pc[Producer] = "push_write"
  /\ queue' = [queue EXCEPT ![queue_tail] = item]
  /\ Goto(Producer, "push_store")
  /\ UNCHANGED <<queue_head, queue_tail, seen, item, out, told>>

\* The slot is given to the consumer: push() returns true.
PushStore ==
  /\ pc[Producer] = "push_store"
  /\ queue_tail' = Increment(queue_tail)
  /\ Goto(Producer, "idle")
  /\ UNCHANGED <<queue_head, queue, seen, item, out, told>>
-----------------------------------------------------------------------------
(* pop() *)

PopCall ==
  /\ pc[Consumer] = "idle"
  /\ told' = [told EXCEPT ![Consumer] = "nothing"]
  /\ Goto(Consumer, "pop_load")
  /\ UNCHANGED <<queue_head, queue_tail, queue, seen, item, out>>

PopEmpty ==
  /\ pc[Consumer] = "pop_load"
  /\ queue_head = queue_tail
  /\ Goto(Consumer, "idle")
  /\ UNCHANGED <<queue_head, queue_tail, queue, seen, item, out, told>>

PopHasItem ==
  /\ pc[Consumer] = "pop_load"
  /\ queue_head # queue_tail
  /\ Goto(Consumer, "pop_read")
  /\ UNCHANGED <<queue_head, queue_tail, queue, seen, item, out, told>>

\* Mutation: the slot after the head is read.
PopReadNext ==
  /\ pc[Consumer] = "pop_read"
  /\ out' = queue[Increment(queue_head)]
  /\ Goto(Consumer, "pop_store")
  /\ UNCHANGED <<queue_head, queue_tail, queue, seen, item, told>>

PopRead ==
  /\ pc[Consumer] = "pop_read"
  /\ out' = queue[queue_head]
  /\ Goto(Consumer, "pop_store")
  /\ UNCHANGED <<queue_head, queue_tail, queue, seen, item, told>>

\* The slot is given back to the producer: pop() returns true.
PopStore ==
  /\ pc[Consumer] = "pop_store"
  /\ queue_head' = Increment(queue_head)
  /\ Goto(Consumer, "idle")
  /\ UNCHANGED <<queue_tail, queue, seen, item, out, told>>
-----------------------------------------------------------------------------
(* is_empty() and is_full().  C++ leaves open which operand of == is loaded *)
(* first; is_full() loads the tail in a statement of its own.              *)

IsEmptyCall(r) ==
  /\ pc[r] = "idle"
  /\ \/ /\ seen' = [seen EXCEPT ![r] = queue_head]
        /\ Goto(r, "empty_tail")
     \/ /\ seen' = [seen EXCEPT ![r] = queue_tail]
        /\ Goto(r, "empty_head")
  /\ UNCHANGED <<queue_head, queue_tail, queue, item, out, told>>

IsEmptyAnswer(r) ==
  /\ pc[r] \in {"empty_tail", "empty_head"}
  /\ LET other == IF pc[r] = "empty_tail" THEN queue_tail ELSE queue_head
     IN Answer(r, IF seen[r] = other THEN "empty" ELSE "not_empty")
  /\ UNCHANGED <<queue_head, queue_tail, queue, item, out>>

IsFullCall(r) ==
  /\ pc[r] = "idle"
  /\ seen' = [seen EXCEPT ![r] = Increment(queue_tail)]
  /\ Goto(r, "full_head")
  /\ UNCHANGED <<queue_head, queue_tail, queue, item, out, told>>

\* Mutation: the tail itself is compared, as in is_empty().
IsFullAnswerEmpty(r) ==
  /\ pc[r] = "full_head"
  /\ Answer(r, IF queue_tail = queue_head THEN "full" ELSE "not_full")
  /\ UNCHANGED <<queue_head, queue_tail, queue, item, out>>

IsFullAnswer(r) ==
  /\ pc[r] = "full_head"
  /\ Answer(r, IF seen[r] = queue_head THEN "full" ELSE "not_full")
  /\ UNCHANGED <<queue_head, queue_tail, queue, item, out>>
-----------------------------------------------------------------------------
Push == \/ \E v \in Value : PushCall(v)
        \/ PushFull \/ PushHasRoom \/ PushWrite \/ PushStore

Pop == PopCall \/ PopEmpty \/ PopHasItem \/ PopRead \/ PopStore

Query(r) == \/ IsEmptyCall(r)
            \/ IsEmptyAnswer(r)
            \/ IsFullCall(r)
            \/ IsFullAnswer(r)

Next == Push \/ Pop \/ \E r \in Role : Query(r)

Spec == Init /\ [][Next]_vars
-----------------------------------------------------------------------------
\* The values the variables take: each thread runs its own half of the code.
TypeOK ==
  /\ queue_head \in Slot
  /\ queue_tail \in Slot
  /\ queue \in [Slot -> Value \cup {NoValue}]
  /\ pc \in [Role -> {"idle", "push_load", "push_write", "push_store",
                      "pop_load", "pop_read", "pop_store",
                      "empty_tail", "empty_head", "full_head"}]
  /\ pc[Producer] \notin {"pop_load", "pop_read", "pop_store"}
  /\ pc[Consumer] \notin {"push_load", "push_write", "push_store"}
  /\ seen \in [Role -> Slot]
  /\ item \in Value \cup {NoValue}
  /\ out \in Value \cup {NoValue}
  /\ told \in [Role -> {"nothing", "empty", "not_empty", "full", "not_full"}]

\* push() writes and pop() reads a slot without a lock (49, 65): the check of
\* the other thread's index, stale as it may be, keeps them in different slots.
ExclusiveSlotAccess ==
  pc[Producer] = "push_write" /\ pc[Consumer] = "pop_read"
    => queue_head # queue_tail

\* What a thread is told stays true until it acts on it, although the other
\* thread goes on: a consumer told "not empty" (101) can pop, and a producer
\* told "not full" can push.
AnswersStay ==
  /\ told[Consumer] = "not_empty" => queue_head # queue_tail
  /\ told[Producer] = "not_full" => Increment(queue_tail) # queue_head
  /\ told[Producer] = "empty" => queue_head = queue_tail
  /\ told[Consumer] = "full" => Increment(queue_tail) = queue_head

(***************************************************************************)
(* Why it holds: each index is stored by one thread only, so that what the *)
(* other thread knows of it can become old in one direction only.          *)
(***************************************************************************)
PushHolds == pc[Producer] \in {"push_write", "push_store"} =>
               Increment(queue_tail) # queue_head
PopHolds == pc[Consumer] \in {"pop_read", "pop_store"} =>
              queue_head # queue_tail

\* The index loaded first in a query: the thread's own, which nobody moves, or
\* the other one's, which may have moved, but not past the thread's own.
QueriesHold ==
  /\ pc[Producer] = "full_head" => seen[Producer] = Increment(queue_tail)
  /\ pc[Producer] = "empty_head" => seen[Producer] = queue_tail
  /\ pc[Producer] = "empty_tail" /\ seen[Producer] = queue_tail =>
       queue_head = queue_tail
  /\ pc[Consumer] = "empty_tail" => seen[Consumer] = queue_head
  /\ pc[Consumer] = "empty_head" /\ seen[Consumer] # queue_head =>
       queue_head # queue_tail
  /\ pc[Consumer] = "full_head" /\ seen[Consumer] = queue_head =>
       Increment(queue_tail) = queue_head

\* push() and pop() forget the answers of earlier queries, and a slot that is
\* about to be handed over has been written.
CallsForget ==
  /\ pc[Producer] \in {"push_load", "push_write", "push_store"} =>
       told[Producer] = "nothing" /\ item \in Value
  /\ pc[Producer] = "push_store" => queue[queue_tail] = item
  /\ pc[Consumer] \in {"pop_load", "pop_read", "pop_store"} =>
       told[Consumer] = "nothing"

\* A check of the other thread's index (27, 47, 62) is old by the time it is
\* used (49, 65, or a later call), and still good enough: the inductive
\* invariant of the proofs.
RingInv == PushHolds /\ PopHolds /\ QueriesHold /\ CallsForget /\ AnswersStay

(***************************************************************************)
(* The queue a user sees: a value is in it from the store of the tail to   *)
(* the read of its slot.                                                   *)
(***************************************************************************)
Oldest == IF pc[Consumer] = "pop_store" THEN Increment(queue_head)
                                        ELSE queue_head
Length == ((queue_tail + QueueCapacity) - Oldest) % QueueCapacity

QueueItems == [i \in 1..Length |-> queue[(Oldest + (i - 1)) % QueueCapacity]]
QueueHand == [c \in {Consumer} |-> out]

FIFO == INSTANCE BoundedQueue WITH items <- QueueItems,
                                   hand <- QueueHand,
                                   Consumer <- {Consumer},
                                   Capacity <- Size

\* Whatever the interleaving, the queue is a FIFO of SIZE values: none is
\* lost, duplicated, overwritten or taken out of turn, and SIZE + 1 slots
\* never hold more than SIZE of them.
ImplementsQueue == FIFO!Spec
=============================================================================
