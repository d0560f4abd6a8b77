--------------------------- MODULE SPSCQueueProofs ---------------------------
(***************************************************************************)
(* Proofs about SPSCQueue, for every Size >= 1 and every set of values.    *)
(*                                                                         *)
(* RingInv is inductive (given TypeOK): each thread alone stores its own   *)
(* index, so that its check of the other's index can only err on the safe  *)
(* side.  Exclusive access and the answers of the queries are conjuncts    *)
(* of it or follow at once; the refinement of BoundedQueue follows from it *)
(* and from the lemmas on the window of the ring in the second part.  The  *)
(* last part is about the program of SPSCDriver, for any number of rounds. *)
(* (Its ASSUME says nothing of the queue's constants: Items may be 0.)     *)
(***************************************************************************)
EXTENDS SPSCDriver, SequenceTheorems, TLAPS
-----------------------------------------------------------------------------
(* How the window of the ring buffer, a function over 1..n, relates to the *)
(* sequence of BoundedQueue                                                *)

\* A function over 1..n is a sequence of n elements: the window of tickets of a
\* ring buffer, read from the oldest on, is the queue its user sees.
LEMMA FunctionIsSeq ==
  ASSUME NEW n \in Nat, NEW S, NEW s \in [1..n -> S]
  PROVE  s \in Seq(S) /\ Len(s) = n
<1>1. s \in Seq(S)
  BY SeqDef
<1>2. Len(s) \in Nat /\ DOMAIN s = 1..Len(s) /\ DOMAIN s = 1..n
  BY <1>1, LenProperties
<1> QED
  BY <1>1, <1>2

\* The sequence that starts one later is the tail: what is left in a ring
\* buffer when its oldest value has been taken.
LEMMA TailIs ==
  ASSUME NEW n \in Nat, n # 0, NEW S, NEW s \in [1..n -> S],
         NEW t \in [1..(n - 1) -> S], \A i \in 1..(n - 1) : t[i] = s[i + 1]
  PROVE  s # <<>> /\ Head(s) = s[1] /\ Tail(s) = t
<1>1. s \in Seq(S) /\ Len(s) = n
  BY FunctionIsSeq
<1>2. n - 1 \in Nat
  OBVIOUS
<1>3. t \in Seq(S) /\ Len(t) = n - 1
  BY <1>2, FunctionIsSeq
<1>4. s # <<>>
  BY <1>1
<1>5. /\ Tail(s) \in Seq(S) /\ Len(Tail(s)) = n - 1
      /\ \A i \in 1..(n - 1) : Tail(s)[i] = s[i + 1]
  BY <1>1, <1>4, HeadTailProperties
<1>6. Tail(s) = t
  BY <1>3, <1>5, SeqEqual
<1>7. Head(s) = s[1]
  BY <1>1, <1>4
<1> QED
  BY <1>4, <1>6, <1>7

\* The sequence that is longer by one is the old one with that value appended:
\* what is in a ring buffer when one more value has been put.
LEMMA AppendIs ==
  ASSUME NEW n \in Nat, NEW S, NEW s \in [1..n -> S], NEW v \in S,
         NEW t \in [1..(n + 1) -> S], \A i \in 1..n : t[i] = s[i], t[n + 1] = v
  PROVE  Len(s) = n /\ t = Append(s, v)
<1>1. s \in Seq(S) /\ Len(s) = n
  BY FunctionIsSeq
<1>2. n + 1 \in Nat
  OBVIOUS
<1>3. t \in Seq(S) /\ Len(t) = n + 1
  BY <1>2, FunctionIsSeq
<1>4. /\ Append(s, v) \in Seq(S) /\ Len(Append(s, v)) = n + 1
      /\ \A i \in 1..(n + 1) :
           Append(s, v)[i] = IF i = n + 1 THEN v ELSE s[i]
  BY <1>1
<1> QED
  BY <1>1, <1>3, <1>4, SeqEqual
-----------------------------------------------------------------------------
\* A number is its quotient and its remainder.
LEMMA Division ==
  ASSUME NEW N \in Nat, N >= 1, NEW a \in Int
  PROVE  /\ a \div N \in Int /\ a % N \in Nat /\ a % N < N
         /\ a = N * (a \div N) + (a % N)
OBVIOUS

\* An index of the ring is one of its slots (32, 49, 65), and adding less than
\* a lap wraps at most once.
LEMMA Wrap ==
  ASSUME NEW a \in 0..(2 * QueueCapacity - 1)
  PROVE  a % QueueCapacity = IF a <= Size THEN a ELSE a - QueueCapacity
<1> DEFINE c == QueueCapacity
<1>1. /\ c \in Nat /\ c >= 1 /\ c = Size + 1 /\ Size \in Nat
      /\ a \in Int /\ 0 <= a /\ a < 2 * c
  BY SizeAssumption DEF QueueCapacity
<1> HIDE DEF c
<1> DEFINE q == a \div c
<1> DEFINE r == a % c
<1>2. q \in Int /\ r \in Nat /\ r < c /\ a = c * q + r
  BY <1>1, Division
<1> HIDE DEF q, r
<1>3. q = 0 \/ q = 1
  BY <1>1, <1>2
<1>4. a = r \/ a = c + r
  BY <1>1, <1>2, <1>3
<1> QED
  BY <1>1, <1>2, <1>4 DEF r, c

\* The next index (32), without the remainder.
LEMMA IncrementIs ==
  ASSUME NEW i \in Slot
  PROVE  /\ Increment(i) = IF i = Size THEN 0 ELSE i + 1
         /\ Increment(i) \in Slot
<1>1. i + 1 \in 0..(2 * QueueCapacity - 1) /\ QueueCapacity = Size + 1
  BY SizeAssumption DEF Slot, QueueCapacity
<1>2. Increment(i) = IF i + 1 <= Size THEN i + 1 ELSE (i + 1) - QueueCapacity
  BY <1>1, Wrap DEF Increment
<1> QED
  BY <1>1, <1>2, SizeAssumption DEF Slot

\* Different slots have different next slots, and none is its own.
LEMMA IncrementDiffers ==
  ASSUME NEW i \in Slot, NEW j \in Slot
  PROVE  /\ Increment(i) = Increment(j) <=> i = j
         /\ Increment(i) # i
BY IncrementIs, SizeAssumption DEF Slot

\* The constructor's members are within their types.
LEMMA InitType == Init => TypeOK
BY SizeAssumption DEF Init, TypeOK, Slot, Role, Producer, Consumer

\* Every step of push(), pop(), is_empty() and is_full() keeps the types; the
\* remainder keeps the indices inside the ring (32).
LEMMA NextType == TypeOK /\ [Next]_vars => TypeOK'
<1> SUFFICES ASSUME TypeOK, [Next]_vars PROVE TypeOK'
  OBVIOUS
<1>0. /\ Producer \in Role /\ Consumer \in Role /\ Producer # Consumer
      /\ 0 \in Slot
      /\ \A i \in Slot : Increment(i) \in Slot
  BY IncrementIs, SizeAssumption DEF Role, Producer, Consumer, Slot
<1>1. CASE Push
  BY <1>0, <1>1 DEF TypeOK, Push, PushCall, PushFull, PushHasRoom, PushWrite,
     PushStore, Goto
<1>2. CASE Pop
  BY <1>0, <1>2 DEF TypeOK, Pop, PopCall, PopEmpty, PopHasItem, PopRead,
     PopStore, Goto
<1>3. ASSUME NEW r \in Role, Query(r) PROVE TypeOK'
  <2>1. CASE IsEmptyCall(r)
    BY <1>0, <2>1 DEF TypeOK, IsEmptyCall, Goto
  <2>2. CASE IsEmptyAnswer(r)
    <3>1. PICK a \in {"empty", "not_empty", "full", "not_full"} : Answer(r, a)
      BY <2>2 DEF IsEmptyAnswer
    <3>2. told' \in [Role -> {"nothing", "empty", "not_empty", "full",
                              "not_full"}]
      BY <3>1 DEF TypeOK, Answer
    <3>3. seen' \in [Role -> Slot]
      BY <1>0, <3>1 DEF TypeOK, Answer
    <3> QED
      BY <1>0, <2>2, <3>1, <3>2, <3>3 DEF TypeOK, IsEmptyAnswer, Answer, Goto
  <2>3. CASE IsFullCall(r)
    BY <1>0, <2>3 DEF TypeOK, IsFullCall, Goto
  <2>4. CASE IsFullAnswer(r)
    <3>1. PICK a \in {"empty", "not_empty", "full", "not_full"} : Answer(r, a)
      BY <2>4 DEF IsFullAnswer
    <3>2. told' \in [Role -> {"nothing", "empty", "not_empty", "full",
                              "not_full"}]
      BY <3>1 DEF TypeOK, Answer
    <3>3. seen' \in [Role -> Slot]
      BY <1>0, <3>1 DEF TypeOK, Answer
    <3> QED
      BY <1>0, <2>4, <3>1, <3>2, <3>3 DEF TypeOK, IsFullAnswer, Answer, Goto
  <2> QED
    BY <1>3, <2>1, <2>2, <2>3, <2>4 DEF Query
<1>4. CASE UNCHANGED vars
  BY <1>4 DEF TypeOK, vars
<1> QED
  BY <1>1, <1>2, <1>3, <1>4 DEF Next

\* Indices stay within the ring and each thread within its half of the code.
THEOREM TypeCorrect == Spec => []TypeOK
BY InitType, NextType, PTL DEF Spec

\* No call is in progress and nothing has been told at the start.
LEMMA InitRing == Init => RingInv
BY DEF Init, RingInv, PushHolds, PopHolds, QueriesHold, CallsForget,
   AnswersStay, Role, Producer, Consumer

\* push() (44-53): only the last store moves an index, away from "empty".
LEMMA PushRing ==
  ASSUME TypeOK, RingInv, Push
  PROVE  RingInv'
<1> USE DEF RingInv, PushHolds, PopHolds, QueriesHold, CallsForget, AnswersStay
<1>0. /\ Producer \in Role /\ Consumer \in Role /\ Producer # Consumer
      /\ queue_head \in Slot /\ queue_tail \in Slot
      /\ \A i \in Slot : Increment(i) \in Slot /\ Increment(i) # i
      /\ \A i, j \in Slot : Increment(i) = Increment(j) => i = j
  BY IncrementIs, IncrementDiffers DEF Role, Producer, Consumer, TypeOK
<1>1. ASSUME NEW v \in Value, PushCall(v) PROVE RingInv'
  BY <1>0, <1>1 DEF TypeOK, PushCall, Goto
<1>2. CASE PushFull
  BY <1>0, <1>2 DEF TypeOK, PushFull, Goto
<1>3. CASE PushHasRoom
  BY <1>0, <1>3 DEF TypeOK, PushHasRoom, Goto
<1>4. CASE PushWrite
  BY <1>0, <1>4 DEF TypeOK, PushWrite, Goto
<1>5. CASE PushStore
  BY <1>0, <1>5 DEF TypeOK, PushStore, Goto
<1> QED
  BY <1>1, <1>2, <1>3, <1>4, <1>5 DEF Push

\* pop() (59-69): only the last store moves an index, away from "full".
LEMMA PopRing ==
  ASSUME TypeOK, RingInv, Pop
  PROVE  RingInv'
<1> USE DEF RingInv, PushHolds, PopHolds, QueriesHold, CallsForget, AnswersStay
<1>0. /\ Producer \in Role /\ Consumer \in Role /\ Producer # Consumer
      /\ queue_head \in Slot /\ queue_tail \in Slot
      /\ \A i \in Slot : Increment(i) \in Slot /\ Increment(i) # i
      /\ \A i, j \in Slot : Increment(i) = Increment(j) => i = j
  BY IncrementIs, IncrementDiffers DEF Role, Producer, Consumer, TypeOK
<1>1. CASE PopCall
  BY <1>0, <1>1 DEF TypeOK, PopCall, Goto
<1>2. CASE PopEmpty
  BY <1>0, <1>2 DEF TypeOK, PopEmpty, Goto
<1>3. CASE PopHasItem
  BY <1>0, <1>3 DEF TypeOK, PopHasItem, Goto
<1>4. CASE PopRead
  BY <1>0, <1>4 DEF TypeOK, PopRead, Goto
<1>5. CASE PopStore
  BY <1>0, <1>5 DEF TypeOK, PopStore, Goto
<1> QED
  BY <1>1, <1>2, <1>3, <1>4, <1>5 DEF Pop

\* is_empty() and is_full() (20-28): two loads, one of them of the caller's own
\* index, so that what they answer can be late but never wrong for the caller.
LEMMA QueryRing ==
  ASSUME TypeOK, RingInv, NEW r \in Role, Query(r)
  PROVE  RingInv'
<1> USE DEF RingInv, PushHolds, PopHolds, QueriesHold, CallsForget, AnswersStay
<1>0. /\ Producer \in Role /\ Consumer \in Role /\ Producer # Consumer
      /\ r = Producer \/ r = Consumer
      /\ queue_head \in Slot /\ queue_tail \in Slot
      /\ \A i \in Slot : Increment(i) \in Slot /\ Increment(i) # i
      /\ \A i, j \in Slot : Increment(i) = Increment(j) => i = j
  BY IncrementIs, IncrementDiffers DEF Role, Producer, Consumer, TypeOK
<1>1. CASE IsEmptyCall(r)
  BY <1>0, <1>1 DEF TypeOK, IsEmptyCall, Goto
<1>2. CASE IsEmptyAnswer(r)
  BY <1>0, <1>2 DEF TypeOK, IsEmptyAnswer, Answer, Goto
<1>3. CASE IsFullCall(r)
  BY <1>0, <1>3 DEF TypeOK, IsFullCall, Goto
<1>4. CASE IsFullAnswer(r)
  BY <1>0, <1>4 DEF TypeOK, IsFullAnswer, Answer, Goto
<1> QED
  BY <1>1, <1>2, <1>3, <1>4 DEF Query

\* No step of either thread spoils what a check has shown.
LEMMA RingNext == TypeOK /\ RingInv /\ [Next]_vars => RingInv'
<1> SUFFICES ASSUME TypeOK, RingInv, [Next]_vars PROVE RingInv'
  OBVIOUS
<1>1. CASE UNCHANGED vars
  BY <1>1 DEF vars, RingInv, PushHolds, PopHolds, QueriesHold, CallsForget,
     AnswersStay
<1> QED
  BY <1>1, PushRing, PopRing, QueryRing DEF Next

\* The checks of push(), pop() and the queries still hold when they are used.
THEOREM RingInvariant == Spec => []RingInv
BY InitRing, TypeCorrect, RingNext, PTL DEF Spec

\* No slot is written by push() (49) while pop() reads it (65).
THEOREM ExclusiveAccess == Spec => []ExclusiveSlotAccess
<1>1. RingInv => ExclusiveSlotAccess
  BY DEF RingInv, PopHolds, ExclusiveSlotAccess
<1> QED
  BY <1>1, RingInvariant, PTL

\* What is_empty() and is_full() tell a thread stays true for it.
THEOREM AnswersStayTrue == Spec => []AnswersStay
<1>1. RingInv => AnswersStay
  BY DEF RingInv
<1> QED
  BY <1>1, RingInvariant, PTL
-----------------------------------------------------------------------------
(***************************************************************************)
(* The refinement.  Window(q, t, o) is what the slots q hold from slot o   *)
(* up to slot t, the oldest first, without the remainders of the code.     *)
(***************************************************************************)
Distance(t, o) == IF t >= o THEN t - o ELSE (t - o) + QueueCapacity
SlotAt(o, i) == IF o + i <= QueueCapacity THEN (o + i) - 1
                                          ELSE ((o + i) - 1) - QueueCapacity
Window(q, t, o) == [i \in 1..Distance(t, o) |-> q[SlotAt(o, i)]]

\* Sizes and places in the ring stay within it.
LEMMA WindowFits ==
  ASSUME NEW t \in Slot, NEW o \in Slot
  PROVE  /\ Distance(t, o) \in 0..Size
         /\ Distance(t, o) = 0 <=> t = o
         /\ \A i \in 1..QueueCapacity : SlotAt(o, i) \in Slot
         /\ \A i \in 1..Distance(t, o) : SlotAt(o, i) # t
BY SizeAssumption DEF Slot, Distance, SlotAt, QueueCapacity

\* What the refinement mapping computes with % is the window.
LEMMA RemainderWindow ==
  ASSUME NEW q, NEW t \in Slot, NEW o \in Slot
  PROVE  [i \in 1..(((t + QueueCapacity) - o) % QueueCapacity)
             |-> q[(o + (i - 1)) % QueueCapacity]] = Window(q, t, o)
<1>0. t \in 0..Size /\ o \in 0..Size /\ QueueCapacity = Size + 1
      /\ Size \in Nat
  BY SizeAssumption DEF Slot, QueueCapacity
<1>1. ((t + QueueCapacity) - o) % QueueCapacity = Distance(t, o)
  <2> DEFINE a == (t + QueueCapacity) - o
  <2>1. a \in 0..(2 * QueueCapacity - 1)
    BY <1>0
  <2>2. a % QueueCapacity = IF a <= Size THEN a ELSE a - QueueCapacity
    <3> HIDE DEF a
    <3> QED
      BY <2>1, Wrap
  <2>3. (IF a <= Size THEN a ELSE a - QueueCapacity) = Distance(t, o)
    BY <1>0 DEF Distance
  <2> QED
    BY <2>2, <2>3
<1>2. ASSUME NEW i \in 1..Distance(t, o)
      PROVE  (o + (i - 1)) % QueueCapacity = SlotAt(o, i)
  <2>1. i \in 1..Size
    BY <1>0, WindowFits
  <2> DEFINE a == o + (i - 1)
  <2>2. a \in 0..(2 * QueueCapacity - 1)
    BY <1>0, <2>1
  <2>3. a % QueueCapacity = IF a <= Size THEN a ELSE a - QueueCapacity
    <3> HIDE DEF a
    <3> QED
      BY <2>2, Wrap
  <2>4. (IF a <= Size THEN a ELSE a - QueueCapacity) = SlotAt(o, i)
    BY <1>0, <2>1 DEF SlotAt
  <2> QED
    BY <2>3, <2>4
<1> QED
  BY <1>1, <1>2 DEF Window

\* When the tail moves on (50), the value in its slot is appended.
LEMMA WindowAppend ==
  ASSUME NEW S, NEW q \in [Slot -> S], NEW t \in Slot, NEW o \in Slot,
         Increment(t) # o
  PROVE  /\ Len(Window(q, t, o)) < Size
         /\ Window(q, Increment(t), o) = Append(Window(q, t, o), q[t])
<1> DEFINE n == Distance(t, o)
<1>0. t \in 0..Size /\ o \in 0..Size /\ QueueCapacity = Size + 1
      /\ Size \in Nat /\ Increment(t) \in Slot
  BY SizeAssumption, IncrementIs DEF Slot, QueueCapacity
<1>1. n \in Nat /\ n < Size /\ Distance(Increment(t), o) = n + 1
  BY <1>0, IncrementIs DEF Distance
<1>2. SlotAt(o, n + 1) = t
  BY <1>0 DEF SlotAt, Distance
<1>3. \A i \in 1..(n + 1) : SlotAt(o, i) \in Slot
  BY <1>0, <1>1, WindowFits
<1>4. /\ Window(q, t, o) \in [1..n -> S]
      /\ Window(q, Increment(t), o) \in [1..(n + 1) -> S]
      /\ \A i \in 1..n : Window(q, Increment(t), o)[i] = Window(q, t, o)[i]
      /\ Window(q, Increment(t), o)[n + 1] = q[t]
      /\ q[t] \in S
  <2> HIDE DEF n
  <2> QED
    BY <1>1, <1>2, <1>3 DEF Window, n
<1> QED
  <2> HIDE DEF n
  <2> QED
    BY <1>1, <1>4, AppendIs

\* When the slot at the oldest place is read (65), the window begins one later.
LEMMA WindowTail ==
  ASSUME NEW S, NEW q \in [Slot -> S], NEW t \in Slot, NEW o \in Slot, o # t
  PROVE  /\ Window(q, t, o) # <<>>
         /\ Head(Window(q, t, o)) = q[o]
         /\ Window(q, t, Increment(o)) = Tail(Window(q, t, o))
<1> DEFINE n == Distance(t, o)
<1>0. t \in 0..Size /\ o \in 0..Size /\ QueueCapacity = Size + 1
      /\ Size \in Nat /\ Increment(o) \in Slot
  BY SizeAssumption, IncrementIs DEF Slot, QueueCapacity
<1>1. n \in Nat /\ n # 0 /\ n <= Size /\ Distance(t, Increment(o)) = n - 1
  BY <1>0, IncrementIs DEF Distance
<1>2. SlotAt(o, 1) = o
  BY <1>0 DEF SlotAt
<1>3. \A i \in 1..n : SlotAt(o, i) \in Slot
  BY <1>0, <1>1, WindowFits
<1>4. ASSUME NEW i \in 1..(n - 1)
      PROVE  SlotAt(Increment(o), i) = SlotAt(o, i + 1) /\ i + 1 \in 1..n
  BY <1>0, <1>1, IncrementIs DEF SlotAt
<1>5. /\ Window(q, t, o) \in [1..n -> S]
      /\ Window(q, t, Increment(o)) \in [1..(n - 1) -> S]
      /\ \A i \in 1..(n - 1) :
           Window(q, t, Increment(o))[i] = Window(q, t, o)[i + 1]
      /\ Window(q, t, o)[1] = q[o]
  <2> HIDE DEF n
  <2> QED
    BY <1>1, <1>2, <1>3, <1>4 DEF Window, n
<1> QED
  <2> HIDE DEF n
  <2> QED
    BY <1>1, <1>5, TailIs

\* The slot at the tail is outside of the window.
LEMMA WindowIgnoresTail ==
  ASSUME NEW S, NEW q \in [Slot -> S], NEW t \in Slot, NEW o \in Slot, NEW v
  PROVE  Window([q EXCEPT ![t] = v], t, o) = Window(q, t, o)
<1>1. \A i \in 1..Distance(t, o) : SlotAt(o, i) # t
  BY WindowFits
<1> QED
  BY <1>1 DEF Window

\* What the refinement mapping reads, before and after a step.
LEMMA ItemsAreWindow ==
  ASSUME TypeOK
  PROVE  /\ Oldest \in Slot
         /\ QueueItems = Window(queue, queue_tail, Oldest)
<1>1. Oldest \in Slot /\ queue_tail \in Slot
  BY IncrementIs DEF TypeOK, Oldest
<1> QED
  BY <1>1, RemainderWindow DEF QueueItems, Length

\* The same, of the state after a step.
LEMMA ItemsAreWindowNext ==
  ASSUME TypeOK'
  PROVE  /\ Oldest' \in Slot
         /\ QueueItems' = Window(queue', queue_tail', Oldest')
<1>1. Oldest' \in Slot /\ queue_tail' \in Slot
  BY IncrementIs DEF TypeOK, Oldest
<1> QED
  BY <1>1, RemainderWindow DEF QueueItems, Length

\* An empty queue and no value held, when the constructor is done.
LEMMA InitRefines == Init => FIFO!Init
<1> SUFFICES ASSUME Init PROVE FIFO!Init
  OBVIOUS
<1>1. QueueItems = Window(queue, 0, 0) /\ 0 \in Slot
  <2>1. queue_tail = 0 /\ Oldest = 0 /\ TypeOK
    BY InitType DEF Init, Oldest, Role
  <2> QED
    BY <2>1, ItemsAreWindow
<1>2. Distance(0, 0) = 0
  BY <1>1, WindowFits
<1>3. QueueItems = <<>>
  BY <1>1, <1>2 DEF Window
<1>4. QueueHand = [c \in {Consumer} |-> NoValue]
  BY DEF Init, QueueHand
<1> QED
  BY <1>3, <1>4 DEF FIFO!Init

\* The store of the tail (50) is what puts the value in the queue.
LEMMA PushStorePuts ==
  ASSUME TypeOK, TypeOK', RingInv, PushStore
  PROVE  FIFO!Put(item) /\ item \in Value
<1>1. /\ Increment(queue_tail) # Oldest /\ queue[queue_tail] = item
      /\ item \in Value
  BY IncrementDiffers DEF RingInv, PushHolds, PopHolds, CallsForget, TypeOK,
     PushStore, Oldest
<1>2. /\ queue' = queue /\ out' = out /\ Oldest' = Oldest
      /\ queue_tail' = Increment(queue_tail)
  BY DEF PushStore, Goto, Oldest, TypeOK, Producer, Consumer, Role
<1>3. /\ Len(QueueItems) < Size
      /\ QueueItems' = Append(QueueItems, item)
  <2> DEFINE W == Window(queue, queue_tail, Oldest)
  <2>1. /\ queue \in [Slot -> Value \cup {NoValue}]
        /\ queue_tail \in Slot /\ Oldest \in Slot /\ QueueItems = W
    BY ItemsAreWindow DEF TypeOK
  <2>2. /\ Len(W) < Size
        /\ Window(queue, Increment(queue_tail), Oldest)
             = Append(W, queue[queue_tail])
    BY <1>1, <2>1, WindowAppend
  <2>3. QueueItems' = Window(queue, Increment(queue_tail), Oldest)
    BY <1>2, ItemsAreWindowNext
  <2> QED
    BY <1>1, <2>1, <2>2, <2>3
<1> QED
  BY <1>1, <1>2, <1>3 DEF FIFO!Put, QueueHand

\* The read of the slot (65) is what takes the value: the oldest.
LEMMA PopReadTakes ==
  ASSUME TypeOK, TypeOK', RingInv, PopRead
  PROVE  FIFO!Take(Consumer)
<1>1. Oldest = queue_head /\ queue_head # queue_tail
  BY DEF RingInv, PopHolds, PopRead, Oldest
<1>2. /\ queue' = queue /\ queue_tail' = queue_tail /\ out' = queue[queue_head]
      /\ Oldest' = Increment(queue_head)
  BY DEF PopRead, Goto, Oldest, TypeOK, Producer, Consumer, Role
<1>3. /\ QueueItems # <<>> /\ Head(QueueItems) = queue[queue_head]
      /\ QueueItems' = Tail(QueueItems)
  <2> DEFINE W == Window(queue, queue_tail, queue_head)
  <2>1. /\ queue \in [Slot -> Value \cup {NoValue}]
        /\ queue_tail \in Slot /\ queue_head \in Slot /\ QueueItems = W
    BY <1>1, ItemsAreWindow DEF TypeOK
  <2>2. /\ W # <<>> /\ Head(W) = queue[queue_head]
        /\ Window(queue, queue_tail, Increment(queue_head)) = Tail(W)
    BY <1>1, <2>1, WindowTail
  <2>3. QueueItems' = Window(queue, queue_tail, Increment(queue_head))
    BY <1>2, ItemsAreWindowNext
  <2> QED
    BY <2>1, <2>2, <2>3
<1>4. QueueHand' = [QueueHand EXCEPT ![Consumer] = Head(QueueItems)]
  BY <1>2, <1>3 DEF QueueHand
<1> QED
  BY <1>3, <1>4 DEF FIFO!Take

\* Every other step leaves the queue as its users see it.
LEMMA OthersKeepQueue ==
  ASSUME TypeOK, TypeOK', RingInv,
         \/ \E v \in Value : PushCall(v)
         \/ PushFull \/ PushHasRoom \/ PushWrite
         \/ PopCall \/ PopEmpty \/ PopHasItem \/ PopStore
         \/ \E r \in Role : Query(r)
         \/ UNCHANGED vars
  PROVE  UNCHANGED <<QueueItems, QueueHand>>
<1>1. CASE PushWrite
  <2>1. /\ queue' = [queue EXCEPT ![queue_tail] = item]
        /\ queue_tail' = queue_tail /\ out' = out /\ Oldest' = Oldest
    BY <1>1 DEF PushWrite, Goto, Oldest, TypeOK, Producer, Consumer, Role
  <2>2. /\ queue \in [Slot -> Value \cup {NoValue}]
        /\ queue_tail \in Slot /\ Oldest \in Slot
        /\ QueueItems = Window(queue, queue_tail, Oldest)
    BY ItemsAreWindow DEF TypeOK
  <2>3. QueueItems' = Window([queue EXCEPT ![queue_tail] = item], queue_tail,
                             Oldest)
    BY <2>1, ItemsAreWindowNext
  <2>4. QueueItems' = QueueItems
    BY <2>2, <2>3, WindowIgnoresTail
  <2> QED
    BY <2>1, <2>4 DEF QueueHand
<1>2. CASE ~ PushWrite
  <2>1. queue' = queue /\ queue_tail' = queue_tail /\ out' = out
    BY <1>2 DEF PushCall, PushFull, PushHasRoom, PopCall, PopEmpty, PopHasItem,
       PopStore, Query, IsEmptyCall, IsEmptyAnswer, IsFullCall, IsFullAnswer,
       vars
  <2>2. Oldest' = Oldest
    <3>0. Producer \in Role /\ Consumer \in Role /\ Producer # Consumer
      BY DEF Role, Producer, Consumer
    <3>1. CASE \E v \in Value : PushCall(v)
      BY <3>0, <3>1 DEF PushCall, Goto, Oldest, TypeOK
    <3>2. CASE PushFull \/ PushHasRoom
      BY <3>0, <3>2 DEF PushFull, PushHasRoom, Goto, Oldest, TypeOK
    <3>3. CASE PopCall \/ PopEmpty \/ PopHasItem \/ PopStore
      BY <3>0, <3>3 DEF PopCall, PopEmpty, PopHasItem, PopStore, Goto, Oldest,
         TypeOK
    <3>4. ASSUME NEW r \in Role, Query(r) PROVE Oldest' = Oldest
      <4>1. /\ pc[r] # "pop_store" /\ pc'[r] # "pop_store"
            /\ \A s \in Role \ {r} : pc'[s] = pc[s]
            /\ queue_head' = queue_head
        BY <3>4 DEF Query, IsEmptyCall, IsEmptyAnswer, IsFullCall,
           IsFullAnswer, Answer, Goto, TypeOK
      <4> QED
        BY <3>0, <4>1 DEF Oldest
    <3>5. CASE UNCHANGED vars
      BY <3>5 DEF vars, Oldest
    <3> QED
      BY <1>2, <3>1, <3>2, <3>3, <3>4, <3>5
  <2> QED
    BY <2>1, <2>2, ItemsAreWindow, ItemsAreWindowNext DEF QueueHand
<1> QED
  BY <1>1, <1>2

\* Whatever the interleaving, the two threads see one FIFO of SIZE values.
THEOREM FIFORefinement == Spec => ImplementsQueue
<1>1. Init => FIFO!Init
  BY InitRefines
<1>2. ASSUME TypeOK, RingInv, TypeOK', [Next]_vars
      PROVE  [FIFO!Next]_<<QueueItems, QueueHand>>
  <2>1. CASE PushStore
    BY <1>2, <2>1, PushStorePuts DEF FIFO!Next
  <2>2. CASE PopRead
    BY <1>2, <2>2, PopReadTakes DEF FIFO!Next
  <2>3. CASE ~ PushStore /\ ~ PopRead
    BY <1>2, <2>3, OthersKeepQueue DEF Next, Push, Pop
  <2> QED
    BY <2>1, <2>2, <2>3
<1> QED
  BY <1>1, <1>2, TypeCorrect, RingInvariant, PTL
     DEF Spec, ImplementsQueue, FIFO!Spec
-----------------------------------------------------------------------------
(* The program: the numbers that are displayed, the one that pop() is about *)
(* to return and those in the queue are one rising sequence of numbers that *)
(* have been pushed.                                                        *)

\* The loops stay within their rounds, and push() has the number of its round.
RoundInv ==
  /\ pushing \in 1..(Items + 1)
  /\ shown \in Seq(Nat)
  /\ pc[Producer] \in {"push_load", "push_write", "push_store"} =>
       item = pushing

\* The answer "not empty" (101) is still true when pop() loads the indices (62).
PopFinds == pc[Consumer] = "pop_load" => queue_head # queue_tail

RisingInv ==
  /\ \A i \in 1..Len(QueueItems) : QueueItems[i] \in 1..(pushing - 1)
  /\ \A i, j \in 1..Len(QueueItems) : i < j => QueueItems[i] < QueueItems[j]
  /\ \A i \in 1..Len(shown) : shown[i] \in 1..(pushing - 1)
  /\ \A i, j \in 1..Len(shown) : i < j => shown[i] < shown[j]
  /\ \A i \in 1..Len(shown), j \in 1..Len(QueueItems) :
       shown[i] < QueueItems[j]
  /\ pc[Consumer] = "pop_store" =>
       /\ out \in 1..(pushing - 1)
       /\ \A i \in 1..Len(shown) : shown[i] < out
       /\ \A j \in 1..Len(QueueItems) : out < QueueItems[j]

\* The numbers of the rounds are values of the queue, which is used by one
\* thread at each end: each step of the program is one of the queue's, or none.
LEMMA DriverStep == RoundInv /\ [DriverNext]_driverVars => [Next]_vars
<1> SUFFICES ASSUME RoundInv, [DriverNext]_driverVars PROVE [Next]_vars
  OBVIOUS
<1>1. CASE PushRound
  <2>1. pushing \in Value
    BY <1>1, ItemsAssumption DEF RoundInv, PushRound
  <2> QED
    BY <1>1, <2>1 DEF PushRound, Next, Push
<1>2. CASE PopRound
  BY <1>2 DEF PopRound, TestEmpty, PopOne, Display, Next, Pop, Query, Role
<1>3. CASE UNCHANGED driverVars
  BY <1>3 DEF driverVars
<1> QED
  BY <1>1, <1>2, <1>3 DEF DriverNext

\* A round ends with the return of push(), and displays a number.
LEMMA RoundNext ==
  TypeOK /\ RoundInv /\ RisingInv /\ PopFinds /\ [DriverNext]_driverVars
    => RoundInv'
<1> SUFFICES ASSUME TypeOK, RoundInv, RisingInv, PopFinds,
                    [DriverNext]_driverVars
             PROVE  RoundInv'
  OBVIOUS
<1>0. /\ Producer \in Role /\ Consumer \in Role /\ Producer # Consumer
      /\ Items \in Nat /\ pushing \in 1..(Items + 1) /\ pushing \in Nat
  BY ItemsAssumption DEF Role, Producer, Consumer, RoundInv
<1>1. CASE PushRound
  <2>1. pushing <= Items /\ UNCHANGED shown
    BY <1>1 DEF PushRound
  <2>2. CASE PushCall(pushing) /\ UNCHANGED <<pushing, failed>>
    BY <1>0, <2>1, <2>2 DEF PushCall, Goto, RoundInv, TypeOK
  <2>3. CASE (PushHasRoom \/ PushWrite) /\ UNCHANGED <<pushing, failed>>
    BY <1>0, <2>1, <2>3 DEF PushHasRoom, PushWrite, Goto, RoundInv, TypeOK
  <2>4. CASE (PushFull \/ PushStore) /\ pushing' = pushing + 1
    <3>1. pc'[Producer] = "idle"
      BY <1>0, <2>4 DEF PushFull, PushStore, Goto, TypeOK
    <3> QED
      BY <1>0, <2>1, <2>4, <3>1 DEF RoundInv
  <2> QED
    BY <1>1, <2>2, <2>3, <2>4 DEF PushRound
<1>2. CASE PopRound
  <2>1. /\ UNCHANGED <<pushing, item>> /\ pc'[Producer] = pc[Producer]
    BY <1>0, <1>2 DEF PopRound, TestEmpty, PopOne, Display, IsEmptyCall,
       IsEmptyAnswer, Answer, PopCall, PopHasItem, PopRead, PopEmpty,
       PopStore, Goto, TypeOK
  <2>2. shown' \in Seq(Nat)
    <3>1. CASE Display
      <4>1. pc[Consumer] = "pop_store" => out \in Nat
        BY <1>0 DEF RisingInv
      <4>2. (IF pc[Consumer] = "pop_store" THEN out ELSE 0) \in Nat
        BY <4>1
      <4> QED
        BY <3>1, <4>2, AppendProperties DEF Display, RoundInv
    <3>2. CASE shown' = shown
      BY <3>2 DEF RoundInv
    <3> QED
      BY <1>2, <3>1, <3>2 DEF PopRound, TestEmpty, PopOne
  <2> QED
    BY <2>1, <2>2 DEF RoundInv
<1>3. CASE UNCHANGED driverVars
  BY <1>3 DEF driverVars, vars, RoundInv
<1> QED
  BY <1>1, <1>2, <1>3 DEF DriverNext

\* Only pop() takes from the queue: what is_empty() said is still so.
LEMMA FindsNext ==
  TypeOK /\ RingInv /\ PopFinds /\ [DriverNext]_driverVars => PopFinds'
<1> SUFFICES ASSUME TypeOK, RingInv, PopFinds, [DriverNext]_driverVars
             PROVE  PopFinds'
  OBVIOUS
<1>0. Producer \in Role /\ Consumer \in Role /\ Producer # Consumer
  BY DEF Role, Producer, Consumer
<1>1. CASE PushRound
  <2>1. pc'[Consumer] = pc[Consumer] /\ queue_head' = queue_head
    BY <1>0, <1>1 DEF PushRound, PushCall, PushHasRoom, PushWrite, PushFull,
       PushStore, Goto, TypeOK
  <2>2. CASE PushStore
    BY <2>1, <2>2 DEF PushStore, PopFinds, RingInv, PushHolds
  <2>3. CASE ~ PushStore
    <3>1. queue_tail' = queue_tail
      BY <1>1, <2>3 DEF PushRound, PushCall, PushHasRoom, PushWrite, PushFull
    <3> QED
      BY <2>1, <3>1 DEF PopFinds
  <2> QED
    BY <2>2, <2>3
<1>2. CASE PopRound
  <2>1. CASE told[Consumer] = "not_empty" /\ PopCall
    <3>1. queue_head # queue_tail
      BY <2>1 DEF RingInv, AnswersStay
    <3> QED
      BY <2>1, <3>1 DEF PopCall, PopFinds
  <2>2. CASE \/ IsEmptyCall(Consumer) \/ IsEmptyAnswer(Consumer)
             \/ PopHasItem \/ PopRead \/ PopEmpty \/ PopStore
    <3>1. pc'[Consumer] # "pop_load"
      BY <1>0, <2>2 DEF IsEmptyCall, IsEmptyAnswer, Answer, PopHasItem,
         PopRead, PopEmpty, PopStore, Goto, TypeOK
    <3> QED
      BY <3>1 DEF PopFinds
  <2> QED
    BY <1>2, <2>1, <2>2 DEF PopRound, TestEmpty, PopOne, Display
<1>3. CASE UNCHANGED driverVars
  BY <1>3 DEF driverVars, vars, PopFinds
<1> QED
  BY <1>1, <1>2, <1>3 DEF DriverNext

\* What a user sees in the queue is a sequence.
LEMMA ItemsAreSeq ==
  ASSUME TypeOK
  PROVE  /\ QueueItems \in Seq(Value \cup {NoValue})
         /\ Len(QueueItems) \in Nat
<1>1. /\ Oldest \in Slot /\ queue_tail \in Slot
      /\ QueueItems = Window(queue, queue_tail, Oldest)
  BY ItemsAreWindow DEF TypeOK
<1>2. /\ Distance(queue_tail, Oldest) \in 0..Size
      /\ \A i \in 1..QueueCapacity : SlotAt(Oldest, i) \in Slot
  BY <1>1, WindowFits
<1>3. \A i \in 1..Distance(queue_tail, Oldest) : SlotAt(Oldest, i) \in Slot
  BY <1>2, SizeAssumption DEF QueueCapacity
<1>4. QueueItems \in [1..Distance(queue_tail, Oldest) -> Value \cup {NoValue}]
  BY <1>1, <1>3 DEF Window, TypeOK
<1>5. Distance(queue_tail, Oldest) \in Nat
  BY <1>2, SizeAssumption
<1> QED
  BY <1>4, <1>5, FunctionIsSeq

\* A push puts the number of its round behind all the others.
LEMMA RisingPut ==
  ASSUME TypeOK, TypeOK', RingInv, RoundInv, RisingInv, PushRound, PushStore
  PROVE  RisingInv'
<1>1. /\ Producer \in Role /\ Consumer \in Role /\ Producer # Consumer
  BY DEF Role, Producer, Consumer
<1>2. /\ QueueItems' = Append(QueueItems, pushing)
      /\ pushing \in Value \cup {NoValue}
  BY PushStorePuts DEF FIFO!Put, RoundInv, PushStore
<1>3. /\ pushing \in Nat /\ pushing >= 1 /\ pushing' = pushing + 1
      /\ UNCHANGED <<shown, out>> /\ pc'[Consumer] = pc[Consumer]
  BY <1>1 DEF PushRound, PushStore, PushCall, PushHasRoom, PushWrite, PushFull,
     Goto, RoundInv, TypeOK
<1>4. /\ Len(QueueItems) \in Nat /\ Len(QueueItems') = Len(QueueItems) + 1
      /\ \A i \in 1..Len(QueueItems) : QueueItems'[i] = QueueItems[i]
      /\ QueueItems'[Len(QueueItems) + 1] = pushing
  BY <1>2, ItemsAreSeq, AppendProperties
<1> HIDE DEF QueueItems
<1>5. \A j \in 1..Len(QueueItems') :
        \/ j \in 1..Len(QueueItems) /\ QueueItems'[j] = QueueItems[j]
        \/ j = Len(QueueItems) + 1 /\ QueueItems'[j] = pushing
  BY <1>4
<1>6. \A i \in 1..Len(QueueItems') : QueueItems'[i] \in 1..(pushing' - 1)
  BY <1>3, <1>5 DEF RisingInv
<1>7. \A i, j \in 1..Len(QueueItems') : i < j => QueueItems'[i] < QueueItems'[j]
  BY <1>3, <1>4, <1>5 DEF RisingInv
<1>8. \A i \in 1..Len(shown) :
        shown[i] \in 1..(pushing' - 1) /\ shown[i] < pushing
  BY <1>3 DEF RisingInv
<1>9. \A i \in 1..Len(shown), j \in 1..Len(QueueItems') :
        shown[i] < QueueItems'[j]
  BY <1>5, <1>8 DEF RisingInv
<1>10. pc[Consumer] = "pop_store" =>
         /\ out \in 1..(pushing' - 1)
         /\ \A i \in 1..Len(shown) : shown[i] < out
         /\ \A j \in 1..Len(QueueItems') : out < QueueItems'[j]
  BY <1>3, <1>5 DEF RisingInv
<1> QED
  BY <1>3, <1>6, <1>7, <1>8, <1>9, <1>10 DEF RisingInv

\* pop() holds the number that was first.
LEMMA RisingTake ==
  ASSUME TypeOK, TypeOK', RingInv, RoundInv, RisingInv, PopRead,
         UNCHANGED <<pushing, shown>>
  PROVE  RisingInv'
<1>1. /\ QueueItems # <<>> /\ QueueItems' = Tail(QueueItems)
      /\ QueueHand' = [QueueHand EXCEPT ![Consumer] = Head(QueueItems)]
  BY PopReadTakes DEF FIFO!Take
<1>2. out' = Head(QueueItems)
  <2>1. QueueHand'[Consumer] = Head(QueueItems)
    BY <1>1 DEF QueueHand
  <2> QED
    BY <2>1 DEF QueueHand
<1>3. /\ Len(QueueItems) \in Nat /\ Len(QueueItems) >= 1
      /\ Len(QueueItems') = Len(QueueItems) - 1
      /\ \A i \in 1..Len(QueueItems') : QueueItems'[i] = QueueItems[i + 1]
      /\ out' = QueueItems[1]
  <2>1. QueueItems \in Seq(Value \cup {NoValue})
    BY ItemsAreSeq
  <2>2. Len(QueueItems) \in Nat /\ Len(QueueItems) # 0
    BY <1>1, <2>1
  <2> QED
    BY <1>1, <1>2, <2>1, <2>2, HeadTailProperties
<1> HIDE DEF QueueItems
<1>4. \A i \in 1..Len(QueueItems') :
        i + 1 \in 1..Len(QueueItems) /\ 1 < i + 1
  BY <1>3
<1>5. 1 \in 1..Len(QueueItems)
  BY <1>3
<1>6. \A i \in 1..Len(QueueItems') : QueueItems'[i] \in 1..(pushing' - 1)
  BY <1>3, <1>4 DEF RisingInv
<1>7. \A i, j \in 1..Len(QueueItems') : i < j => QueueItems'[i] < QueueItems'[j]
  BY <1>3, <1>4 DEF RisingInv
<1>8. \A i \in 1..Len(shown), j \in 1..Len(QueueItems') :
        shown[i] < QueueItems'[j]
  BY <1>3, <1>4 DEF RisingInv
<1>9. /\ out' \in 1..(pushing - 1)
      /\ \A i \in 1..Len(shown) : shown[i] < out'
      /\ \A j \in 1..Len(QueueItems') : out' < QueueItems'[j]
  BY <1>3, <1>4, <1>5 DEF RisingInv
<1> QED
  BY <1>6, <1>7, <1>8, <1>9 DEF RisingInv

\* What is displayed is what pop() held.
LEMMA RisingDisplay ==
  ASSUME TypeOK, TypeOK', RingInv, RoundInv, RisingInv, PopFinds, Display,
         UNCHANGED pushing
  PROVE  RisingInv'
<1>0. Producer \in Role /\ Consumer \in Role /\ Producer # Consumer
  BY DEF Role, Producer, Consumer
<1>1. PopStore /\ pc[Consumer] = "pop_store"
  BY DEF Display, PopEmpty, PopStore, PopFinds
<1>2. UNCHANGED QueueItems /\ pc'[Consumer] = "idle"
  BY <1>0, <1>1, OthersKeepQueue DEF PopStore, Goto, TypeOK
<1>3. shown' = Append(shown, out) /\ out \in Nat
  BY <1>1 DEF Display, RisingInv
<1>4. /\ Len(shown) \in Nat /\ Len(shown') = Len(shown) + 1
      /\ \A i \in 1..Len(shown) : shown'[i] = shown[i]
      /\ shown'[Len(shown) + 1] = out
  BY <1>3, AppendProperties DEF RoundInv
<1> HIDE DEF QueueItems
<1>5. \A j \in 1..Len(shown') :
        \/ j \in 1..Len(shown) /\ shown'[j] = shown[j]
        \/ j = Len(shown) + 1 /\ shown'[j] = out
  BY <1>4
<1>6. \A i \in 1..Len(shown') : shown'[i] \in 1..(pushing - 1)
  BY <1>1, <1>5 DEF RisingInv
<1>7. \A i, j \in 1..Len(shown') : i < j => shown'[i] < shown'[j]
  BY <1>1, <1>4, <1>5 DEF RisingInv
<1>8. \A i \in 1..Len(shown'), j \in 1..Len(QueueItems) :
        shown'[i] < QueueItems[j]
  BY <1>1, <1>5 DEF RisingInv
<1> QED
  BY <1>2, <1>6, <1>7, <1>8 DEF RisingInv

\* Every step keeps the numbers in order.
LEMMA RisingNext ==
  ASSUME TypeOK, TypeOK', RingInv, RoundInv, RisingInv, PopFinds,
         [DriverNext]_driverVars
  PROVE  RisingInv'
<1>0. Producer \in Role /\ Consumer \in Role /\ Producer # Consumer
  BY DEF Role, Producer, Consumer
<1>1. ASSUME UNCHANGED <<QueueItems, shown, out>>, pushing' \in Nat,
             pushing <= pushing',
             pc'[Consumer] = "pop_store" => pc[Consumer] = "pop_store"
      PROVE  RisingInv'
  <2> HIDE DEF QueueItems
  <2>1. pushing \in Nat
    BY DEF RoundInv
  <2>2. \A n \in 1..(pushing - 1) : n \in 1..(pushing' - 1)
    <3>1. PICK m \in Nat : m = pushing'
      BY <1>1
    <3>2. pushing <= m
      BY <1>1, <3>1
    <3>3. \A n \in 1..(pushing - 1) : n \in 1..(m - 1)
      BY <2>1, <3>2
    <3> QED
      BY <3>1, <3>3
  <2> QED
    BY <1>1, <2>2 DEF RisingInv
<1>2. CASE PushRound /\ ~ PushStore
  <2>1. UNCHANGED QueueItems
    <3>1. (\E v \in Value : PushCall(v)) \/ PushFull \/ PushHasRoom \/ PushWrite
      BY <1>2, ItemsAssumption DEF PushRound, RoundInv
    <3> QED
      BY <3>1, OthersKeepQueue
  <2>2. /\ UNCHANGED <<shown, out>> /\ pc'[Consumer] = pc[Consumer]
        /\ pushing' = pushing \/ pushing' = pushing + 1
    BY <1>0, <1>2 DEF PushRound, PushCall, PushFull, PushHasRoom, PushWrite,
       Goto, TypeOK
  <2>3. pushing' \in Nat /\ pushing <= pushing'
    BY <2>2 DEF RoundInv
  <2> QED
    BY <1>1, <2>1, <2>2, <2>3
<1>3. CASE PopRound /\ ~ PopRead /\ ~ Display
  <2>1. PopCall \/ PopHasItem \/ \E r \in Role : Query(r)
    BY <1>0, <1>3 DEF PopRound, TestEmpty, PopOne, Query
  <2>2. UNCHANGED QueueItems
    BY <2>1, OthersKeepQueue
  <2>3. /\ UNCHANGED <<shown, out, pushing>> /\ pc'[Consumer] # "pop_store"
    BY <1>0, <1>3 DEF PopRound, TestEmpty, PopOne, IsEmptyCall, IsEmptyAnswer,
       Answer, PopCall, PopHasItem, Goto, TypeOK
  <2>4. pushing' \in Nat /\ pushing <= pushing'
    BY <2>3 DEF RoundInv
  <2> QED
    BY <1>1, <2>2, <2>3, <2>4
<1>4. CASE UNCHANGED driverVars
  <2>1. UNCHANGED QueueItems
    BY <1>4, OthersKeepQueue DEF driverVars
  <2>2. UNCHANGED <<shown, out, pushing, pc>>
    BY <1>4 DEF driverVars, vars
  <2>3. pushing' \in Nat /\ pushing <= pushing'
    BY <2>2 DEF RoundInv
  <2> QED
    BY <1>1, <2>1, <2>2, <2>3
<1>5. CASE PopRound /\ PopRead
  <2>1. UNCHANGED <<pushing, shown>>
    BY <1>0, <1>5 DEF PopRound, TestEmpty, PopOne, Display, PopRead, PopEmpty,
       PopStore, IsEmptyCall, IsEmptyAnswer, Answer, Goto, TypeOK
  <2> QED
    BY <1>5, <2>1, RisingTake
<1>6. CASE PopRound /\ Display
  BY <1>6, RisingDisplay DEF PopRound
<1> QED
  BY <1>2, <1>3, <1>4, <1>5, <1>6, RisingPut DEF DriverNext

ProgramInv == TypeOK /\ RingInv /\ RoundInv /\ RisingInv /\ PopFinds

\* The numbers of the program are in order at first.
LEMMA ProgramInvInit == DriverInit => ProgramInv
<1> SUFFICES ASSUME DriverInit PROVE ProgramInv
  OBVIOUS
<1>1. Init /\ pushing = 1 /\ shown = <<>>
  BY DEF DriverInit
<1>2. TypeOK /\ RingInv
  BY <1>1, InitType, InitRing
<1>3. QueueItems = <<>>
  BY <1>1, InitRefines DEF FIFO!Init
<1> HIDE DEF QueueItems
<1>4. \A r \in Role : pc[r] = "idle"
  BY <1>1 DEF Init
<1>5. RoundInv /\ PopFinds
  BY <1>1, <1>4, ItemsAssumption DEF RoundInv, PopFinds, Role
<1>6. Len(<<>>) = 0 /\ 1..0 = {}
  OBVIOUS
<1>7. 1..Len(shown) = {} /\ 1..Len(QueueItems) = {}
  BY <1>1, <1>3, <1>6, Zenon
<1>8. RisingInv
  BY <1>4, <1>7 DEF RisingInv, Role
<1> QED
  BY <1>2, <1>5, <1>8 DEF ProgramInv

\* The numbers of the program stay in order.
LEMMA ProgramInvNext == ProgramInv /\ [DriverNext]_driverVars => ProgramInv'
<1> SUFFICES ASSUME ProgramInv, [DriverNext]_driverVars PROVE ProgramInv'
  OBVIOUS
<1>1. TypeOK /\ RingInv /\ RoundInv /\ RisingInv /\ PopFinds
  BY DEF ProgramInv
<1>2. [Next]_vars
  BY <1>1, DriverStep
<1>3. TypeOK' /\ RingInv'
  BY <1>1, <1>2, NextType, RingNext
<1>4. RoundInv' /\ PopFinds'
  BY <1>1, RoundNext, FindsNext
<1>5. RisingInv'
  BY <1>1, <1>3, RisingNext
<1> QED
  BY <1>3, <1>4, <1>5 DEF ProgramInv

\* The program uses the queue as it is meant to be used, one thread at each end
\* (85-112): all that is proved of the queue holds in it.
THEOREM ProgramUsesQueue == DriverSpec => Spec /\ ImplementsQueue
<1>1. ProgramInv /\ [DriverNext]_driverVars => [Next]_vars
  BY DriverStep DEF ProgramInv
<1>2. DriverInit => Init
  BY DEF DriverInit
<1>3. DriverSpec => Spec
  BY <1>1, <1>2, ProgramInvInit, ProgramInvNext, PTL DEF DriverSpec, Spec
<1> QED
  BY <1>3, FIFORefinement

\* The numbers are displayed in the order they were pushed, each once and none
\* that was not, whichever pushes fail (92), and no pop fails (106).
THEOREM NumbersInOrder == DriverSpec => []ShownInOrder
<1>1. ProgramInv => ShownInOrder
  <2> SUFFICES ASSUME ProgramInv PROVE ShownInOrder
    OBVIOUS
  <2>1. DOMAIN shown = 1..Len(shown)
    BY DEF ProgramInv, RoundInv
  <2> QED
    BY <2>1 DEF ProgramInv, RisingInv, ShownInOrder
<1> QED
  BY <1>1, ProgramInvInit, ProgramInvNext, PTL DEF DriverSpec
=============================================================================
