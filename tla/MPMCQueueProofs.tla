--------------------------- MODULE MPMCQueueProofs ---------------------------
(***************************************************************************)
(* Proofs about MPMCQueue, for any producers, consumers and values and any *)
(* QUEUE_SIZE of at least two: the arithmetic of cells and laps first,     *)
(* then the types, then TicketInv, one lemma per action that disturbs it,  *)
(* and what follows from it.  Nothing of the mask being a power of two is  *)
(* needed once Cell is the remainder by Size.                              *)
(***************************************************************************)
EXTENDS MPMCQueue, SequenceTheorems, TLAPS
-----------------------------------------------------------------------------
(* How the window of the ring buffer, a function over 1..n, relates to the *)
(* sequence of BoundedQueue                                                *)

\* A function over 1..n is a sequence of n elements: the window of tickets of a
\* ring buffer, read from the oldest on, is the queue its user sees.
LEMMA FunctionIsSeq ==
  ASSUME NEW n \in Nat, NEW S, NEW s \in [1..n -> S]
  PROVE  s \in Seq(S) /\ Len(s) = n
<1>1. s \in Seq(S)
  BY SeqDef
<1>2. Len(s) \in Nat /\ DOMAIN s = 1..Len(s) /\ DOMAIN s = 1..n
  BY <1>1, LenProperties
<1> QED
  BY <1>1, <1>2

\* The sequence that starts one later is the tail: what is left in a ring
\* buffer when its oldest value has been taken.
LEMMA TailIs ==
  ASSUME NEW n \in Nat, n # 0, NEW S, NEW s \in [1..n -> S],
         NEW t \in [1..(n - 1) -> S], \A i \in 1..(n - 1) : t[i] = s[i + 1]
  PROVE  s # <<>> /\ Head(s) = s[1] /\ Tail(s) = t
<1>1. s \in Seq(S) /\ Len(s) = n
  BY FunctionIsSeq
<1>2. n - 1 \in Nat
  OBVIOUS
<1>3. t \in Seq(S) /\ Len(t) = n - 1
  BY <1>2, FunctionIsSeq
<1>4. s # <<>>
  BY <1>1
<1>5. /\ Tail(s) \in Seq(S) /\ Len(Tail(s)) = n - 1
      /\ \A i \in 1..(n - 1) : Tail(s)[i] = s[i + 1]
  BY <1>1, <1>4, HeadTailProperties
<1>6. Tail(s) = t
  BY <1>3, <1>5, SeqEqual
<1>7. Head(s) = s[1]
  BY <1>1, <1>4
<1> QED
  BY <1>4, <1>6, <1>7

\* The sequence that is longer by one is the old one with that value appended:
\* what is in a ring buffer when one more value has been put.
LEMMA AppendIs ==
  ASSUME NEW n \in Nat, NEW S, NEW s \in [1..n -> S], NEW v \in S,
         NEW t \in [1..(n + 1) -> S], \A i \in 1..n : t[i] = s[i], t[n + 1] = v
  PROVE  Len(s) = n /\ t = Append(s, v)
<1>1. s \in Seq(S) /\ Len(s) = n
  BY FunctionIsSeq
<1>2. n + 1 \in Nat
  OBVIOUS
<1>3. t \in Seq(S) /\ Len(t) = n + 1
  BY <1>2, FunctionIsSeq
<1>4. /\ Append(s, v) \in Seq(S) /\ Len(Append(s, v)) = n + 1
      /\ \A i \in 1..(n + 1) :
           Append(s, v)[i] = IF i = n + 1 THEN v ELSE s[i]
  BY <1>1
<1> QED
  BY <1>1, <1>3, <1>4, SeqEqual
-----------------------------------------------------------------------------
\* index & index_mask_ (32, 61) is the number of a cell: no access to buffer_
\* is out of its bounds.
LEMMA CellInSlot ==
  ASSUME NEW k \in Int
  PROVE  Cell(k) \in Slot
BY SizeAssumption DEF Cell, Slot

\* A ticket is its lap and its cell.
LEMMA Lap ==
  ASSUME NEW k \in Int
  PROVE  /\ k \div Size \in Int
         /\ k = Size * (k \div Size) + Cell(k)
BY SizeAssumption DEF Cell

\* Tickets of different laps are at least Size apart but for their cells.
LEMMA MulGap ==
  ASSUME NEW a \in Int, NEW b \in Int, a < b
  PROVE  Size * a + Size <= Size * b
<1>1. PICK d \in Nat : b = a + d /\ d >= 1
  <2>1. b - a \in Nat /\ b = a + (b - a) /\ b - a >= 1
    OBVIOUS
  <2> QED BY <2>1
<1>2. Size * d >= Size
  BY <1>1, SizeAssumption
<1>3. Size * (a + d) = Size * a + Size * d
  BY <1>1, SizeAssumption
<1> QED BY <1>1, <1>2, <1>3, SizeAssumption

\* A ticket has one lap and one cell only.
LEMMA LapUnique ==
  ASSUME NEW q \in Int, NEW r \in Slot, NEW k \in Int, k = Size * q + r
  PROVE  q = k \div Size /\ r = Cell(k)
<1> DEFINE q0 == k \div Size
<1> DEFINE r0 == Cell(k)
<1>0. q0 \in Int /\ r0 \in Slot /\ k = Size * q0 + r0
  BY CellInSlot, Lap
<1> HIDE DEF q0, r0
<1>1. /\ Size \in Nat /\ r \in Int /\ r0 \in Int
      /\ 0 <= r /\ r < Size /\ 0 <= r0 /\ r0 < Size
  BY <1>0, SizeAssumption DEF Slot
<1>m. Size * q \in Int /\ Size * q0 \in Int
  BY <1>0, <1>1
<1>2. ~ (q < q0)
  <2> SUFFICES ASSUME q < q0 PROVE FALSE OBVIOUS
  <2>1. Size * q + Size <= Size * q0 BY <1>0, MulGap
  <2> QED BY <2>1, <1>0, <1>1, <1>m
<1>3. ~ (q0 < q)
  <2> SUFFICES ASSUME q0 < q PROVE FALSE OBVIOUS
  <2>1. Size * q0 + Size <= Size * q BY <1>0, MulGap
  <2> QED BY <2>1, <1>0, <1>1, <1>m
<1>4. q = q0 BY <1>0, <1>2, <1>3
<1>5. r = r0 BY <1>0, <1>1, <1>4, <1>m
<1> QED BY <1>4, <1>5 DEF q0, r0

\* A ticket and the one Size later have the same cell: what dequeue() releases
\* (78) is the cell of the next lap.
LEMMA CellNextLap ==
  ASSUME NEW k \in Int
  PROVE  Cell(k + Size) = Cell(k)
<1>1. /\ k = Size * (k \div Size) + Cell(k)
      /\ k \div Size \in Int /\ Cell(k) \in Slot
  BY Lap, CellInSlot
<1>2. Cell(k) \in Int /\ Size \in Nat BY <1>1, SizeAssumption DEF Slot
<1>3. k + Size = Size * ((k \div Size) + 1) + Cell(k)
  <2> DEFINE q == k \div Size
  <2> DEFINE r == Cell(k)
  <2> SUFFICES ASSUME k = Size * q + r, q \in Int, r \in Int, Size \in Nat
               PROVE  k + Size = Size * (q + 1) + r
    BY <1>1, <1>2
  <2> HIDE DEF q, r
  <2> QED OBVIOUS
<1>4. k + Size \in Int /\ (k \div Size) + 1 \in Int BY <1>1, <1>2
<1> QED BY <1>1, <1>3, <1>4, LapUnique

\* Tickets that are less than Size apart have different cells.
LEMMA CellsDiffer ==
  ASSUME NEW j \in Int, NEW k \in Int, j < k, k < j + Size
  PROVE  Cell(j) # Cell(k)
<1> SUFFICES ASSUME Cell(j) = Cell(k) PROVE FALSE OBVIOUS
<1> DEFINE a == j \div Size
<1> DEFINE b == k \div Size
<1> DEFINE r == Cell(j)
<1>1. /\ a \in Int /\ b \in Int /\ r \in Slot
      /\ j = Size * a + r /\ k = Size * b + r
  BY Lap, CellInSlot
<1> HIDE DEF a, b, r
<1>2. Size \in Nat /\ r \in Int BY <1>1, SizeAssumption DEF Slot
<1>3. Size * a \in Int /\ Size * b \in Int BY <1>1, <1>2
<1>4. Size * a < Size * b /\ Size * b < Size * a + Size BY <1>1, <1>2, <1>3
<1>5. ~ (a < b) BY <1>1, <1>2, <1>3, <1>4, MulGap
<1>6. ~ (b < a)
  <2> SUFFICES ASSUME b < a PROVE FALSE OBVIOUS
  <2>1. Size * b + Size <= Size * a BY <1>1, MulGap
  <2> QED BY <2>1, <1>2, <1>3, <1>4
<1>7. a = b BY <1>1, <1>5, <1>6
<1> QED BY <1>3, <1>4, <1>7
-----------------------------------------------------------------------------
\* The types hold when the constructor (14-23) is done.
LEMMA InitType == Init => TypeOK
BY SizeAssumption DEF Init, InitialSequence, TypeOK, Slot, Thread, Label

\* No step of enqueue() (25-52) breaks the types.
LEMMA EnqueueType ==
  ASSUME TypeOK, NEW p \in Producer, Enqueue(p)
  PROVE  TypeOK'
<1>0. p \in Thread /\ p \notin Consumer
  BY ThreadAssumption DEF Thread
<1>1. index[p] \in Nat /\ arg[p] \in Value \cup {NoValue}
  BY <1>0 DEF TypeOK
<1>2. Cell(index[p]) \in Slot
  BY <1>1, CellInSlot
<1>a. CASE \E v \in Value : EnqueueCall(p, v)
  BY <1>a, <1>0 DEF EnqueueCall, Goto, TypeOK, Label
<1>b. CASE EnqueueLoadIndex(p)
  BY <1>b, <1>0 DEF EnqueueLoadIndex, Goto, TypeOK, Label
<1>c. CASE EnqueueCellFree(p)
  BY <1>c, <1>0 DEF EnqueueCellFree, Goto, TypeOK, Label
<1>d. CASE EnqueueFull(p)
  BY <1>d, <1>0 DEF EnqueueFull, Return, Goto, TypeOK, Label
<1>e. CASE EnqueueBehind(p)
  BY <1>e, <1>0 DEF EnqueueBehind, Goto, TypeOK, Label
<1>f. CASE EnqueueWin(p)
  BY <1>f, <1>0, <1>1 DEF EnqueueWin, Goto, TypeOK, Label
<1>g. CASE EnqueueLose(p)
  BY <1>g, <1>0 DEF EnqueueLose, Goto, TypeOK, Label
<1>h. CASE EnqueueWrite(p)
  BY <1>h, <1>0, <1>1, <1>2 DEF EnqueueWrite, Goto, TypeOK, Label
<1>i. CASE EnqueuePublish(p)
  BY <1>i, <1>0, <1>1, <1>2 DEF EnqueuePublish, Return, Goto, TypeOK, Label
<1> QED
  BY <1>a, <1>b, <1>c, <1>d, <1>e, <1>f, <1>g, <1>h, <1>i DEF Enqueue

\* No step of dequeue() (54-81) breaks the types.
LEMMA DequeueType ==
  ASSUME TypeOK, NEW c \in Consumer, Dequeue(c)
  PROVE  TypeOK'
<1>0. c \in Thread /\ c \notin Producer
  BY ThreadAssumption DEF Thread
<1>1. index[c] \in Nat
  BY <1>0 DEF TypeOK
<1>2. Cell(index[c]) \in Slot
  BY <1>1, CellInSlot
<1>3. index[c] + Size \in Nat
  BY <1>1, SizeAssumption
<1>a. CASE DequeueCall(c)
  BY <1>a, <1>0 DEF DequeueCall, Goto, TypeOK, Label
<1>b. CASE DequeueLoadIndex(c)
  BY <1>b, <1>0 DEF DequeueLoadIndex, Goto, TypeOK, Label
<1>c. CASE DequeueCellReady(c)
  BY <1>c, <1>0 DEF DequeueCellReady, Goto, TypeOK, Label
<1>d. CASE DequeueEmpty(c)
  BY <1>d, <1>0 DEF DequeueEmpty, Return, Goto, TypeOK, Label
<1>e. CASE DequeueBehind(c)
  BY <1>e, <1>0 DEF DequeueBehind, Goto, TypeOK, Label
<1>f. CASE DequeueWin(c)
  BY <1>f, <1>0, <1>1 DEF DequeueWin, Goto, TypeOK, Label
<1>g. CASE DequeueLose(c)
  BY <1>g, <1>0 DEF DequeueLose, Goto, TypeOK, Label
<1>h. CASE DequeueRead(c)
  BY <1>h, <1>0, <1>2 DEF DequeueRead, Goto, TypeOK, Label
<1>i. CASE DequeueRelease(c)
  BY <1>i, <1>0, <1>2, <1>3 DEF DequeueRelease, Return, Goto, TypeOK, Label
<1> QED
  BY <1>a, <1>b, <1>c, <1>d, <1>e, <1>f, <1>g, <1>h, <1>i DEF Dequeue

\* The types hold in every state of the queue: each thread is in the call it
\* made, sequence numbers and indices are never negative (the code keeps them in
\* size_t), and no access leaves buffer_.
THEOREM TypeCorrect == Spec => []TypeOK
<1>1. TypeOK /\ [Next]_vars => TypeOK'
  <2>1. ASSUME TypeOK, UNCHANGED vars PROVE TypeOK'
    BY <2>1 DEF vars, TypeOK
  <2> QED
    BY <2>1, EnqueueType, DequeueType DEF Next
<1> QED
  BY InitType, <1>1, PTL DEF Spec
-----------------------------------------------------------------------------
\* TicketInv holds when the constructor (14-23) is done.
LEMMA InitTicket == Init => TicketInv
<1> SUFFICES ASSUME Init PROVE TicketInv
  OBVIOUS
<1>1. IndexOrder
  BY SizeAssumption DEF Init, IndexOrder
<1>2. CellState
  <2> SUFFICES ASSUME NEW k \in 0..(Size - 1) PROVE sequence[Cell(k)] = k
    BY SizeAssumption DEF Init, CellState
  <2>1. Cell(k) = k
    <3>1. k \in Slot /\ k \in Int /\ k = Size * 0 + k
      BY SizeAssumption DEF Slot
    <3> QED
      BY <3>1, LapUnique
  <2> QED
    BY <2>1 DEF Init, InitialSequence, Slot
<1>3. FillsOwnTicket /\ DrainsOwnTicket /\ CheckedCell /\ IndexBehind
  BY DEF Init, FillsOwnTicket, DrainsOwnTicket, CheckedCell, IndexBehind,
         Fills, Drains, Thread
<1> QED
  BY <1>1, <1>2, <1>3 DEF TicketInv

\* A step that neither wins nor hands over a ticket, and leaves the sequence
\* numbers alone: only what is said of the checks can be disturbed.
LEMMA QuietStep ==
  ASSUME TicketInv,
         UNCHANGED <<sequence, enqueue_index, dequeue_index>>,
         \A p \in Producer : /\ Fills(p)' <=> Fills(p)
                             /\ Fills(p) => index'[p] = index[p],
         \A c \in Consumer : /\ Drains(c)' <=> Drains(c)
                             /\ Drains(c) => index'[c] = index[c],
         CheckedCell',
         IndexBehind'
  PROVE  TicketInv'
<1>1. IndexOrder'
  BY DEF TicketInv, IndexOrder
<1>2. CellState'
  <2> SUFFICES ASSUME NEW k \in dequeue_index..(dequeue_index + Size - 1)
               PROVE  IF k < enqueue_index
                      THEN \/ sequence[Cell(k)] = k + 1
                           \/ /\ sequence[Cell(k)] = k
                              /\ \E p \in Producer : Fills(p)' /\ index'[p] = k
                      ELSE \/ sequence[Cell(k)] = k
                           \/ /\ sequence[Cell(k)] = (k - Size) + 1
                              /\ \E c \in Consumer :
                                   Drains(c)' /\ index'[c] = k - Size
    BY DEF CellState
  <2>1. CASE k < enqueue_index
    BY <2>1 DEF TicketInv, CellState
  <2>2. CASE ~ (k < enqueue_index)
    BY <2>2 DEF TicketInv, CellState
  <2> QED
    BY <2>1, <2>2
<1>3. FillsOwnTicket'
  BY DEF TicketInv, FillsOwnTicket
<1>4. DrainsOwnTicket'
  BY DEF TicketInv, DrainsOwnTicket
<1> QED
  BY <1>1, <1>2, <1>3, <1>4 DEF TicketInv

\* The tickets of a window of Size have one cell each.
LEMMA WindowCells ==
  ASSUME TypeOK,
         NEW j \in dequeue_index..(dequeue_index + Size - 1),
         NEW k \in dequeue_index..(dequeue_index + Size - 1),
         j # k
  PROVE  Cell(j) # Cell(k)
<1>1. /\ dequeue_index \in Nat /\ Size \in Nat /\ j \in Int /\ k \in Int
      /\ (j < k /\ k < j + Size) \/ (k < j /\ j < k + Size)
  BY SizeAssumption DEF TypeOK
<1> QED
  BY <1>1, CellsDiffer

\* TicketInv is kept by the steps of enqueue() that leave the sequence numbers
\* and the tickets alone: the loads, the tests, the lost exchange, the write.
LEMMA EnqueueQuietTicket ==
  ASSUME TypeOK, TicketInv, NEW p \in Producer,
         \/ \E v \in Value : EnqueueCall(p, v)
         \/ EnqueueLoadIndex(p)
         \/ EnqueueCellFree(p)
         \/ EnqueueFull(p)
         \/ EnqueueBehind(p)
         \/ EnqueueLose(p)
         \/ EnqueueWrite(p)
  PROVE  TicketInv'
<1>0. /\ p \in Thread /\ p \notin Consumer
      /\ Producer \subseteq Thread /\ Consumer \subseteq Thread
      /\ enqueue_index \in Nat /\ dequeue_index \in Nat
      /\ pc \in [Thread -> Label] /\ index \in [Thread -> Nat]
  BY ThreadAssumption DEF Thread, TypeOK
<1>1. UNCHANGED <<sequence, enqueue_index, dequeue_index>>
  BY DEF EnqueueCall, EnqueueLoadIndex, EnqueueCellFree, EnqueueFull,
         EnqueueBehind, EnqueueLose, EnqueueWrite
<1>2. \A t \in Thread \ {p} : pc'[t] = pc[t] /\ index'[t] = index[t]
  BY <1>0 DEF EnqueueCall, EnqueueLoadIndex, EnqueueCellFree, EnqueueFull,
         EnqueueBehind, EnqueueLose, EnqueueWrite, Goto, Return
<1>3. /\ Fills(p)' <=> Fills(p)
      /\ Fills(p) => index'[p] = index[p]
  BY <1>0 DEF EnqueueCall, EnqueueLoadIndex, EnqueueCellFree, EnqueueFull,
         EnqueueBehind, EnqueueLose, EnqueueWrite, Goto, Return, Fills
<1>4. index'[p] \in {0, index[p], enqueue_index}
  BY <1>0 DEF EnqueueCall, EnqueueLoadIndex, EnqueueCellFree, EnqueueFull,
         EnqueueBehind, EnqueueLose, EnqueueWrite, Goto, Return
<1>5. pc'[p] = "e_cas" => sequence[Cell(index'[p])] = index'[p]
  <2> SUFFICES ASSUME pc'[p] = "e_cas"
               PROVE  sequence[Cell(index'[p])] = index'[p]
    OBVIOUS
  <2>1. EnqueueCellFree(p)
    BY <1>0 DEF EnqueueCall, EnqueueLoadIndex, EnqueueFull, EnqueueBehind,
                EnqueueLose, EnqueueWrite, Goto, Return
  <2>2. Cell(index[p]) \in Slot
    BY <1>0, CellInSlot
  <2>3. sequence[Cell(index[p])] \in Nat /\ index[p] \in Nat
    BY <1>0, <2>2 DEF TypeOK
  <2> QED
    BY <2>1, <2>3 DEF EnqueueCellFree, EnqueueDiff
<1>6. CheckedCell'
  BY <1>0, <1>1, <1>2, <1>5 DEF TicketInv, CheckedCell
<1>7. IndexBehind'
  BY <1>0, <1>1, <1>2, <1>4 DEF TicketInv, IndexBehind
<1>8. /\ \A q \in Producer : /\ Fills(q)' <=> Fills(q)
                             /\ Fills(q) => index'[q] = index[q]
      /\ \A c \in Consumer : /\ Drains(c)' <=> Drains(c)
                             /\ Drains(c) => index'[c] = index[c]
  BY <1>0, <1>2, <1>3 DEF Fills, Drains
<1> QED
  BY <1>1, <1>6, <1>7, <1>8, QuietStep

\* TicketInv is kept by the steps of dequeue() that leave the sequence numbers
\* and the tickets alone: the loads, the tests, the lost exchange, the read.
LEMMA DequeueQuietTicket ==
  ASSUME TypeOK, TicketInv, NEW c \in Consumer,
         \/ DequeueCall(c)
         \/ DequeueLoadIndex(c)
         \/ DequeueCellReady(c)
         \/ DequeueEmpty(c)
         \/ DequeueBehind(c)
         \/ DequeueLose(c)
         \/ DequeueRead(c)
  PROVE  TicketInv'
<1>0. /\ c \in Thread /\ c \notin Producer
      /\ Producer \subseteq Thread /\ Consumer \subseteq Thread
      /\ enqueue_index \in Nat /\ dequeue_index \in Nat
      /\ pc \in [Thread -> Label] /\ index \in [Thread -> Nat]
  BY ThreadAssumption DEF Thread, TypeOK
<1>1. UNCHANGED <<sequence, enqueue_index, dequeue_index>>
  BY DEF DequeueCall, DequeueLoadIndex, DequeueCellReady, DequeueEmpty,
         DequeueBehind, DequeueLose, DequeueRead
<1>2. \A t \in Thread \ {c} : pc'[t] = pc[t] /\ index'[t] = index[t]
  BY <1>0 DEF DequeueCall, DequeueLoadIndex, DequeueCellReady, DequeueEmpty,
         DequeueBehind, DequeueLose, DequeueRead, Goto, Return
<1>3. /\ Drains(c)' <=> Drains(c)
      /\ Drains(c) => index'[c] = index[c]
  BY <1>0 DEF DequeueCall, DequeueLoadIndex, DequeueCellReady, DequeueEmpty,
         DequeueBehind, DequeueLose, DequeueRead, Goto, Return, Drains
<1>4. index'[c] \in {0, index[c], dequeue_index}
  BY <1>0 DEF DequeueCall, DequeueLoadIndex, DequeueCellReady, DequeueEmpty,
         DequeueBehind, DequeueLose, DequeueRead, Goto, Return
<1>5. pc'[c] = "d_cas" => sequence[Cell(index'[c])] = index'[c] + 1
  <2> SUFFICES ASSUME pc'[c] = "d_cas"
               PROVE  sequence[Cell(index'[c])] = index'[c] + 1
    OBVIOUS
  <2>1. DequeueCellReady(c)
    BY <1>0 DEF DequeueCall, DequeueLoadIndex, DequeueEmpty, DequeueBehind,
                DequeueLose, DequeueRead, Goto, Return
  <2>2. Cell(index[c]) \in Slot
    BY <1>0, CellInSlot
  <2>3. sequence[Cell(index[c])] \in Nat /\ index[c] \in Nat
    BY <1>0, <2>2 DEF TypeOK
  <2> QED
    BY <2>1, <2>3 DEF DequeueCellReady, DequeueDiff
<1>6. CheckedCell'
  BY <1>0, <1>1, <1>2, <1>5 DEF TicketInv, CheckedCell
<1>7. IndexBehind'
  BY <1>0, <1>1, <1>2, <1>4 DEF TicketInv, IndexBehind
<1>8. /\ \A q \in Producer : /\ Fills(q)' <=> Fills(q)
                             /\ Fills(q) => index'[q] = index[q]
      /\ \A d \in Consumer : /\ Drains(d)' <=> Drains(d)
                             /\ Drains(d) => index'[d] = index[d]
  BY <1>0, <1>2, <1>3 DEF Fills, Drains
<1> QED
  BY <1>1, <1>6, <1>7, <1>8, QuietStep

\* What the types say, in the form the steps below need it.
LEMMA TypeFacts ==
  ASSUME TypeOK
  PROVE  /\ Producer \subseteq Thread /\ Consumer \subseteq Thread
         /\ enqueue_index \in Nat /\ dequeue_index \in Nat
         /\ pc \in [Thread -> Label] /\ index \in [Thread -> Nat]
         /\ sequence \in [Slot -> Nat]
         /\ \A p \in Producer : index[p] \in Nat
         /\ \A c \in Consumer : index[c] \in Nat
         /\ \A k \in Int : Cell(k) \in Slot /\ sequence[Cell(k)] \in Nat
BY CellInSlot DEF Thread, TypeOK

\* TicketInv is kept by the exchange that wins a ticket for a producer (39).
LEMMA EnqueueWinTicket ==
  ASSUME TypeOK, TicketInv, NEW p \in Producer, EnqueueWin(p)
  PROVE  TicketInv'
<1> DEFINE E == enqueue_index
<1> DEFINE D == dequeue_index
<1>0. /\ p \in Thread /\ p \notin Consumer /\ Size \in Nat /\ Size >= 2
      /\ E + 1 \in Nat
  BY ThreadAssumption, SizeAssumption, TypeFacts
<1>1. /\ UNCHANGED <<sequence, dequeue_index, index>>
      /\ enqueue_index' = E + 1
      /\ index[p] = E /\ pc[p] = "e_cas" /\ pc'[p] = "e_write"
      /\ \A t \in Thread \ {p} : pc'[t] = pc[t]
  BY <1>0, TypeFacts DEF EnqueueWin, Goto
<1>2. sequence[Cell(E)] = E
  BY <1>1 DEF TicketInv, CheckedCell
<1>3. D <= E /\ E < D + Size
  <2>1. D <= E /\ E <= D + Size
    BY DEF TicketInv, IndexOrder
  <2>2. SUFFICES ASSUME E = D + Size PROVE FALSE
    BY <1>0, <2>1, TypeFacts
  <2>3. D \in D..(D + Size - 1) /\ D < E
    BY <1>0, <2>2, TypeFacts
  <2>4. sequence[Cell(D)] \in {D, D + 1}
    BY <2>3 DEF TicketInv, CellState
  <2>5. Cell(E) = Cell(D)
    BY <2>2, CellNextLap, TypeFacts
  <2> QED
    BY <1>0, <1>2, <2>2, <2>4, <2>5, TypeFacts
<1>4. /\ \A q \in Producer \ {p} : Fills(q)' <=> Fills(q)
      /\ Fills(p)' /\ ~ Fills(p)
      /\ \A c \in Consumer : Drains(c)' <=> Drains(c)
  BY <1>0, <1>1, TypeFacts DEF Fills, Drains
<1>5. IndexOrder'
  BY <1>0, <1>1, <1>3, TypeFacts DEF IndexOrder
<1>6. CellState'
  <2> SUFFICES ASSUME NEW k \in D..(D + Size - 1)
               PROVE  IF k < E + 1
                      THEN \/ sequence[Cell(k)] = k + 1
                           \/ /\ sequence[Cell(k)] = k
                              /\ \E q \in Producer : Fills(q)' /\ index[q] = k
                      ELSE \/ sequence[Cell(k)] = k
                           \/ /\ sequence[Cell(k)] = (k - Size) + 1
                              /\ \E c \in Consumer :
                                   Drains(c)' /\ index[c] = k - Size
    BY <1>1 DEF CellState
  <2>1. CASE k = E
    BY <1>0, <1>1, <1>2, <1>4, <2>1, TypeFacts
  <2>2. CASE k < E
    BY <1>4, <2>2, TypeFacts DEF TicketInv, CellState
  <2>3. CASE E < k
    BY <1>4, <2>3, TypeFacts DEF TicketInv, CellState
  <2> QED
    BY <2>1, <2>2, <2>3, TypeFacts
<1>7. FillsOwnTicket'
  BY <1>0, <1>1, <1>2, <1>3, <1>4, TypeFacts DEF TicketInv, FillsOwnTicket
<1>8. DrainsOwnTicket'
  <2>1. ASSUME NEW c \in Consumer, Drains(c) PROVE E + 1 <= index[c] + Size
    <3>1. E <= index[c] + Size /\ sequence[Cell(index[c])] = index[c] + 1
      BY <2>1 DEF TicketInv, DrainsOwnTicket
    <3>2. SUFFICES ASSUME E = index[c] + Size PROVE FALSE
      BY <1>0, <3>1, TypeFacts
    <3>3. Cell(E) = Cell(index[c])
      BY <3>2, CellNextLap, TypeFacts
    <3> QED
      BY <1>0, <1>2, <3>1, <3>2, <3>3, TypeFacts
  <2> QED
    BY <1>1, <1>4, <2>1 DEF TicketInv, DrainsOwnTicket
<1>9. CheckedCell'
  <2>1. \A q \in Producer : index[q] <= E
    BY DEF TicketInv, IndexBehind
  <2>2. ASSUME NEW q \in Producer PROVE index[q] # E + 1
    <3>1. index[q] \in Nat /\ E \in Nat /\ index[q] <= E
      BY <2>1, TypeFacts
    <3> QED
      BY <3>1
  <2> QED
    BY <1>0, <1>1, <2>2, TypeFacts DEF TicketInv, CheckedCell
<1>10. IndexBehind'
  BY <1>1, TypeFacts DEF TicketInv, IndexBehind
<1> QED
  BY <1>5, <1>6, <1>7, <1>8, <1>9, <1>10 DEF TicketInv

\* TicketInv is kept by the exchange that wins a ticket for a consumer (68).
LEMMA DequeueWinTicket ==
  ASSUME TypeOK, TicketInv, NEW c \in Consumer, DequeueWin(c)
  PROVE  TicketInv'
<1> DEFINE E == enqueue_index
<1> DEFINE D == dequeue_index
<1>0. /\ c \in Thread /\ c \notin Producer /\ Size \in Nat /\ Size >= 2
      /\ D + 1 \in Nat
  BY ThreadAssumption, SizeAssumption, TypeFacts
<1>1. /\ UNCHANGED <<sequence, enqueue_index, index>>
      /\ dequeue_index' = D + 1
      /\ index[c] = D /\ pc[c] = "d_cas" /\ pc'[c] = "d_read"
      /\ \A t \in Thread \ {c} : pc'[t] = pc[t]
  BY <1>0, TypeFacts DEF DequeueWin, Goto
<1>2. sequence[Cell(D)] = D + 1
  BY <1>1 DEF TicketInv, CheckedCell
<1>3. D < E /\ E <= D + Size
  <2>1. D <= E /\ E <= D + Size
    BY DEF TicketInv, IndexOrder
  <2>2. SUFFICES ASSUME E = D PROVE FALSE
    BY <2>1, TypeFacts
  <2>3. D \in D..(D + Size - 1) /\ ~ (D < E)
    BY <1>0, <2>2, TypeFacts
  <2>4. sequence[Cell(D)] \in {D, (D - Size) + 1}
    BY <2>3 DEF TicketInv, CellState
  <2> QED
    BY <1>0, <1>2, <2>4, TypeFacts
<1>4. /\ \A q \in Producer : Fills(q)' <=> Fills(q)
      /\ \A d \in Consumer \ {c} : Drains(d)' <=> Drains(d)
      /\ Drains(c)' /\ ~ Drains(c)
  BY <1>0, <1>1, TypeFacts DEF Fills, Drains
<1>5. IndexOrder'
  BY <1>0, <1>1, <1>3, TypeFacts DEF IndexOrder
<1>6. CellState'
  <2> SUFFICES ASSUME NEW k \in (D + 1)..(D + 1 + Size - 1)
               PROVE  IF k < E
                      THEN \/ sequence[Cell(k)] = k + 1
                           \/ /\ sequence[Cell(k)] = k
                              /\ \E q \in Producer : Fills(q)' /\ index[q] = k
                      ELSE \/ sequence[Cell(k)] = k
                           \/ /\ sequence[Cell(k)] = (k - Size) + 1
                              /\ \E d \in Consumer :
                                   Drains(d)' /\ index[d] = k - Size
    BY <1>1 DEF CellState
  <2>1. CASE k = D + Size
    <3>1. Cell(k) = Cell(D) /\ ~ (k < E) /\ k - Size = D
      BY <1>0, <1>3, <2>1, CellNextLap, TypeFacts
    <3> QED
      BY <1>1, <1>2, <1>4, <3>1
  <2>2. CASE k < D + Size
    <3>1. k \in D..(D + Size - 1)
      BY <1>0, <2>2, TypeFacts
    <3>2. CASE k < E
      BY <1>4, <3>1, <3>2 DEF TicketInv, CellState
    <3>3. CASE ~ (k < E)
      BY <1>4, <3>1, <3>3 DEF TicketInv, CellState
    <3> QED
      BY <3>2, <3>3
  <2> QED
    BY <1>0, <2>1, <2>2, TypeFacts
<1>7. FillsOwnTicket'
  <2>1. ASSUME NEW p \in Producer, Fills(p) PROVE D + 1 <= index[p]
    <3>1. D <= index[p] /\ sequence[Cell(index[p])] = index[p]
      BY <2>1 DEF TicketInv, FillsOwnTicket
    <3> QED
      BY <1>2, <3>1, TypeFacts
  <2> QED
    BY <1>1, <1>4, <2>1 DEF TicketInv, FillsOwnTicket
<1>8. DrainsOwnTicket'
  BY <1>0, <1>1, <1>2, <1>3, <1>4, TypeFacts DEF TicketInv, DrainsOwnTicket
<1>9. CheckedCell'
  <2>1. \A d \in Consumer : index[d] <= D
    BY DEF TicketInv, IndexBehind
  <2>2. ASSUME NEW d \in Consumer PROVE index[d] # D + 1
    <3>1. index[d] \in Nat /\ D \in Nat /\ index[d] <= D
      BY <2>1, TypeFacts
    <3> QED
      BY <3>1
  <2> QED
    BY <1>0, <1>1, <2>2, TypeFacts DEF TicketInv, CheckedCell
<1>10. IndexBehind'
  BY <1>1, TypeFacts DEF TicketInv, IndexBehind
<1> QED
  BY <1>5, <1>6, <1>7, <1>8, <1>9, <1>10 DEF TicketInv

\* TicketInv is kept by the store that gives a cell to the consumers (49).
LEMMA EnqueuePublishTicket ==
  ASSUME TypeOK, TicketInv, NEW p \in Producer, EnqueuePublish(p)
  PROVE  TicketInv'
<1> DEFINE E == enqueue_index
<1> DEFINE D == dequeue_index
<1> DEFINE i == index[p]
<1>0. /\ p \in Thread /\ p \notin Consumer /\ Size \in Nat /\ Size >= 2
      /\ i \in Nat /\ Cell(i) \in Slot
  BY ThreadAssumption, SizeAssumption, TypeFacts, CellInSlot
<1>1. /\ UNCHANGED <<enqueue_index, dequeue_index>>
      /\ sequence' = [sequence EXCEPT ![Cell(i)] = i + 1]
      /\ pc[p] = "e_publish" /\ pc'[p] = "idle" /\ index'[p] = 0
      /\ \A t \in Thread \ {p} : pc'[t] = pc[t] /\ index'[t] = index[t]
  BY <1>0, TypeFacts DEF EnqueuePublish, Return, Goto
<1>2. /\ D <= i /\ i < E /\ E <= D + Size
      /\ sequence[Cell(i)] = i
      /\ \A q \in Producer \ {p} : Fills(q) => index[q] # i
  BY <1>1 DEF TicketInv, IndexOrder, FillsOwnTicket, Fills
<1>3. i \in D..(D + Size - 1)
  BY <1>0, <1>2, TypeFacts
<1>4. /\ sequence'[Cell(i)] = i + 1
      /\ \A k \in Int :
           Cell(k) # Cell(i) => sequence'[Cell(k)] = sequence[Cell(k)]
  BY <1>0, <1>1, TypeFacts
<1>5. \A k \in D..(D + Size - 1) :
        k # i => sequence'[Cell(k)] = sequence[Cell(k)]
  BY <1>3, <1>4, WindowCells
<1>6. /\ \A q \in Producer \ {p} : /\ Fills(q)' <=> Fills(q)
                                   /\ index'[q] = index[q]
      /\ ~ Fills(p)'
      /\ \A c \in Consumer : /\ Drains(c)' <=> Drains(c)
                             /\ index'[c] = index[c]
  BY <1>0, <1>1, TypeFacts DEF Fills, Drains
<1>7. IndexOrder'
  BY <1>1 DEF TicketInv, IndexOrder
<1>8. CellState'
  <2> SUFFICES ASSUME NEW k \in D..(D + Size - 1)
               PROVE  IF k < E
                      THEN \/ sequence'[Cell(k)] = k + 1
                           \/ /\ sequence'[Cell(k)] = k
                              /\ \E q \in Producer : Fills(q)' /\ index'[q] = k
                      ELSE \/ sequence'[Cell(k)] = k
                           \/ /\ sequence'[Cell(k)] = (k - Size) + 1
                              /\ \E c \in Consumer :
                                   Drains(c)' /\ index'[c] = k - Size
    BY <1>1 DEF CellState
  <2>1. CASE k = i
    BY <1>2, <1>4, <2>1
  <2>2. CASE k # i /\ k < E
    <3>1. \/ sequence[Cell(k)] = k + 1
          \/ /\ sequence[Cell(k)] = k
             /\ \E q \in Producer \ {p} : Fills(q) /\ index[q] = k
      BY <2>2 DEF TicketInv, CellState
    <3> QED
      BY <1>5, <1>6, <2>2, <3>1
  <2>3. CASE k # i /\ ~ (k < E)
    <3>1. \/ sequence[Cell(k)] = k
          \/ /\ sequence[Cell(k)] = (k - Size) + 1
             /\ \E c \in Consumer : Drains(c) /\ index[c] = k - Size
      BY <2>3 DEF TicketInv, CellState
    <3> QED
      BY <1>5, <1>6, <2>3, <3>1
  <2> QED
    BY <2>1, <2>2, <2>3
<1>9. FillsOwnTicket'
  <2>1. ASSUME NEW q \in Producer \ {p}, Fills(q)
        PROVE  /\ D <= index[q] /\ index[q] < E
               /\ sequence'[Cell(index[q])] = index[q]
    <3>1. /\ D <= index[q] /\ index[q] < E
          /\ sequence[Cell(index[q])] = index[q]
      BY <2>1 DEF TicketInv, FillsOwnTicket
    <3>2. index[q] \in D..(D + Size - 1) /\ index[q] # i
      BY <1>0, <1>2, <2>1, <3>1, TypeFacts
    <3> QED
      BY <1>5, <3>1, <3>2
  <2>2. \A q, r \in Producer \ {p} :
          Fills(q) /\ Fills(r) /\ index[q] = index[r] => q = r
    BY DEF TicketInv, FillsOwnTicket
  <2> QED
    BY <1>1, <1>6, <2>1, <2>2 DEF FillsOwnTicket
<1>10. DrainsOwnTicket'
  <2>1. ASSUME NEW c \in Consumer, Drains(c)
        PROVE  sequence'[Cell(index[c])] = sequence[Cell(index[c])]
    <3>1. index[c] < D /\ E <= index[c] + Size
      BY <2>1 DEF TicketInv, DrainsOwnTicket
    <3>2. index[c] + Size \in D..(D + Size - 1) /\ index[c] + Size # i
      BY <1>0, <1>2, <3>1, TypeFacts
    <3>3. Cell(index[c] + Size) = Cell(index[c])
      BY CellNextLap, TypeFacts
    <3> QED
      BY <1>5, <3>2, <3>3
  <2> QED
    BY <1>1, <1>6, <2>1 DEF TicketInv, DrainsOwnTicket
<1>11. CheckedCell'
  <2>1. ASSUME NEW q \in Producer, pc'[q] = "e_cas", index'[q] = E
        PROVE  sequence'[Cell(E)] = E
    <3>1. q # p /\ pc[q] = "e_cas" /\ index[q] = E
      BY <1>1, <2>1, TypeFacts
    <3>2. sequence[Cell(E)] = E
      BY <3>1 DEF TicketInv, CheckedCell
    <3>3. CASE E = D + Size
      <4>1. Cell(E) = Cell(D)
        BY <3>3, CellNextLap, TypeFacts
      <4>2. i # D
        BY <1>0, <1>2, <3>2, <3>3, <4>1, TypeFacts
      <4>3. D \in D..(D + Size - 1)
        BY <1>0, TypeFacts
      <4> QED
        BY <1>5, <3>2, <4>1, <4>2, <4>3
    <3>4. CASE E < D + Size
      <4>1. E \in D..(D + Size - 1) /\ E # i
        BY <1>0, <1>2, <3>4, TypeFacts
      <4> QED
        BY <1>5, <3>2, <4>1
    <3> QED
      BY <1>0, <1>2, <3>3, <3>4, TypeFacts
  <2>2. ASSUME NEW c \in Consumer, pc'[c] = "d_cas", index'[c] = D
        PROVE  sequence'[Cell(D)] = D + 1
    <3>1. pc[c] = "d_cas" /\ index[c] = D
      BY <1>0, <1>1, <2>2, TypeFacts
    <3>2. sequence[Cell(D)] = D + 1
      BY <3>1 DEF TicketInv, CheckedCell
    <3>3. D # i /\ D \in D..(D + Size - 1)
      BY <1>0, <1>2, <3>2, TypeFacts
    <3> QED
      BY <1>5, <3>2, <3>3
  <2> QED
    BY <1>1, <2>1, <2>2 DEF CheckedCell
<1>12. IndexBehind'
  BY <1>1, TypeFacts DEF TicketInv, IndexBehind
<1> QED
  BY <1>7, <1>8, <1>9, <1>10, <1>11, <1>12 DEF TicketInv

\* TicketInv is kept by the store that gives a cell to the next lap (78).
LEMMA DequeueReleaseTicket ==
  ASSUME TypeOK, TicketInv, NEW c \in Consumer, DequeueRelease(c)
  PROVE  TicketInv'
<1> DEFINE E == enqueue_index
<1> DEFINE D == dequeue_index
<1> DEFINE j == index[c]
<1>0. /\ c \in Thread /\ c \notin Producer /\ Size \in Nat /\ Size >= 2
      /\ j \in Nat /\ Cell(j) \in Slot /\ Cell(j + Size) = Cell(j)
  BY ThreadAssumption, SizeAssumption, TypeFacts, CellInSlot, CellNextLap
<1>1. /\ UNCHANGED <<enqueue_index, dequeue_index>>
      /\ sequence' = [sequence EXCEPT ![Cell(j)] = j + Size]
      /\ pc[c] = "d_release" /\ pc'[c] = "idle" /\ index'[c] = 0
      /\ \A t \in Thread \ {c} : pc'[t] = pc[t] /\ index'[t] = index[t]
  BY <1>0, TypeFacts DEF DequeueRelease, Return, Goto
<1>2. /\ j < D /\ E <= j + Size /\ D <= E /\ E <= D + Size
      /\ sequence[Cell(j)] = j + 1
      /\ \A d \in Consumer \ {c} : Drains(d) => index[d] # j
  BY <1>1 DEF TicketInv, IndexOrder, DrainsOwnTicket, Drains
<1>3. j + Size \in D..(D + Size - 1)
  BY <1>0, <1>2, TypeFacts
<1>4. /\ sequence'[Cell(j)] = j + Size
      /\ \A k \in Int :
           Cell(k) # Cell(j) => sequence'[Cell(k)] = sequence[Cell(k)]
  BY <1>0, <1>1, TypeFacts
<1>5. \A k \in D..(D + Size - 1) :
        k # j + Size => sequence'[Cell(k)] = sequence[Cell(k)]
  BY <1>0, <1>3, <1>4, WindowCells
<1>6. /\ \A d \in Consumer \ {c} : /\ Drains(d)' <=> Drains(d)
                                   /\ index'[d] = index[d]
      /\ ~ Drains(c)'
      /\ \A p \in Producer : /\ Fills(p)' <=> Fills(p)
                             /\ index'[p] = index[p]
  BY <1>0, <1>1, TypeFacts DEF Fills, Drains
<1>7. IndexOrder'
  BY <1>1 DEF TicketInv, IndexOrder
<1>8. CellState'
  <2> SUFFICES ASSUME NEW k \in D..(D + Size - 1)
               PROVE  IF k < E
                      THEN \/ sequence'[Cell(k)] = k + 1
                           \/ /\ sequence'[Cell(k)] = k
                              /\ \E q \in Producer : Fills(q)' /\ index'[q] = k
                      ELSE \/ sequence'[Cell(k)] = k
                           \/ /\ sequence'[Cell(k)] = (k - Size) + 1
                              /\ \E d \in Consumer :
                                   Drains(d)' /\ index'[d] = k - Size
    BY <1>1 DEF CellState
  <2>1. CASE k = j + Size
    BY <1>0, <1>2, <1>4, <2>1, TypeFacts
  <2>2. CASE k # j + Size /\ k < E
    <3>1. \/ sequence[Cell(k)] = k + 1
          \/ /\ sequence[Cell(k)] = k
             /\ \E q \in Producer : Fills(q) /\ index[q] = k
      BY <2>2 DEF TicketInv, CellState
    <3> QED
      BY <1>5, <1>6, <2>2, <3>1
  <2>3. CASE k # j + Size /\ ~ (k < E)
    <3>1. k - Size # j
      BY <1>0, <2>3, TypeFacts
    <3>2. \/ sequence[Cell(k)] = k
          \/ /\ sequence[Cell(k)] = (k - Size) + 1
             /\ \E d \in Consumer \ {c} : Drains(d) /\ index[d] = k - Size
      BY <2>3, <3>1 DEF TicketInv, CellState
    <3> QED
      BY <1>5, <1>6, <2>3, <3>2
  <2> QED
    BY <2>1, <2>2, <2>3
<1>9. FillsOwnTicket'
  <2>1. ASSUME NEW p \in Producer, Fills(p)
        PROVE  /\ D <= index[p] /\ index[p] < E
               /\ sequence'[Cell(index[p])] = index[p]
    <3>1. /\ D <= index[p] /\ index[p] < E
          /\ sequence[Cell(index[p])] = index[p]
      BY <2>1 DEF TicketInv, FillsOwnTicket
    <3>2. index[p] \in D..(D + Size - 1) /\ index[p] # j + Size
      BY <1>0, <1>2, <3>1, TypeFacts
    <3> QED
      BY <1>5, <3>1, <3>2
  <2> QED
    BY <1>1, <1>6, <2>1 DEF TicketInv, FillsOwnTicket
<1>10. DrainsOwnTicket'
  <2>1. ASSUME NEW d \in Consumer \ {c}, Drains(d)
        PROVE  /\ index[d] < D /\ E <= index[d] + Size
               /\ sequence'[Cell(index[d])] = index[d] + 1
    <3>1. /\ index[d] < D /\ E <= index[d] + Size
          /\ sequence[Cell(index[d])] = index[d] + 1
      BY <2>1 DEF TicketInv, DrainsOwnTicket
    <3>2. index[d] + Size \in D..(D + Size - 1) /\ index[d] + Size # j + Size
      BY <1>0, <1>2, <2>1, <3>1, TypeFacts
    <3>3. Cell(index[d] + Size) = Cell(index[d])
      BY CellNextLap, TypeFacts
    <3> QED
      BY <1>5, <3>1, <3>2, <3>3
  <2>2. \A d, e \in Consumer \ {c} :
          Drains(d) /\ Drains(e) /\ index[d] = index[e] => d = e
    BY DEF TicketInv, DrainsOwnTicket
  <2> QED
    BY <1>1, <1>6, <2>1, <2>2 DEF DrainsOwnTicket
<1>11. CheckedCell'
  <2>1. ASSUME NEW p \in Producer, pc'[p] = "e_cas", index'[p] = E
        PROVE  sequence'[Cell(E)] = E
    <3>1. pc[p] = "e_cas" /\ index[p] = E
      BY <1>0, <1>1, <2>1, TypeFacts
    <3>2. sequence[Cell(E)] = E
      BY <3>1 DEF TicketInv, CheckedCell
    <3>3. E # j + Size
      BY <1>0, <1>2, <3>2, TypeFacts
    <3>4. E \in D..(D + Size - 1)
      BY <1>0, <1>2, <3>3, TypeFacts
    <3> QED
      BY <1>5, <3>2, <3>3, <3>4
  <2>2. ASSUME NEW d \in Consumer, pc'[d] = "d_cas", index'[d] = D
        PROVE  sequence'[Cell(D)] = D + 1
    <3>1. d # c /\ pc[d] = "d_cas" /\ index[d] = D
      BY <1>1, <2>2, TypeFacts
    <3>2. sequence[Cell(D)] = D + 1
      BY <3>1 DEF TicketInv, CheckedCell
    <3>3. D # j + Size
      BY <1>0, <1>2, <3>2, TypeFacts
    <3>4. D \in D..(D + Size - 1)
      BY <1>0, TypeFacts
    <3> QED
      BY <1>5, <3>2, <3>3, <3>4
  <2> QED
    BY <1>1, <2>1, <2>2 DEF CheckedCell
<1>12. IndexBehind'
  BY <1>1, TypeFacts DEF TicketInv, IndexBehind
<1> QED
  BY <1>7, <1>8, <1>9, <1>10, <1>11, <1>12 DEF TicketInv

\* The invariant of the queue: tickets and cells agree, whatever the threads,
\* the size and the number of values.
THEOREM TicketInvariant == Spec => []TicketInv
<1>1. TypeOK /\ TicketInv /\ [Next]_vars => TicketInv'
  <2> SUFFICES ASSUME TypeOK, TicketInv, [Next]_vars PROVE TicketInv'
    OBVIOUS
  <2>1. ASSUME NEW p \in Producer, Enqueue(p) PROVE TicketInv'
    <3>1. CASE EnqueueWin(p)
      BY <3>1, EnqueueWinTicket
    <3>2. CASE EnqueuePublish(p)
      BY <3>2, EnqueuePublishTicket
    <3>3. CASE \/ \E v \in Value : EnqueueCall(p, v)
               \/ EnqueueLoadIndex(p)
               \/ EnqueueCellFree(p)
               \/ EnqueueFull(p)
               \/ EnqueueBehind(p)
               \/ EnqueueLose(p)
               \/ EnqueueWrite(p)
      BY <3>3, EnqueueQuietTicket
    <3> QED
      BY <2>1, <3>1, <3>2, <3>3 DEF Enqueue
  <2>2. ASSUME NEW c \in Consumer, Dequeue(c) PROVE TicketInv'
    <3>1. CASE DequeueWin(c)
      BY <3>1, DequeueWinTicket
    <3>2. CASE DequeueRelease(c)
      BY <3>2, DequeueReleaseTicket
    <3>3. CASE \/ DequeueCall(c)
               \/ DequeueLoadIndex(c)
               \/ DequeueCellReady(c)
               \/ DequeueEmpty(c)
               \/ DequeueBehind(c)
               \/ DequeueLose(c)
               \/ DequeueRead(c)
      BY <3>3, DequeueQuietTicket
    <3> QED
      BY <2>2, <3>1, <3>2, <3>3 DEF Dequeue
  <2>3. CASE UNCHANGED vars
    BY <2>3, QuietStep DEF vars, TicketInv, IndexOrder, CellState,
       FillsOwnTicket, DrainsOwnTicket, CheckedCell, IndexBehind, Fills, Drains
  <2> QED
    BY <2>1, <2>2, <2>3 DEF Next
<1> QED
  BY InitTicket, TypeCorrect, <1>1, PTL DEF Spec

\* TicketInv keeps the threads out of each other's cells (48, 77).
LEMMA TicketsExclude ==
  ASSUME TypeOK, TicketInv
  PROVE  ExclusiveCellAccess
<1> DEFINE E == enqueue_index
<1> DEFINE D == dequeue_index
<1>0. Size \in Nat /\ Size >= 2
  BY SizeAssumption
<1>1. ASSUME NEW p \in Producer, Fills(p)
      PROVE  index[p] \in D..(D + Size - 1) /\ index[p] < E
  <2>1. D <= index[p] /\ index[p] < E /\ E <= D + Size
    BY <1>1 DEF TicketInv, FillsOwnTicket, IndexOrder
  <2> QED
    BY <1>0, <2>1, TypeFacts
<1>2. ASSUME NEW c \in Consumer, Drains(c)
      PROVE  /\ index[c] + Size \in D..(D + Size - 1) /\ E <= index[c] + Size
             /\ Cell(index[c] + Size) = Cell(index[c])
  <2>1. index[c] < D /\ E <= index[c] + Size /\ D <= E
    BY <1>2 DEF TicketInv, DrainsOwnTicket, IndexOrder
  <2> QED
    BY <1>0, <2>1, TypeFacts, CellNextLap
<1>3. ASSUME NEW p \in Producer, NEW q \in Producer, p # q, Fills(p), Fills(q)
      PROVE  Cell(index[p]) # Cell(index[q])
  <2>1. index[p] # index[q]
    BY <1>3 DEF TicketInv, FillsOwnTicket
  <2> QED
    BY <1>1, <1>3, <2>1, WindowCells
<1>4. ASSUME NEW c \in Consumer, NEW d \in Consumer, c # d, Drains(c), Drains(d)
      PROVE  Cell(index[c]) # Cell(index[d])
  <2>1. index[c] # index[d]
    BY <1>4 DEF TicketInv, DrainsOwnTicket
  <2>2. index[c] + Size # index[d] + Size
    BY <1>0, <2>1, TypeFacts
  <2> QED
    BY <1>2, <1>4, <2>2, WindowCells
<1>5. ASSUME NEW p \in Producer, NEW c \in Consumer, Fills(p), Drains(c)
      PROVE  Cell(index[p]) # Cell(index[c])
  <2>1. index[p] # index[c] + Size
    BY <1>0, <1>1, <1>2, <1>5, TypeFacts
  <2> QED
    BY <1>1, <1>2, <1>5, <2>1, WindowCells
<1>6. ASSUME NEW t \in Thread
      PROVE  /\ Fills(t) => t \in Producer
             /\ Drains(t) => t \in Consumer
  BY DEF TypeOK, Thread, Fills, Drains
<1> QED
  BY <1>3, <1>4, <1>5, <1>6 DEF ExclusiveCellAccess, Owns

\* No two threads are ever in the data_ of one cell at a time, for any number
\* of producers, consumers, cells and values.
THEOREM ExclusiveAccess == Spec => []ExclusiveCellAccess
BY TypeCorrect, TicketInvariant, TicketsExclude, PTL
-----------------------------------------------------------------------------
\* Every cell is the cell of one ticket of the window.
LEMMA WindowCovers ==
  ASSUME NEW D \in Nat, NEW x \in Slot
  PROVE  \E k \in D..(D + Size - 1) : Cell(k) = x
<1> DEFINE d == D \div Size
<1> DEFINE r == Cell(D)
<1>1. d \in Int /\ r \in Slot /\ D = Size * d + r
  BY Lap, CellInSlot
<1> HIDE DEF d, r
<1>2. /\ Size \in Nat /\ r \in Int /\ x \in Int
      /\ 0 <= r /\ r < Size /\ 0 <= x /\ x < Size
  BY <1>1, SizeAssumption DEF Slot
<1>3. Size * d \in Int /\ Size * (d + 1) = Size * d + Size
  BY <1>1, <1>2
<1>4. CASE r <= x
  <2> DEFINE k == D + (x - r)
  <2>1. k \in D..(D + Size - 1) /\ k \in Int /\ k = Size * d + x
    BY <1>1, <1>2, <1>3, <1>4
  <2> HIDE DEF k
  <2>2. Cell(k) = x
    BY <1>1, <2>1, LapUnique
  <2> QED
    BY <2>1, <2>2
<1>5. CASE x < r
  <2> DEFINE k == D + (x - r) + Size
  <2>1. k \in D..(D + Size - 1) /\ k \in Int /\ k = Size * (d + 1) + x
    BY <1>1, <1>2, <1>3, <1>5
  <2> HIDE DEF k
  <2>2. d + 1 \in Int
    BY <1>1
  <2>3. Cell(k) = x
    BY <2>1, <2>2, LapUnique
  <2> QED
    BY <2>1, <2>3
<1> QED
  BY <1>2, <1>4, <1>5

\* A ticket that left the window finds its cell at a later number than its
\* own: neither test (33-43, 62-72) takes an old index for a full or an empty
\* queue.
LEMMA OldTicketIsBehind ==
  ASSUME TypeOK, TicketInv, NEW i \in Nat, i < dequeue_index
  PROVE  sequence[Cell(i)] >= i + 1
<1> DEFINE D == dequeue_index
<1>0. D \in Nat /\ Size \in Nat /\ Cell(i) \in Slot
  BY TypeFacts, SizeAssumption, CellInSlot
<1>1. PICK k \in D..(D + Size - 1) : Cell(k) = Cell(i)
  BY <1>0, WindowCovers
<1>2. k >= i + Size
  <2>1. k \in Int /\ i < k
    BY <1>0, <1>1
  <2> QED
    BY <1>0, <1>1, <2>1, CellsDiffer
<1>3. \/ sequence[Cell(k)] = k + 1
      \/ sequence[Cell(k)] = k
      \/ sequence[Cell(k)] = (k - Size) + 1
  BY DEF TicketInv, CellState
<1> QED
  BY <1>0, <1>1, <1>2, <1>3, SizeAssumption

\* A thread that leaves its test (33-43, 62-72) with nothing done has returned
\* false: no other step of its own, and no step of another thread, does that.
LEMMA OnlyFullReturnsFalse ==
  ASSUME TypeOK, [Next]_vars, NEW p \in Producer,
         pc[p] = "e_seq", pc'[p] = "idle"
  PROVE  EnqueueFull(p)
<1>0. p \in Thread /\ p \notin Consumer /\ pc \in [Thread -> Label]
  BY ThreadAssumption, TypeFacts
<1>1. ASSUME NEW q \in Producer, Enqueue(q), q # p PROVE FALSE
  BY <1>0, <1>1 DEF Enqueue, EnqueueCall, EnqueueLoadIndex, EnqueueCellFree,
     EnqueueFull, EnqueueBehind, EnqueueWin, EnqueueLose, EnqueueWrite,
     EnqueuePublish, Return, Goto
<1>2. ASSUME NEW c \in Consumer, Dequeue(c) PROVE FALSE
  BY <1>0, <1>2 DEF Dequeue, DequeueCall, DequeueLoadIndex, DequeueCellReady,
     DequeueEmpty, DequeueBehind, DequeueWin, DequeueLose, DequeueRead,
     DequeueRelease, Return, Goto
<1>3. CASE Enqueue(p)
  BY <1>0, <1>3 DEF Enqueue, EnqueueCall, EnqueueLoadIndex, EnqueueCellFree,
     EnqueueBehind, EnqueueWin, EnqueueLose, EnqueueWrite, EnqueuePublish, Goto
<1>4. CASE UNCHANGED vars
  BY <1>4 DEF vars
<1> QED
  BY <1>1, <1>2, <1>3, <1>4 DEF Next

\* The same of a consumer (62-72).
LEMMA OnlyEmptyReturnsFalse ==
  ASSUME TypeOK, [Next]_vars, NEW c \in Consumer,
         pc[c] = "d_seq", pc'[c] = "idle"
  PROVE  DequeueEmpty(c)
<1>0. c \in Thread /\ c \notin Producer /\ pc \in [Thread -> Label]
  BY ThreadAssumption, TypeFacts
<1>1. ASSUME NEW p \in Producer, Enqueue(p) PROVE FALSE
  BY <1>0, <1>1 DEF Enqueue, EnqueueCall, EnqueueLoadIndex, EnqueueCellFree,
     EnqueueFull, EnqueueBehind, EnqueueWin, EnqueueLose, EnqueueWrite,
     EnqueuePublish, Return, Goto
<1>2. ASSUME NEW d \in Consumer, Dequeue(d), d # c PROVE FALSE
  BY <1>0, <1>2 DEF Dequeue, DequeueCall, DequeueLoadIndex, DequeueCellReady,
     DequeueEmpty, DequeueBehind, DequeueWin, DequeueLose, DequeueRead,
     DequeueRelease, Return, Goto
<1>3. CASE Dequeue(c)
  BY <1>0, <1>3 DEF Dequeue, DequeueCall, DequeueLoadIndex, DequeueCellReady,
     DequeueBehind, DequeueWin, DequeueLose, DequeueRead, DequeueRelease, Goto
<1>4. CASE UNCHANGED vars
  BY <1>4 DEF vars
<1> QED
  BY <1>1, <1>2, <1>3, <1>4 DEF Next

\* enqueue() returns false (43) only when the queue is full: all cells are
\* taken, or the oldest is still being drained.  A stale index never does it.
THEOREM EnqueueFullTheorem == Spec => EnqueueFailsOnlyWhenFull
<1>1. ASSUME TypeOK, TicketInv, [Next]_vars, NEW p \in Producer,
             pc[p] = "e_seq", pc'[p] = "idle"
      PROVE  \/ enqueue_index = dequeue_index + Size
             \/ \E c \in Consumer : Drains(c) /\ index[c] = enqueue_index - Size
  <2> DEFINE E == enqueue_index
  <2> DEFINE D == dequeue_index
  <2> DEFINE i == index[p]
  <2>0. /\ E \in Nat /\ D \in Nat /\ i \in Nat /\ Size \in Nat /\ Size >= 2
        /\ sequence[Cell(i)] \in Nat
    BY <1>1, TypeFacts, SizeAssumption
  <2>1. sequence[Cell(i)] < i
    BY <1>1, <2>0, OnlyFullReturnsFalse DEF EnqueueFull, EnqueueDiff
  <2>2. i <= E /\ D <= E /\ E <= D + Size
    BY <1>1 DEF TicketInv, IndexBehind, IndexOrder
  <2>3. D <= i
    BY <1>1, <2>0, <2>1, OldTicketIsBehind
  <2>4. CASE i = D + Size
    BY <2>0, <2>2, <2>4
  <2>5. CASE i < D + Size
    <3>1. i \in D..(D + Size - 1)
      BY <2>0, <2>3, <2>5
    <3>2. ~ (i < E)
      BY <1>1, <2>0, <2>1, <3>1 DEF TicketInv, CellState
    <3>3. i = E
      BY <2>0, <2>2, <3>2
    <3>4. \E c \in Consumer : Drains(c) /\ index[c] = i - Size
      BY <1>1, <2>0, <2>1, <3>1, <3>2 DEF TicketInv, CellState
    <3> QED
      BY <3>3, <3>4
  <2> QED
    BY <2>0, <2>2, <2>4, <2>5
<1>2. TypeOK /\ TicketInv /\ [Next]_vars =>
        [\A p \in Producer : pc[p] = "e_seq" /\ pc'[p] = "idle" =>
           \/ enqueue_index = dequeue_index + Size
           \/ \E c \in Consumer :
                Drains(c) /\ index[c] = enqueue_index - Size]_vars
  BY <1>1
<1> QED
  BY <1>2, TypeCorrect, TicketInvariant, PTL DEF Spec, EnqueueFailsOnlyWhenFull

\* dequeue() returns false (72) only when the queue is empty, or the producer
\* of the oldest ticket has not published it.  A stale index never does it.
THEOREM DequeueEmptyTheorem == Spec => DequeueFailsOnlyWhenEmpty
<1>1. ASSUME TypeOK, TicketInv, [Next]_vars, NEW c \in Consumer,
             pc[c] = "d_seq", pc'[c] = "idle"
      PROVE  \/ dequeue_index = enqueue_index
             \/ \E p \in Producer : Fills(p) /\ index[p] = dequeue_index
  <2> DEFINE E == enqueue_index
  <2> DEFINE D == dequeue_index
  <2> DEFINE j == index[c]
  <2>0. /\ E \in Nat /\ D \in Nat /\ j \in Nat /\ Size \in Nat /\ Size >= 2
        /\ sequence[Cell(j)] \in Nat
    BY <1>1, TypeFacts, SizeAssumption
  <2>1. sequence[Cell(j)] < j + 1
    BY <1>1, <2>0, OnlyEmptyReturnsFalse DEF DequeueEmpty, DequeueDiff
  <2>2. j <= D /\ D <= E
    BY <1>1 DEF TicketInv, IndexBehind, IndexOrder
  <2>3. j = D
    BY <1>1, <2>0, <2>1, <2>2, OldTicketIsBehind
  <2>4. D \in D..(D + Size - 1)
    BY <2>0
  <2>5. CASE D < E
    BY <1>1, <2>0, <2>1, <2>3, <2>4, <2>5 DEF TicketInv, CellState
  <2> QED
    BY <2>0, <2>2, <2>5
<1>2. TypeOK /\ TicketInv /\ [Next]_vars =>
        [\A c \in Consumer : pc[c] = "d_seq" /\ pc'[c] = "idle" =>
           \/ dequeue_index = enqueue_index
           \/ \E p \in Producer : Fills(p) /\ index[p] = dequeue_index]_vars
  BY <1>1
<1> QED
  BY <1>2, TypeCorrect, TicketInvariant, PTL DEF Spec, DequeueFailsOnlyWhenEmpty
-----------------------------------------------------------------------------
\* The value of a ticket whose producer is still to write it (48) is the
\* parameter of that enqueue().
LEMMA WrittenValue ==
  TypeOK /\ TicketInv =>
    \A k : \A p \in Producer :
      pc[p] = "e_write" /\ index[p] = k => ValueOf(k) = arg[p]
<1> SUFFICES ASSUME TypeOK, TicketInv, NEW k, NEW p \in Producer,
                    pc[p] = "e_write", index[p] = k
             PROVE  ValueOf(k) = arg[p]
  OBVIOUS
<1> DEFINE Writes(q) == pc[q] = "e_write" /\ index[q] = k
<1>1. \A q \in Producer : Writes(q) <=> q = p
  BY DEF TicketInv, FillsOwnTicket, Fills
<1>2. (CHOOSE q \in Producer : Writes(q)) = p
  BY <1>1
<1> QED
  BY <1>1, <1>2 DEF ValueOf

\* The value of any other ticket is what its cell holds.
LEMMA StoredValue ==
  ASSUME NEW k, \A p \in Producer : ~ (pc[p] = "e_write" /\ index[p] = k)
  PROVE  ValueOf(k) = data[Cell(k)]
BY DEF ValueOf

\* The same, after the step.
LEMMA StoredValueNext ==
  ASSUME NEW k, \A p \in Producer : ~ (pc'[p] = "e_write" /\ index'[p] = k)
  PROVE  ValueOf(k)' = data'[Cell(k)]
BY DEF ValueOf

\* What the queue holds is a value, or data no one has written.
LEMMA ValueType ==
  TypeOK /\ TicketInv => \A k \in Int : ValueOf(k) \in Value \cup {NoValue}
<1> SUFFICES ASSUME TypeOK, TicketInv, NEW k \in Int
             PROVE  ValueOf(k) \in Value \cup {NoValue}
  OBVIOUS
<1>1. CASE \E p \in Producer : pc[p] = "e_write" /\ index[p] = k
  BY <1>1, WrittenValue DEF TypeOK
<1>2. CASE ~ \E p \in Producer : pc[p] = "e_write" /\ index[p] = k
  BY <1>2, StoredValue, CellInSlot DEF TypeOK
<1> QED
  BY <1>1, <1>2

\* What is known of the values, after the step.
LEMMA ValueNext ==
  ASSUME (TypeOK /\ TicketInv)'
  PROVE  /\ \A k : \A p \in Producer :
              pc'[p] = "e_write" /\ index'[p] = k => ValueOf(k)' = arg'[p]
         /\ \A k \in Int : ValueOf(k)' \in Value \cup {NoValue}
<1>1. (TypeOK /\ TicketInv)' =>
        (\A k : \A p \in Producer :
           pc[p] = "e_write" /\ index[p] = k => ValueOf(k) = arg[p])'
  BY WrittenValue, PTL
<1>2. (TypeOK /\ TicketInv)' =>
        (\A k \in Int : ValueOf(k) \in Value \cup {NoValue})'
  BY ValueType, PTL
<1> QED
  BY <1>1, <1>2

\* A value stays what it is through a step that leaves its cell and the
\* producer that may still have to write it alone.
LEMMA SameValue ==
  ASSUME TypeOK, TicketInv, TypeOK', TicketInv', NEW k \in Int,
         data'[Cell(k)] = data[Cell(k)],
         \A p \in Producer : (pc'[p] = "e_write" /\ index'[p] = k)
                               <=> (pc[p] = "e_write" /\ index[p] = k),
         \A p \in Producer : pc[p] = "e_write" => arg'[p] = arg[p]
  PROVE  ValueOf(k)' = ValueOf(k)
<1>1. CASE \E p \in Producer : pc[p] = "e_write" /\ index[p] = k
  <2>1. PICK p \in Producer : pc[p] = "e_write" /\ index[p] = k
    BY <1>1
  <2>2. ValueOf(k) = arg[p]
    BY <2>1, WrittenValue
  <2>3. ValueOf(k)' = arg'[p]
    BY <2>1, ValueNext
  <2> QED
    BY <2>1, <2>2, <2>3
<1>2. CASE ~ \E p \in Producer : pc[p] = "e_write" /\ index[p] = k
  BY <1>2, StoredValue, StoredValueNext
<1> QED
  BY <1>1, <1>2

\* The queue is the same when no ticket is won and no value changes.
LEMMA SameItems ==
  ASSUME UNCHANGED <<enqueue_index, dequeue_index>>, TypeOK,
         \A k \in dequeue_index..(enqueue_index - 1) : ValueOf(k)' = ValueOf(k)
  PROVE  QueueItems' = QueueItems
<1>1. \A i \in 1..(enqueue_index - dequeue_index) :
        ValueOf(dequeue_index + i - 1)' = ValueOf(dequeue_index + i - 1)
  <2> SUFFICES ASSUME NEW i \in 1..(enqueue_index - dequeue_index)
               PROVE  ValueOf(dequeue_index + i - 1)'
                        = ValueOf(dequeue_index + i - 1)
    OBVIOUS
  <2> DEFINE k == dequeue_index + i - 1
  <2>1. k \in dequeue_index..(enqueue_index - 1)
    BY TypeFacts
  <2> QED
    BY <2>1
<1> QED
  BY <1>1 DEF QueueItems

\* The loads, tests and stores of enqueue() change nothing for its users.
LEMMA EnqueueKeepsQueue ==
  ASSUME TypeOK, TicketInv, TypeOK', TicketInv', NEW p \in Producer,
         \/ \E v \in Value : EnqueueCall(p, v)
         \/ EnqueueLoadIndex(p)
         \/ EnqueueCellFree(p)
         \/ EnqueueFull(p)
         \/ EnqueueBehind(p)
         \/ EnqueueLose(p)
         \/ EnqueuePublish(p)
  PROVE  UNCHANGED <<QueueItems, QueueHand>>
<1>0. p \in Thread /\ p \notin Consumer
  BY ThreadAssumption, TypeFacts
<1>1. /\ UNCHANGED <<data, enqueue_index, dequeue_index, out>>
      /\ pc[p] # "e_write" /\ pc'[p] # "e_write"
      /\ \A t \in Thread \ {p} : pc'[t] = pc[t] /\ index'[t] = index[t]
      /\ \A q \in Producer \ {p} : arg'[q] = arg[q]
  BY <1>0 DEF TypeOK, EnqueueCall, EnqueueLoadIndex, EnqueueCellFree,
     EnqueueFull, EnqueueBehind, EnqueueLose, EnqueuePublish, Return, Goto
<1>2. \A k \in Int : ValueOf(k)' = ValueOf(k)
  BY <1>1, SameValue, TypeFacts
<1>3. QueueItems' = QueueItems
  BY <1>1, <1>2, SameItems, TypeFacts
<1>4. QueueHand' = QueueHand
  BY <1>0, <1>1, TypeFacts DEF QueueHand
<1> QED
  BY <1>3, <1>4

\* The loads, tests, the move and the store of dequeue() change nothing for its
\* users: the value was handed out when the ticket was won.
LEMMA DequeueKeepsQueue ==
  ASSUME TypeOK, TicketInv, TypeOK', TicketInv', NEW c \in Consumer,
         \/ DequeueCall(c)
         \/ DequeueLoadIndex(c)
         \/ DequeueCellReady(c)
         \/ DequeueEmpty(c)
         \/ DequeueBehind(c)
         \/ DequeueLose(c)
         \/ DequeueRead(c)
         \/ DequeueRelease(c)
  PROVE  UNCHANGED <<QueueItems, QueueHand>>
<1>0. c \in Thread /\ c \notin Producer
  BY ThreadAssumption, TypeFacts
<1>1. /\ UNCHANGED <<data, enqueue_index, dequeue_index, arg>>
      /\ pc'[c] # "d_read"
      /\ \A t \in Thread \ {c} : pc'[t] = pc[t] /\ index'[t] = index[t]
      /\ \A d \in Consumer \ {c} : out'[d] = out[d]
      /\ out'[c] = IF pc[c] = "d_read" THEN data[Cell(index[c])] ELSE out[c]
  BY <1>0 DEF TypeOK, DequeueCall, DequeueLoadIndex, DequeueCellReady,
     DequeueEmpty, DequeueBehind, DequeueLose, DequeueRead, DequeueRelease,
     Return, Goto
<1>2. \A k \in Int : ValueOf(k)' = ValueOf(k)
  BY <1>0, <1>1, SameValue, TypeFacts
<1>3. QueueItems' = QueueItems
  BY <1>1, <1>2, SameItems, TypeFacts
<1>4. QueueHand' = QueueHand
  BY <1>0, <1>1, TypeFacts DEF QueueHand
<1> QED
  BY <1>3, <1>4

\* The write (48) is invisible: the value was in the queue already, and no
\* other ticket of the window, and no consumer, looks at that cell.
LEMMA WriteKeepsQueue ==
  ASSUME TypeOK, TicketInv, TypeOK', TicketInv', NEW p \in Producer,
         EnqueueWrite(p)
  PROVE  UNCHANGED <<QueueItems, QueueHand>>
<1> DEFINE E == enqueue_index
<1> DEFINE D == dequeue_index
<1> DEFINE i == index[p]
<1>0. /\ p \in Thread /\ p \notin Consumer /\ Size \in Nat /\ Size >= 2
      /\ i \in Nat /\ Cell(i) \in Slot
  BY ThreadAssumption, SizeAssumption, TypeFacts
<1>1. /\ UNCHANGED <<enqueue_index, dequeue_index, out, arg, index>>
      /\ pc[p] = "e_write" /\ pc'[p] = "e_publish"
      /\ \A t \in Thread \ {p} : pc'[t] = pc[t]
      /\ data' = [data EXCEPT ![Cell(i)] = arg[p]]
  BY <1>0 DEF TypeOK, EnqueueWrite, Goto
<1>2. /\ data'[Cell(i)] = arg[p]
      /\ \A k \in Int : Cell(k) # Cell(i) => data'[Cell(k)] = data[Cell(k)]
  BY <1>0, <1>1, CellInSlot DEF TypeOK
<1>3. i \in D..(D + Size - 1) /\ E <= D + Size
  <2>1. D <= i /\ i < E /\ E <= D + Size
    BY <1>1 DEF TicketInv, FillsOwnTicket, IndexOrder, Fills
  <2> QED
    BY <1>0, <2>1, TypeFacts
<1>4. ASSUME NEW k \in D..(E - 1) PROVE ValueOf(k)' = ValueOf(k)
  <2>1. CASE k = i
    <3>1. ValueOf(k) = arg[p]
      BY <1>1, <2>1, WrittenValue
    <3>2. \A q \in Producer : ~ (pc'[q] = "e_write" /\ index'[q] = k)
      BY <1>0, <1>1, <2>1, TypeFacts DEF TicketInv, FillsOwnTicket, Fills
    <3>3. ValueOf(k)' = data'[Cell(k)]
      BY <3>2, StoredValueNext
    <3> QED
      BY <1>2, <2>1, <3>1, <3>3
  <2>2. CASE k # i
    <3>1. k \in D..(D + Size - 1) /\ k \in Int
      BY <1>0, <1>3, TypeFacts
    <3>2. data'[Cell(k)] = data[Cell(k)]
      BY <1>0, <1>2, <1>3, <2>2, <3>1, WindowCells, TypeFacts
    <3>3. \A q \in Producer : (pc'[q] = "e_write" /\ index'[q] = k)
                                <=> (pc[q] = "e_write" /\ index[q] = k)
      BY <1>0, <1>1, <2>2, TypeFacts
    <3> QED
      BY <1>1, <3>1, <3>2, <3>3, SameValue
  <2> QED
    BY <2>1, <2>2
<1>5. QueueItems' = QueueItems
  BY <1>1, <1>4, SameItems
<1>6. ASSUME NEW c \in Consumer, pc[c] = "d_read"
      PROVE  data'[Cell(index[c])] = data[Cell(index[c])]
  <2>1. Cell(index[c]) # Cell(i)
    BY <1>0, <1>1, <1>6, TicketsExclude, TypeFacts
       DEF ExclusiveCellAccess, Owns, Fills, Drains
  <2> QED
    BY <1>2, <2>1, TypeFacts
<1>7. QueueHand' = QueueHand
  BY <1>0, <1>1, <1>6, TypeFacts DEF QueueHand
<1> QED
  BY <1>5, <1>7

\* An empty queue and no value held, when the constructor (14-23) is done.
LEMMA InitRefines == Init => Queue!Init
<1> SUFFICES ASSUME Init PROVE Queue!Init
  OBVIOUS
<1>1. QueueItems = <<>>
  BY DEF Init, QueueItems
<1>2. QueueHand = [c \in Consumer |-> NoValue]
  BY DEF Init, QueueHand, Thread
<1> QED
  BY <1>1, <1>2 DEF Queue!Init

\* The exchange that wins a ticket (39) is what puts the value in the queue.
LEMMA EnqueueWinPuts ==
  ASSUME TypeOK, TicketInv, TypeOK', TicketInv', NEW p \in Producer,
         EnqueueWin(p)
  PROVE  Queue!Put(arg[p])
<1>a. PICK E \in Nat, D \in Nat : E = enqueue_index /\ D = dequeue_index
  BY TypeFacts
<1> USE <1>a
<1> DEFINE S == Value \cup {NoValue}
<1> DEFINE n == E - D
<1>0. /\ p \in Thread /\ p \notin Consumer /\ Size \in Nat /\ Size >= 2
      /\ E \in Nat /\ D \in Nat /\ D <= E /\ E <= D + Size
      /\ n \in Nat /\ arg[p] \in S
  BY ThreadAssumption, SizeAssumption, TypeFacts
     DEF TicketInv, IndexOrder, TypeOK
<1>1. /\ UNCHANGED <<data, dequeue_index, out, arg, index>>
      /\ index[p] = E /\ enqueue_index' = E + 1
      /\ pc[p] = "e_cas" /\ pc'[p] = "e_write"
      /\ \A t \in Thread \ {p} : pc'[t] = pc[t]
  BY <1>0, TypeFacts DEF EnqueueWin, Goto
<1>2. n < Size
  <2> SUFFICES ASSUME E = D + Size PROVE FALSE
    BY <1>0
  <2>1. sequence[Cell(E)] = E
    BY <1>1 DEF TicketInv, CheckedCell
  <2>2. Cell(E) = Cell(D)
    BY <1>0, CellNextLap
  <2>3. sequence[Cell(D)] \in {D, D + 1}
    BY <1>0 DEF TicketInv, CellState
  <2> QED
    BY <1>0, <2>1, <2>2, <2>3
<1>3. \A k \in D..(E - 1) : ValueOf(k)' = ValueOf(k)
  <2> SUFFICES ASSUME NEW k \in D..(E - 1) PROVE ValueOf(k)' = ValueOf(k)
    OBVIOUS
  <2>1. k \in Int /\ k # index[p]
    BY <1>0, <1>1
  <2>2. \A q \in Producer : (pc'[q] = "e_write" /\ index'[q] = k)
                              <=> (pc[q] = "e_write" /\ index[q] = k)
    BY <1>0, <1>1, <2>1, TypeFacts
  <2> QED
    BY <1>1, <2>1, <2>2, SameValue
<1>4. ValueOf(E)' = arg[p]
  BY <1>1, ValueNext
<1>5. QueueItems = [j \in 1..n |-> ValueOf(D + j - 1)]
  BY DEF QueueItems
<1>6. QueueItems' = [j \in 1..(n + 1) |-> ValueOf(D + j - 1)']
  <2>1. E + 1 - D = n + 1
    BY <1>0
  <2> QED
    BY <1>1, <2>1 DEF QueueItems
<1>7. \A j \in 1..(n + 1) : D + j - 1 \in Int
  BY <1>0
<1>8. QueueItems \in [1..n -> S] /\ QueueItems' \in [1..(n + 1) -> S]
  BY <1>0, <1>5, <1>6, <1>7, ValueType, ValueNext
<1>9. \A j \in 1..n : QueueItems'[j] = QueueItems[j]
  <2> SUFFICES ASSUME NEW j \in 1..n PROVE QueueItems'[j] = QueueItems[j]
    OBVIOUS
  <2>1. D + j - 1 \in D..(E - 1) /\ j \in 1..(n + 1)
    BY <1>0
  <2> QED
    BY <1>3, <1>5, <1>6, <2>1
<1>10. QueueItems'[n + 1] = arg[p]
  <2>1. D + (n + 1) - 1 = E /\ n + 1 \in 1..(n + 1)
    BY <1>0
  <2> QED
    BY <1>4, <1>6, <2>1
<1>11. Len(QueueItems) = n /\ QueueItems' = Append(QueueItems, arg[p])
  <2> HIDE DEF n, S
  <2> QED
    BY <1>0, <1>8, <1>9, <1>10, AppendIs
<1>12. QueueHand' = QueueHand
  BY <1>0, <1>1, TypeFacts DEF QueueHand
<1> QED
  BY <1>2, <1>11, <1>12 DEF Queue!Put

\* The exchange that wins a ticket (68) is what takes the value: the oldest.
LEMMA DequeueWinTakes ==
  ASSUME TypeOK, TicketInv, TypeOK', TicketInv', NEW c \in Consumer,
         DequeueWin(c)
  PROVE  Queue!Take(c)
<1>a. PICK E \in Nat, D \in Nat : E = enqueue_index /\ D = dequeue_index
  BY TypeFacts
<1> USE <1>a
<1> DEFINE S == Value \cup {NoValue}
<1> DEFINE n == E - D
<1>0. /\ c \in Thread /\ c \notin Producer /\ Size \in Nat /\ Size >= 2
      /\ E \in Nat /\ D \in Nat /\ D <= E /\ E <= D + Size
      /\ n \in Nat
  BY ThreadAssumption, SizeAssumption, TypeFacts DEF TicketInv, IndexOrder
<1>1. /\ UNCHANGED <<data, enqueue_index, out, arg, index>>
      /\ index[c] = D /\ dequeue_index' = D + 1
      /\ pc[c] = "d_cas" /\ pc'[c] = "d_read"
      /\ \A t \in Thread \ {c} : pc'[t] = pc[t]
  BY <1>0, TypeFacts DEF DequeueWin, Goto
<1>2. sequence[Cell(D)] = D + 1
  BY <1>1 DEF TicketInv, CheckedCell
<1>3. D < E
  <2> SUFFICES ASSUME D = E PROVE FALSE
    BY <1>0
  <2>1. D + 1 <= E
    BY <1>1 DEF TicketInv, IndexOrder
  <2> QED
    BY <1>0, <2>1
<1>4. ValueOf(D) = data[Cell(D)]
  <2>1. \A p \in Producer : ~ (pc[p] = "e_write" /\ index[p] = D)
    BY <1>0, <1>2 DEF TicketInv, FillsOwnTicket, Fills
  <2> QED
    BY <2>1, StoredValue
<1>5. \A k \in Int : ValueOf(k)' = ValueOf(k)
  BY <1>0, <1>1, SameValue, TypeFacts
<1>6. QueueItems = [j \in 1..n |-> ValueOf(D + j - 1)]
  BY DEF QueueItems
<1>7. QueueItems' = [j \in 1..(n - 1) |-> ValueOf((D + 1) + j - 1)']
  <2>1. E - (D + 1) = n - 1
    BY <1>0
  <2> QED
    BY <1>1, <2>1 DEF QueueItems
<1>8. \A j \in 1..n : D + j - 1 \in Int /\ (D + 1) + j - 1 \in Int
  BY <1>0
<1>9. QueueItems \in [1..n -> S] /\ QueueItems' \in [1..(n - 1) -> S]
  BY <1>0, <1>6, <1>7, <1>8, ValueType, ValueNext
<1>10. \A j \in 1..(n - 1) : QueueItems'[j] = QueueItems[j + 1]
  <2> SUFFICES ASSUME NEW j \in 1..(n - 1)
               PROVE  QueueItems'[j] = QueueItems[j + 1]
    OBVIOUS
  <2>1. /\ (D + 1) + j - 1 = D + (j + 1) - 1
        /\ (D + 1) + j - 1 \in Int /\ j + 1 \in 1..n
    BY <1>0
  <2> QED
    BY <1>5, <1>6, <1>7, <2>1
<1>11. QueueItems[1] = data[Cell(D)]
  <2>1. D + 1 - 1 = D /\ 1 \in 1..n
    BY <1>0, <1>3
  <2> QED
    BY <1>4, <1>6, <2>1
<1>12. /\ QueueItems # <<>> /\ Head(QueueItems) = data[Cell(D)]
       /\ QueueItems' = Tail(QueueItems)
  <2>1. n # 0
    BY <1>0, <1>3
  <2> HIDE DEF n, S
  <2> QED
    BY <1>0, <1>9, <1>10, <1>11, <2>1, TailIs
<1>13. QueueHand' = [QueueHand EXCEPT ![c] = data[Cell(D)]]
  BY <1>0, <1>1, TypeFacts DEF QueueHand
<1> QED
  BY <1>12, <1>13 DEF Queue!Take

\* Whatever the interleaving, any number of producers and consumers see one
\* FIFO of Size values: the code's calls implement BoundedQueue.
THEOREM QueueRefinement == Spec => ImplementsQueue
<1>1. Init => Queue!Init
  BY InitRefines
<1>2. ASSUME TypeOK, TicketInv, TypeOK', TicketInv', [Next]_vars
      PROVE  [Queue!Next]_<<QueueItems, QueueHand>>
  <2>1. ASSUME NEW p \in Producer, Enqueue(p)
        PROVE  [Queue!Next]_<<QueueItems, QueueHand>>
    <3>1. CASE EnqueueWin(p)
      <4>1. arg[p] \in Value
        BY <1>2, <3>1 DEF TypeOK, EnqueueWin
      <4> QED
        BY <1>2, <3>1, <4>1, EnqueueWinPuts DEF Queue!Next
    <3>2. CASE EnqueueWrite(p)
      BY <1>2, <3>2, WriteKeepsQueue
    <3> QED
      BY <1>2, <2>1, <3>1, <3>2, EnqueueKeepsQueue DEF Enqueue
  <2>2. ASSUME NEW c \in Consumer, Dequeue(c)
        PROVE  [Queue!Next]_<<QueueItems, QueueHand>>
    <3>1. CASE DequeueWin(c)
      BY <1>2, <3>1, DequeueWinTakes DEF Queue!Next
    <3> QED
      BY <1>2, <2>2, <3>1, DequeueKeepsQueue DEF Dequeue
  <2>3. CASE UNCHANGED vars
    BY <2>3 DEF vars, QueueItems, QueueHand, ValueOf
  <2> QED
    BY <1>2, <2>1, <2>2, <2>3 DEF Next
<1> QED
  BY <1>1, <1>2, TypeCorrect, TicketInvariant, PTL
     DEF Spec, ImplementsQueue, Queue!Spec
=============================================================================
