------------------------- MODULE EventDispatcherProofs -------------------------
(***************************************************************************)
(* Proofs about EventDispatcher, for every set of events and any number of *)
(* dispatches.                                                             *)
(*                                                                         *)
(* The events dispatched but not queued are those taken; the runner's      *)
(* variable holds the last of them.  QueueInv says so, KnownInv that an    *)
(* event with a handler meets it when the runner looks, KeptInv that the   *)
(* kept threads are those of earlier events, and StopInv where the runner  *)
(* can be once the destructor has cleared the flag.                        *)
(***************************************************************************)
EXTENDS EventDispatcher, SequenceTheorems, TLAPS

\* An event in the queue or in the variable has a number, the destroyed
\* variable has not.
LEMMA DestroyedIsNone ==
  /\ Destroyed \notin [event : Event, number : Number]
  /\ Destroyed.number \notin Number
BY BoundAssumption DEF Destroyed, Number, NoData

\* What is left of a sequence when its first element is taken.
LEMMA HeadAndTail ==
  ASSUME NEW S, NEW s \in Seq(S), s # <<>>
  PROVE  /\ Len(s) \in Nat /\ Len(s) # 0 /\ Len(Tail(s)) = Len(s) - 1
         /\ \A i \in 1..(Len(s) - 1) : Tail(s)[i] = s[i + 1]
         /\ Head(s) = s[1] /\ Head(s) \in S /\ Tail(s) \in Seq(S)
<1>1. Len(s) \in Nat /\ Len(s) # 0
  OBVIOUS
<1> QED
  BY <1>1, HeadTailProperties

\* The state the constructor is entered with; the flag is whatever it was.
LEMMA TypeInit == Init => TypeOK
<1>1. /\ \A S : <<>> \in Seq(S)
      /\ 0 \in 0..MaxEvents /\ 0 \in Nat
  BY BoundAssumption
<1>2. [n \in Number |-> "none"]
        \in [Number -> {"none", "started", "handling", "finished"}]
  OBVIOUS
<1>3. [n \in Number |-> NoData] \in [Number -> Number \cup {NoData}]
  OBVIOUS
<1> QED
  BY <1>1, <1>2, <1>3 DEF Init, TypeOK

\* Every step keeps the types; in particular the variable of the runner holds
\* an event from the take to the end of the round (217, 233).
LEMMA TypeNext == TypeOK /\ [Next]_vars => TypeOK'
<1> SUFFICES ASSUME TypeOK, [Next]_vars PROVE TypeOK'
  OBVIOUS
<1> USE BoundAssumption
<1>1. CASE Construct
  BY <1>1 DEF Construct, TypeOK, runner, threads
<1>2. ASSUME NEW e \in Event, RegisterEventHandler(e) PROVE TypeOK'
  BY <1>2 DEF RegisterEventHandler, TypeOK, runner, threads
<1>3. ASSUME NEW e \in Event, DispatchEvent(e) PROVE TypeOK'
  <2>1. /\ dispatched + 1 \in Number
        /\ queue' \in Seq([event : Event, number : Number])
    BY <1>3 DEF DispatchEvent, TypeOK, Number
  <2>2. expected' \subseteq 1..dispatched' /\ dispatched' \in 0..MaxEvents
    BY <1>3, <2>1 DEF DispatchEvent, TypeOK, Number
  <2> QED
    BY <1>3, <2>1, <2>2 DEF DispatchEvent, TypeOK, threads
<1>4. CASE Stop \/ Join
  BY <1>4 DEF Stop, Join, TypeOK, runner, threads
<1>5. CASE TestFlag \/ Block \/ WakeSpuriously \/ Find
  BY <1>5 DEF TestFlag, Block, WakeSpuriously, Find, TypeOK, threads, owner
<1>6. CASE Take
  <2>0. queue \in Seq([event : Event, number : Number]) /\ queue # <<>>
    BY <1>6 DEF Take, TypeOK
  <2>1. /\ Head(queue) \in [event : Event, number : Number]
        /\ Tail(queue) \in Seq([event : Event, number : Number])
    BY <2>0, HeadAndTail
  <2>2. event' # Destroyed /\ rpc' = "find" /\ late' \in Nat
    BY <1>6, <2>1, DestroyedIsNone DEF Take, TypeOK
  <2> QED
    BY <1>6, <2>1, <2>2 DEF Take, TypeOK, threads, owner
<1>7. CASE StartThread
  BY <1>7 DEF StartThread, TypeOK, owner
<1>8. CASE KeepThread
  <2>1. event.number \in Number
    BY <1>8 DEF KeepThread, TypeOK
  <2>2. workers' \in Seq(Number)
    BY <1>8, <2>1 DEF KeepThread, TypeOK
  <2> QED
    BY <1>8, <2>2 DEF KeepThread, TypeOK, owner
<1>9. CASE EndRound
  BY <1>9 DEF EndRound, TypeOK, threads, owner
<1>10. ASSUME NEW n \in Number, HandleEvent(n) PROVE TypeOK'
  <2>1. event.number \in Number \cup {NoData}
    BY DEF TypeOK, Destroyed
  <2> QED
    BY <1>10, <2>1 DEF HandleEvent, TypeOK, runner, owner
<1>11. ASSUME NEW n \in Number, Finish(n) PROVE TypeOK'
  BY <1>11 DEF Finish, TypeOK, runner, owner
<1>12. CASE UNCHANGED vars
  BY <1>12 DEF TypeOK, vars, runner, threads, owner
<1> QED
  BY <1>1, <1>2, <1>3, <1>4, <1>5, <1>6, <1>7, <1>8, <1>9, <1>10, <1>11,
     <1>12 DEF Next, OwnerStep, Run

\* The types of the dispatcher, for any events and any number of them.
THEOREM TypeCorrect == Spec => []TypeOK
BY TypeInit, TypeNext, PTL DEF Spec
-----------------------------------------------------------------------------
(* The queue *)

\* Another part of the state: how many events were taken.
TakenCount == dispatched - Len(queue)

\* The queued events are the last ones dispatched, and the variable holds the
\* last one taken (217-220).
QueueInv ==
  /\ Len(queue) <= dispatched
  /\ \A i \in 1..Len(queue) : queue[i].number = TakenCount + i
  /\ event # Destroyed => event.number = TakenCount

\* What a dispatch and a take do to the queue.
LEMMA TakenStays ==
  ASSUME TypeOK, NEW e \in Event, DispatchEvent(e)
  PROVE  /\ Len(queue') = Len(queue) + 1
         /\ TakenCount' = TakenCount
         /\ \A i \in 1..Len(queue) : queue'[i] = queue[i]
         /\ queue'[Len(queue) + 1] = [event |-> e, number |-> dispatched + 1]
<1> DEFINE x == [event |-> e, number |-> dispatched + 1]
<1>1. /\ queue \in Seq([event : Event, number : Number])
      /\ x \in [event : Event, number : Number] /\ dispatched \in Nat
      /\ queue' = Append(queue, x) /\ dispatched' = dispatched + 1
  BY BoundAssumption DEF DispatchEvent, TypeOK, Number
<1> HIDE DEF x
<1>2. /\ Len(Append(queue, x)) = Len(queue) + 1
      /\ \A i \in 1..Len(queue) : Append(queue, x)[i] = queue[i]
      /\ Append(queue, x)[Len(queue) + 1] = x
  BY <1>1, AppendProperties
<1>3. Len(queue) \in Nat
  BY <1>1
<1>4. TakenCount' = TakenCount
  BY <1>1, <1>2, <1>3 DEF TakenCount
<1> QED
  BY <1>1, <1>2, <1>4 DEF x

\* The runner takes the first event of the queue, and the others move up.
LEMMA TakenGrows ==
  ASSUME TypeOK, Take
  PROVE  /\ Len(queue) # 0 /\ Len(queue') = Len(queue) - 1
         /\ TakenCount' = TakenCount + 1
         /\ \A i \in 1..Len(queue') : queue'[i] = queue[i + 1]
         /\ event' = queue[1] /\ event' # Destroyed
<1>1. /\ queue \in Seq([event : Event, number : Number]) /\ queue # <<>>
      /\ queue' = Tail(queue) /\ event' = Head(queue)
      /\ dispatched' = dispatched /\ dispatched \in Nat
  BY DEF Take, TypeOK, owner
<1>2. /\ Len(Tail(queue)) = Len(queue) - 1 /\ Len(queue) \in Nat
      /\ Len(queue) # 0
      /\ \A i \in 1..Len(Tail(queue)) : Tail(queue)[i] = queue[i + 1]
      /\ Head(queue) = queue[1]
      /\ Head(queue) \in [event : Event, number : Number]
  BY <1>1, HeadAndTail
<1>3. TakenCount' = TakenCount + 1
  BY <1>1, <1>2 DEF TakenCount
<1> QED
  BY <1>1, <1>2, <1>3, DestroyedIsNone

\* No other step changes what was dispatched or what is queued.
LEMMA OthersKeepQueue ==
  [Next]_vars /\ ~ Take /\ (\A e \in Event : ~ DispatchEvent(e)) =>
    UNCHANGED <<queue, dispatched, expected>>
BY DEF Next, OwnerStep, Run, Construct, RegisterEventHandler, Stop, Join,
       TestFlag, Block, WakeSpuriously, Find, StartThread, KeepThread,
       EndRound, HandleEvent, Finish, vars, runner, threads, owner

\* No other step than a take gives the variable an event.
LEMMA VariableStays ==
  [Next]_vars /\ ~ Take => event' = event \/ event' = Destroyed
BY DEF Next, OwnerStep, Run, Construct, RegisterEventHandler, DispatchEvent,
       Stop, Join, TestFlag, Block, WakeSpuriously, Find, StartThread,
       KeepThread, EndRound, HandleEvent, Finish, vars, runner, threads, owner

\* The queue stays the last events dispatched.
LEMMA QueueNext == TypeOK /\ QueueInv /\ [Next]_vars => QueueInv'
<1> SUFFICES ASSUME TypeOK, QueueInv, [Next]_vars PROVE QueueInv'
  OBVIOUS
<1>0. dispatched \in Nat /\ Len(queue) \in Nat /\ TakenCount \in Int
  BY BoundAssumption DEF TypeOK, TakenCount
<1>1. ASSUME NEW e \in Event, DispatchEvent(e) PROVE QueueInv'
  <2>1. dispatched' = dispatched + 1 /\ event' = event
    BY <1>1 DEF DispatchEvent
  <2>2. /\ Len(queue') = Len(queue) + 1
        /\ TakenCount' = TakenCount
        /\ \A i \in 1..Len(queue) : queue'[i] = queue[i]
        /\ queue'[Len(queue) + 1] = [event |-> e, number |-> dispatched + 1]
    BY <1>1, TakenStays
  <2>3. queue'[Len(queue) + 1].number = TakenCount + (Len(queue) + 1)
    BY <1>0, <2>2 DEF TakenCount
  <2>4. ASSUME NEW i \in 1..Len(queue')
        PROVE  queue'[i].number = TakenCount' + i
    <3>1. i \in 1..Len(queue) \/ i = Len(queue) + 1
      BY <1>0, <2>2
    <3> QED
      BY <2>2, <2>3, <3>1 DEF QueueInv
  <2>5. Len(queue') <= dispatched'
    BY <1>0, <2>1, <2>2 DEF QueueInv
  <2> QED
    BY <2>1, <2>2, <2>4, <2>5 DEF QueueInv
<1>2. CASE Take
  <2>1. dispatched' = dispatched
    BY <1>2 DEF Take, owner
  <2>2. /\ Len(queue) # 0 /\ Len(queue') = Len(queue) - 1
        /\ TakenCount' = TakenCount + 1
        /\ \A i \in 1..Len(queue') : queue'[i] = queue[i + 1]
        /\ event' = queue[1]
    BY <1>2, TakenGrows
  <2>3. ASSUME NEW i \in 1..Len(queue')
        PROVE  queue'[i].number = TakenCount' + i
    <3>1. i \in Int /\ i + 1 \in 1..Len(queue)
      BY <1>0, <2>2
    <3>2. queue[i + 1].number = TakenCount + (i + 1)
      BY <3>1 DEF QueueInv
    <3>3. queue'[i] = queue[i + 1]
      BY <2>2
    <3>4. TakenCount + (i + 1) = TakenCount' + i
      BY <1>0, <2>2, <3>1
    <3> QED
      BY <3>2, <3>3, <3>4
  <2>4. event'.number = TakenCount'
    <3>1. 1 \in 1..Len(queue)
      BY <1>0, <2>2
    <3> QED
      BY <1>0, <2>2, <3>1 DEF QueueInv
  <2>5. Len(queue') <= dispatched'
    BY <1>0, <2>1, <2>2 DEF QueueInv
  <2> QED
    BY <2>3, <2>4, <2>5 DEF QueueInv
<1>3. CASE ~ Take /\ (\A e \in Event : ~ DispatchEvent(e))
  BY <1>3, OthersKeepQueue, VariableStays DEF QueueInv, TakenCount
<1> QED
  BY <1>1, <1>2, <1>3
-----------------------------------------------------------------------------
(* The handlers *)

\* An event that had a handler at its dispatch still has one when the runner
\* looks (222), and gets its thread (228).
KnownInv ==
  /\ \A i \in 1..Len(queue) :
       queue[i].number \in expected => queue[i].event \in handlers
  /\ event # Destroyed /\ event.number \in expected => event.event \in handlers
  /\ \A n \in 1..TakenCount : n \in expected =>
       thread[n] # "none" \/ (rpc \in {"find", "start"} /\ event.number = n)

\* What had a handler keeps its thread.
LEMMA KnownNext == TypeOK /\ QueueInv /\ KnownInv /\ [Next]_vars => KnownInv'
<1> SUFFICES ASSUME TypeOK, QueueInv, KnownInv, [Next]_vars PROVE KnownInv'
  OBVIOUS
<1>0. /\ dispatched \in Nat /\ Len(queue) \in Nat /\ TakenCount \in Int
      /\ expected \subseteq 1..dispatched /\ TakenCount <= dispatched
  BY BoundAssumption DEF TypeOK, TakenCount
<1>1. ASSUME NEW e \in Event, DispatchEvent(e) PROVE KnownInv'
  <2>1. /\ Len(queue') = Len(queue) + 1
        /\ TakenCount' = TakenCount
        /\ \A i \in 1..Len(queue) : queue'[i] = queue[i]
        /\ queue'[Len(queue) + 1] = [event |-> e, number |-> dispatched + 1]
    BY <1>1, TakenStays
  <2>2. /\ handlers' = handlers /\ event' = event /\ thread' = thread
        /\ expected' = IF e \in handlers THEN expected \cup {dispatched + 1}
                                         ELSE expected
        /\ rpc \in {"find", "start"} => rpc' = rpc
    BY <1>1 DEF DispatchEvent, threads
  <2>3. \A n \in Int : n <= dispatched => (n \in expected' <=> n \in expected)
    BY <1>0, <2>2
  <2>4. dispatched + 1 \in expected' => e \in handlers
    BY <1>0, <2>2
  <2>5. ASSUME NEW i \in 1..Len(queue'), queue'[i].number \in expected'
        PROVE  queue'[i].event \in handlers'
    <3>1. CASE i = Len(queue) + 1
      BY <2>1, <2>2, <2>4, <2>5, <3>1
    <3>2. CASE i \in 1..Len(queue)
      <4>1. queue[i].number = TakenCount + i /\ TakenCount + i <= dispatched
        BY <1>0, <3>2 DEF QueueInv, TakenCount
      <4>2. queue[i].number \in expected
        BY <1>0, <2>1, <2>3, <2>5, <3>2, <4>1
      <4> QED
        BY <2>1, <2>2, <3>2, <4>2 DEF KnownInv
    <3> QED
      BY <1>0, <2>1, <3>1, <3>2
  <2>6. ASSUME event' # Destroyed, event'.number \in expected'
        PROVE  event'.event \in handlers'
    <3>1. event.number = TakenCount
      BY <2>2, <2>6 DEF QueueInv
    <3> QED
      BY <1>0, <2>2, <2>3, <2>6, <3>1 DEF KnownInv
  <2>7. ASSUME NEW n \in 1..TakenCount', n \in expected'
        PROVE  \/ thread'[n] # "none"
               \/ rpc' \in {"find", "start"} /\ event'.number = n
    <3>1. n \in 1..TakenCount /\ n \in expected
      BY <1>0, <2>1, <2>3, <2>7
    <3> QED
      BY <2>2, <3>1 DEF KnownInv
  <2> QED
    BY <2>5, <2>6, <2>7 DEF KnownInv
<1>2. CASE Take
  <2>1. /\ Len(queue) # 0 /\ Len(queue') = Len(queue) - 1
        /\ TakenCount' = TakenCount + 1
        /\ \A i \in 1..Len(queue') : queue'[i] = queue[i + 1]
        /\ event' = queue[1]
    BY <1>2, TakenGrows
  <2>2. /\ handlers' = handlers /\ expected' = expected /\ thread' = thread
        /\ rpc' = "find" /\ rpc = "lock"
    BY <1>2 DEF Take, threads, owner
  <2>3. event'.number = TakenCount'
    BY <1>0, <2>1 DEF QueueInv
  <2>4. \A i \in 1..Len(queue') : queue'[i].number \in expected' =>
          queue'[i].event \in handlers'
    BY <1>0, <2>1, <2>2 DEF KnownInv
  <2>5. event'.number \in expected' => event'.event \in handlers'
    BY <1>0, <2>1, <2>2 DEF KnownInv
  <2>6. ASSUME NEW n \in 1..TakenCount', n \in expected'
        PROVE  \/ thread'[n] # "none"
               \/ rpc' \in {"find", "start"} /\ event'.number = n
    <3>1. n \in 1..TakenCount \/ n = TakenCount'
      BY <1>0, <2>1
    <3> QED
      BY <2>2, <2>3, <2>6, <3>1 DEF KnownInv
  <2> QED
    BY <2>4, <2>5, <2>6 DEF KnownInv
<1>3. ASSUME ~ Take, \A e \in Event : ~ DispatchEvent(e) PROVE KnownInv'
  <2>1. /\ queue' = queue /\ dispatched' = dispatched /\ expected' = expected
        /\ TakenCount' = TakenCount
    BY <1>3, OthersKeepQueue DEF TakenCount
  <2>2. handlers \subseteq handlers'
    BY <1>3 DEF Next, OwnerStep, Run, Construct, RegisterEventHandler, Stop,
         Join, TestFlag, Block, WakeSpuriously, Find, StartThread, KeepThread,
         EndRound, HandleEvent, Finish, vars, runner, threads, owner
  <2>3. event' = event \/ event' = Destroyed
    BY <1>3, VariableStays
  <2>4. ASSUME NEW n \in 1..TakenCount, n \in expected
        PROVE  \/ thread'[n] # "none"
               \/ rpc' \in {"find", "start"} /\ event'.number = n
    <3>0. n \in Number
      BY <1>0, BoundAssumption DEF TypeOK, Number
    <3>1. \/ thread[n] # "none"
          \/ rpc \in {"find", "start"} /\ event.number = n
      BY <2>4 DEF KnownInv
    <3>2. CASE thread[n] # "none"
      <4>1. thread'[n] # "none"
        BY <1>3, <3>0, <3>2 DEF Next, OwnerStep, Run, Construct, TypeOK,
           RegisterEventHandler, Stop, Join, TestFlag, Block, WakeSpuriously,
           Find, StartThread, KeepThread, EndRound, HandleEvent, Finish, vars,
           runner, threads, owner
      <4> QED
        BY <4>1
    <3>3. CASE rpc = "find" /\ event.number = n
      <4>1. event.event \in handlers
        BY <2>4, <3>3 DEF KnownInv, TypeOK
      <4>2. event' = event /\ rpc' \in {"find", "start"}
        BY <1>3, <3>3, <4>1 DEF Next, OwnerStep, Run, Construct,
           RegisterEventHandler, Stop, Join, TestFlag, Block, WakeSpuriously,
           Find, StartThread, KeepThread, EndRound, HandleEvent, Finish, vars,
           runner, threads, owner
      <4> QED
        BY <3>3, <4>2
    <3>4. CASE rpc = "start" /\ event.number = n
      <4>1. \/ event' = event /\ rpc' = "start"
            \/ thread' = [thread EXCEPT ![n] = "started"]
        BY <1>3, <3>4 DEF Next, OwnerStep, Run, Construct,
           RegisterEventHandler, Stop, Join, TestFlag, Block, WakeSpuriously,
           Find, StartThread, KeepThread, EndRound, HandleEvent, Finish, vars,
           runner, threads, owner
      <4> QED
        BY <3>0, <3>4, <4>1 DEF TypeOK
    <3> QED
      BY <3>1, <3>2, <3>3, <3>4
  <2> QED
    BY <2>1, <2>2, <2>3, <2>4 DEF KnownInv
<1> QED
  BY <1>1, <1>2, <1>3
-----------------------------------------------------------------------------
(* The threads *)

\* The threads in workerThreads_ are those of events taken earlier than the one
\* the runner works on, up to the moment its own is put there (232).
KeptInv ==
  /\ \A i \in DOMAIN workers : workers[i] <= TakenCount
  /\ rpc \in {"find", "start", "keep"} =>
       \A i \in DOMAIN workers : workers[i] < event.number
  /\ ThreadsAreKept

\* A thread that was started is kept.
LEMMA KeptNext == TypeOK /\ QueueInv /\ KeptInv /\ [Next]_vars => KeptInv'
<1> SUFFICES ASSUME TypeOK, QueueInv, KeptInv, [Next]_vars PROVE KeptInv'
  OBVIOUS
<1>0. /\ dispatched \in Nat /\ Len(queue) \in Nat /\ TakenCount \in Int
      /\ workers \in Seq(Number) /\ Number \subseteq Nat
      /\ \A i \in DOMAIN workers : workers[i] \in Number
  BY BoundAssumption DEF TypeOK, TakenCount, Number
<1>1. ASSUME NEW e \in Event, DispatchEvent(e) PROVE KeptInv'
  <2>1. TakenCount' = TakenCount
    BY <1>1, TakenStays
  <2>2. /\ workers' = workers /\ event' = event /\ thread' = thread
        /\ rpc' = rpc \/ (rpc = "wait" /\ rpc' = "lock")
    BY <1>1 DEF DispatchEvent, threads
  <2> QED
    BY <2>1, <2>2 DEF KeptInv, ThreadsAreKept
<1>2. CASE Take
  <2>1. TakenCount' = TakenCount + 1 /\ event' = queue[1] /\ Len(queue) # 0
    BY <1>2, TakenGrows
  <2>2. workers' = workers /\ thread' = thread /\ rpc' = "find" /\ rpc = "lock"
    BY <1>2 DEF Take, threads
  <2>3. event'.number = TakenCount + 1
    BY <1>0, <2>1 DEF QueueInv
  <2>4. ThreadsAreKept'
    BY <2>2 DEF KeptInv, ThreadsAreKept
  <2>5. \A i \in DOMAIN workers : workers[i] <= TakenCount /\ workers[i] \in Int
    <3>1. \A i \in DOMAIN workers : workers[i] <= TakenCount
      BY DEF KeptInv
    <3>2. \A i \in DOMAIN workers : workers[i] \in Nat
      BY <1>0
    <3> QED
      BY <3>1, <3>2
  <2>6. \A i \in DOMAIN workers : /\ workers[i] <= TakenCount + 1
                                 /\ workers[i] < event'.number
    BY <1>0, <2>3, <2>5
  <2>7. \A i \in DOMAIN workers' : /\ workers'[i] <= TakenCount'
                                  /\ workers'[i] < event'.number
    BY <2>1, <2>2, <2>6
  <2> QED
    BY <2>4, <2>7 DEF KeptInv
<1>3. CASE StartThread
  <2>1. /\ workers' = workers /\ event' = event /\ queue' = queue
        /\ dispatched' = dispatched /\ rpc = "start" /\ rpc' = "keep"
        /\ thread' = [thread EXCEPT ![event.number] = "started"]
    BY <1>3 DEF StartThread, owner
  <2>2. \A n \in Number : thread'[n] # "none" =>
          thread[n] # "none" \/ event.number = n
    BY <2>1 DEF TypeOK
  <2>3. ThreadsAreKept'
    BY <2>1, <2>2 DEF KeptInv, ThreadsAreKept
  <2> QED
    BY <2>1, <2>3 DEF KeptInv, TakenCount
<1>4. CASE KeepThread
  <2>1. /\ workers' = Append(workers, event.number) /\ event' = event
        /\ queue' = queue /\ dispatched' = dispatched /\ rpc = "keep"
        /\ rpc' = "end" /\ thread' = thread
    BY <1>4 DEF KeepThread, owner
  <2>2. event.number \in Number /\ event.number = TakenCount
    BY <2>1 DEF TypeOK, QueueInv
  <2>3. /\ Len(workers') = Len(workers) + 1 /\ Len(workers) \in Nat
        /\ DOMAIN workers = 1..Len(workers)
        /\ DOMAIN workers' = 1..(Len(workers) + 1)
        /\ \A i \in 1..Len(workers) : workers'[i] = workers[i]
        /\ workers'[Len(workers) + 1] = event.number
    BY <1>0, <2>1, <2>2
  <2>4. \A i \in 1..Len(workers) : workers[i] < event.number
    BY <2>1, <2>3 DEF KeptInv
  <2>5. \A i, j \in DOMAIN workers' : i < j => workers'[i] < workers'[j]
    <3> SUFFICES ASSUME NEW i \in DOMAIN workers', NEW j \in DOMAIN workers',
                        i < j
                 PROVE  workers'[i] < workers'[j]
      OBVIOUS
    <3>1. i \in 1..Len(workers)
      BY <2>3
    <3>2. CASE j = Len(workers) + 1
      BY <2>3, <2>4, <3>1, <3>2
    <3>3. CASE j \in 1..Len(workers)
      BY <2>3, <3>1, <3>3 DEF KeptInv, ThreadsAreKept
    <3> QED
      BY <2>3, <3>2, <3>3
  <2>6. ASSUME NEW n \in Number, thread'[n] # "none"
        PROVE  \E i \in DOMAIN workers' : workers'[i] = n
    <3>1. \/ \E i \in DOMAIN workers : workers[i] = n
          \/ event.number = n
      BY <2>1, <2>6 DEF KeptInv, ThreadsAreKept
    <3>2. Len(workers) + 1 \in DOMAIN workers'
      BY <2>3
    <3>3. \A i \in DOMAIN workers : i \in DOMAIN workers'
      BY <2>3
    <3> QED
      BY <2>3, <3>1, <3>2, <3>3
  <2>7. ThreadsAreKept'
    BY <2>5, <2>6 DEF ThreadsAreKept
  <2>8. \A i \in DOMAIN workers' : workers'[i] <= TakenCount
    BY <1>0, <2>2, <2>3 DEF KeptInv
  <2>9. TakenCount' = TakenCount /\ rpc' \notin {"find", "start", "keep"}
    BY <2>1 DEF TakenCount
  <2> QED
    BY <2>7, <2>8, <2>9 DEF KeptInv
<1>5. ASSUME NEW n \in Number, HandleEvent(n) \/ Finish(n) PROVE KeptInv'
  <2>1. /\ workers' = workers /\ event' = event /\ queue' = queue
        /\ dispatched' = dispatched /\ rpc' = rpc
        /\ \A m \in Number : thread'[m] = "none" <=> thread[m] = "none"
    BY <1>5 DEF HandleEvent, Finish, TypeOK, runner, owner
  <2> QED
    BY <2>1 DEF KeptInv, ThreadsAreKept, TakenCount
<1>6. ASSUME UNCHANGED <<workers, thread, queue, dispatched>>,
             \/ UNCHANGED <<event, rpc>>
             \/ event' = event /\ rpc # "keep" /\
                  (rpc' \notin {"find", "start", "keep"} \/ rpc = "find")
             \/ rpc = "end" /\ rpc' = "test"
      PROVE  KeptInv'
  BY <1>6 DEF KeptInv, ThreadsAreKept, TakenCount
<1>7. CASE Construct \/ Stop \/ Join \/ UNCHANGED vars
  <2>1. UNCHANGED <<workers, thread, queue, dispatched, event, rpc>>
    BY <1>7 DEF Construct, Stop, Join, vars, runner, threads, owner
  <2> QED
    BY <1>6, <2>1
<1>8. ASSUME NEW e \in Event, RegisterEventHandler(e) PROVE KeptInv'
  <2>1. UNCHANGED <<workers, thread, queue, dispatched, event, rpc>>
    BY <1>8 DEF RegisterEventHandler, runner, threads
  <2> QED
    BY <1>6, <2>1
<1>9. CASE TestFlag \/ Block \/ WakeSpuriously \/ Find \/ EndRound
  <2>1. /\ UNCHANGED <<workers, thread, queue, dispatched>>
        /\ \/ event' = event /\ rpc # "keep" /\
                (rpc' \notin {"find", "start", "keep"} \/ rpc = "find")
           \/ rpc = "end" /\ rpc' = "test"
    BY <1>9 DEF TestFlag, Block, WakeSpuriously, Find, EndRound, threads, owner
  <2> QED
    BY <1>6, <2>1
<1> QED
  BY <1>1, <1>2, <1>3, <1>4, <1>5, <1>7, <1>8, <1>9 DEF Next, OwnerStep, Run
-----------------------------------------------------------------------------
(* The life of the dispatcher *)

\* The flag is set while the dispatcher is used and cleared behind it; before,
\* it may be anything, and nothing has been dispatched (204).  After the stop
\* the runner tests the flag between two events.
StopInv ==
  /\ opc = "construct" => dispatched = 0
  /\ opc = "use" => flag
  /\ opc \in {"join", "destroyed"} => ~ flag
  /\ opc \in {"construct", "use"} => late = 0
  /\ late <= 1
  /\ late = 1 =>
       rpc \in {"find", "start", "keep", "end", "test", "exited"}

\* At most one event is taken after the stop.
LEMMA StopNext == TypeOK /\ StopInv /\ [Next]_vars => StopInv'
<1> SUFFICES ASSUME TypeOK, StopInv, [Next]_vars PROVE StopInv'
  OBVIOUS
<1>0. late \in Nat
  BY DEF TypeOK
<1>1. CASE Construct \/ Stop \/ Join
  BY <1>1 DEF Construct, Stop, Join, StopInv, runner
<1>2. ASSUME NEW e \in Event, RegisterEventHandler(e) \/ DispatchEvent(e)
      PROVE  StopInv'
  BY <1>2 DEF RegisterEventHandler, DispatchEvent, StopInv, runner
<1>3. CASE TestFlag \/ Block \/ WakeSpuriously \/ Find
  BY <1>0, <1>3
     DEF TestFlag, Block, WakeSpuriously, Find, StopInv, TypeOK, owner
<1>4. CASE Take
  BY <1>0, <1>4 DEF Take, StopInv, owner
<1>5. CASE StartThread \/ KeepThread \/ EndRound
  BY <1>5 DEF StartThread, KeepThread, EndRound, StopInv, owner
<1>6. ASSUME NEW n \in Number, HandleEvent(n) \/ Finish(n) PROVE StopInv'
  BY <1>6 DEF HandleEvent, Finish, StopInv, runner, owner
<1>7. CASE UNCHANGED vars
  BY <1>7 DEF vars, runner, owner, StopInv
<1> QED
  BY <1>1, <1>2, <1>3, <1>4, <1>5, <1>6, <1>7 DEF Next, OwnerStep, Run
-----------------------------------------------------------------------------
\* The runner has handed out nothing and missed nothing if it is gone before the
\* stop: it left while the constructor was still busy (204-205, 210).
LEMMA GoneNext ==
  TypeOK /\ QueueInv /\ KeptInv /\ StopInv /\ GoneEarlyTookNothing
    /\ [Next]_vars => GoneEarlyTookNothing'
<1> SUFFICES ASSUME TypeOK, QueueInv, KeptInv, StopInv, GoneEarlyTookNothing,
                    [Next]_vars, rpc' = "exited", opc' \in {"construct", "use"}
             PROVE  workers' = <<>> /\ Len(queue') = dispatched'
  BY DEF GoneEarlyTookNothing
<1>1. CASE TestFlag
  <2>1. opc = "construct" /\ dispatched = 0
    BY <1>1 DEF TestFlag, StopInv, TypeOK, owner
  <2>2. Len(queue) = 0
    BY <2>1 DEF QueueInv, TypeOK
  <2>3. TakenCount = 0
    BY <2>1, <2>2 DEF TakenCount
  <2>4. workers \in Seq(Number) /\ \A i \in DOMAIN workers : workers[i] <= 0
    BY <2>3 DEF KeptInv, TypeOK
  <2>5. \A i \in DOMAIN workers : workers[i] \in Number
    BY <2>4
  <2>6. workers = <<>>
    <3>1. DOMAIN workers = 1..Len(workers) /\ Len(workers) \in Nat
      BY <2>4
    <3>2. 1 \notin DOMAIN workers
      <4> SUFFICES ASSUME 1 \in DOMAIN workers PROVE FALSE
        OBVIOUS
      <4>1. workers[1] <= 0 /\ workers[1] \in 1..MaxEvents
        BY <2>4, <2>5 DEF Number
      <4> QED
        BY <4>1, BoundAssumption
    <3>3. Len(workers) = 0
      BY <3>1, <3>2
    <3> QED
      BY <2>4, <3>3
  <2> QED
    BY <1>1, <2>1, <2>2, <2>6 DEF TestFlag, threads, owner
<1>2. CASE rpc = "exited"
  <2>1. opc \in {"construct", "use"}
    BY DEF Next, OwnerStep, Run, Construct, RegisterEventHandler,
           DispatchEvent, Stop, Join, TestFlag, Block, WakeSpuriously, Take,
           Find, StartThread, KeepThread, EndRound, HandleEvent, Finish, vars,
           runner, threads, owner, TypeOK
  <2>2. workers = <<>> /\ Len(queue) = dispatched
    BY <1>2, <2>1 DEF GoneEarlyTookNothing
  <2>3. workers' = workers
    BY <1>2 DEF Next, OwnerStep, Run, Construct, RegisterEventHandler,
           DispatchEvent, Stop, Join, TestFlag, Block, WakeSpuriously, Take,
           Find, StartThread, KeepThread, EndRound, HandleEvent, Finish, vars,
           runner, threads, owner
  <2>4. CASE \E e \in Event : DispatchEvent(e)
    <3>1. PICK e \in Event : DispatchEvent(e)
      BY <2>4
    <3>2. Len(queue') = Len(queue) + 1 /\ dispatched' = dispatched + 1
      BY <3>1, TakenStays DEF DispatchEvent
    <3> QED
      BY <2>2, <2>3, <3>2
  <2>5. CASE \A e \in Event : ~ DispatchEvent(e)
    <3>1. ~ Take
      BY <1>2 DEF Take
    <3> QED
      BY <2>2, <2>3, <2>5, <3>1, OthersKeepQueue
  <2> QED
    BY <2>4, <2>5
<1> QED
  BY <1>1, <1>2
     DEF Next, OwnerStep, Run, Construct, RegisterEventHandler, DispatchEvent,
         Stop, Join, Block, WakeSpuriously, Take, Find, StartThread,
         KeepThread, EndRound, HandleEvent, Finish, vars, runner, threads, owner

\* Whoever is destroyed has joined: the kept threads are all the threads.
LEMMA JoinedNext ==
  TypeOK /\ KeptInv /\ DestroyedMeansJoined /\ [Next]_vars =>
    DestroyedMeansJoined'
<1> SUFFICES ASSUME TypeOK, KeptInv, DestroyedMeansJoined, [Next]_vars,
                    opc' = "destroyed"
             PROVE  /\ rpc' = "exited"
                    /\ \A n \in Number : thread'[n] \in {"none", "finished"}
  BY DEF DestroyedMeansJoined
<1>1. CASE Join
  <2>1. rpc = "exited" /\ UNCHANGED <<rpc, thread>>
    BY <1>1 DEF Join, runner, threads
  <2>2. ASSUME NEW n \in Number, thread[n] # "none"
        PROVE  thread[n] = "finished"
    <3>1. PICK i \in DOMAIN workers : workers[i] = n
      BY <2>1, <2>2 DEF KeptInv, ThreadsAreKept
    <3> QED
      BY <1>1, <3>1 DEF Join
  <2> QED
    BY <2>1, <2>2
<1>2. CASE opc = "destroyed"
  <2>1. rpc = "exited" /\ \A n \in Number : thread[n] \in {"none", "finished"}
    BY <1>2 DEF DestroyedMeansJoined
  <2>2. UNCHANGED <<rpc, thread>>
    BY <1>2, <2>1 DEF Next, OwnerStep, Run, Construct, RegisterEventHandler,
           DispatchEvent, Stop, Join, TestFlag, Block, WakeSpuriously, Take,
           Find, StartThread, KeepThread, EndRound, HandleEvent, Finish, vars,
           runner, threads, owner
  <2> QED
    BY <2>1, <2>2
<1> QED
  BY <1>1, <1>2
     DEF Next, OwnerStep, Run, Construct, RegisterEventHandler, DispatchEvent,
         Stop, TestFlag, Block, WakeSpuriously, Take, Find, StartThread,
         KeepThread, EndRound, HandleEvent, Finish, vars, runner, threads, owner
-----------------------------------------------------------------------------
\* The inductive invariant: the queue, the handlers, the threads and the stop.
IInv == /\ QueueInv
        /\ KnownInv
        /\ KeptInv
        /\ StopInv
        /\ GoneEarlyTookNothing
        /\ DestroyedMeansJoined

\* It holds at all times, for any events and any number of dispatches.
LEMMA Inductive == Spec => []IInv
<1>1. Init => IInv
  <2> SUFFICES ASSUME Init PROVE IInv
    OBVIOUS
  <2>0. Len(<<>>) = 0 /\ DOMAIN <<>> = {}
    OBVIOUS
  <2>1. /\ Len(queue) = 0 /\ dispatched = 0 /\ TakenCount = 0
        /\ DOMAIN workers = {} /\ event = Destroyed
    <3>1. queue = <<>> /\ workers = <<>> /\ dispatched = 0 /\ event = Destroyed
      BY DEF Init
    <3>2. Len(queue) = 0
      BY <2>0, <3>1
    <3>3. TakenCount = 0
      <4>1. 0 - 0 = 0
        OBVIOUS
      <4> QED
        BY <3>1, <3>2, <4>1, Zenon DEF TakenCount
    <3>4. DOMAIN workers = {}
      BY <2>0, <3>1, Zenon
    <3> QED
      BY <3>1, <3>2, <3>3, <3>4
  <2>2. QueueInv
    BY <2>1 DEF QueueInv
  <2>3. KnownInv
    BY <2>1 DEF Init, KnownInv
  <2>4. KeptInv
    BY <2>1 DEF Init, KeptInv, ThreadsAreKept
  <2>5. StopInv /\ GoneEarlyTookNothing /\ DestroyedMeansJoined
    BY DEF Init, StopInv, GoneEarlyTookNothing, DestroyedMeansJoined
  <2> QED
    BY <2>2, <2>3, <2>4, <2>5 DEF IInv
<1>2. TypeOK /\ IInv /\ [Next]_vars => IInv'
  BY QueueNext, KnownNext, KeptNext, StopNext, GoneNext, JoinedNext DEF IInv
<1> QED
  BY <1>1, <1>2, TypeCorrect, PTL DEF Spec

\* Every thread of an event is in workerThreads_ in time, and the destructor
\* leaves none of them behind (171-176, 232).
THEOREM ThreadsJoined == Spec => []JoinInv
<1>1. IInv => JoinInv
  BY DEF IInv, KeptInv, JoinInv
<1> QED
  BY <1>1, Inductive, PTL

\* Events are taken in the order of the dispatches, one that had a handler gets
\* a thread, and at most one is taken after the stop (210, 217, 223).
THEOREM RunnerInvariant == Spec => []RunnerInv
<1>1. TypeOK /\ IInv => RunnerInv
  <2> SUFFICES ASSUME TypeOK, IInv PROVE RunnerInv
    OBVIOUS
  <2>1. DOMAIN queue = 1..Len(queue) /\ Taken = 1..TakenCount
    BY DEF TypeOK, Taken, TakenCount
  <2>2. HandledUnlessUnknown
    BY <2>1 DEF IInv, QueueInv, KnownInv, HandledUnlessUnknown, TakenCount
  <2> QED
    BY <2>2 DEF IInv, StopInv, RunnerInv, StopsPromptly
<1> QED
  BY <1>1, Inductive, TypeCorrect, PTL

\* A runner that is gone before the stop never took an event: it found the flag
\* that the constructor had not set yet (204-205).
THEOREM GoneEarly == Spec => []GoneEarlyTookNothing
<1>1. IInv => GoneEarlyTookNothing
  BY DEF IInv
<1> QED
  BY <1>1, Inductive, PTL
=============================================================================
