--------------------------- MODULE EventDispatcher ---------------------------
(***************************************************************************)
(* event_dispatcher.cpp: EventDispatcher, a queue of dispatched events and *)
(* a runner thread that starts a thread of its own for each of them.       *)
(*                                                                         *)
(* The runner starts while the constructor initialises the member          *)
(* runnerThread_; the flag it tests, runnerStartStopFlag_, is declared     *)
(* after it and is initialised later: until then it is whatever the memory *)
(* held.                                                                   *)
(*                                                                         *)
(* The thread of an event captures the runner's local variable `event' by  *)
(* reference.  The runner destroys it at the end of the round, and the     *)
(* next round builds the next event in the same place.                     *)
(*                                                                         *)
(* mt_ is never held across a step.  queueHandlers_ has no lock (222, the  *)
(* TODO): a registration is one step here.                                 *)
(***************************************************************************)
EXTENDS Naturals, Sequences

CONSTANTS Event,      \* the events that exist
          NoEvent,
          MaxEvents   \* bound: how many events are dispatched

ASSUME BoundAssumption == MaxEvents \in Nat

\* Dispatched events are numbered; the number stands for the event's data.
Number == 1..MaxEvents
NoData == 0
\* The content of a variable whose lifetime has ended.
Destroyed == [event |-> NoEvent, number |-> NoData]

VARIABLES flag,         \* runnerStartStopFlag_
          handlers,     \* the events with a handler in queueHandlers_
          queue,        \* dispatchedEvents_
          event,        \* the runner's local variable
          rpc,          \* what the runner does next
          thread,       \* the state of the thread of each event
          read,         \* the data that thread has read
          workers,      \* workerThreads_
          opc,          \* how far the owner is in the life of the dispatcher
          dispatched,   \* history: how many events were dispatched
          expected,     \* history: those that had a handler at that moment
          late          \* history: how many events were taken after stop()

runner == <<event, rpc, late>>
threads == <<thread, read, workers>>
owner == <<handlers, opc, dispatched, expected>>
vars == <<flag, queue, runner, threads, owner>>

Init == /\ flag \in BOOLEAN
        /\ handlers = {}
        /\ queue = <<>>
        /\ event = Destroyed
        /\ rpc = "test"
        /\ thread = [n \in Number |-> "none"]
        /\ read = [n \in Number |-> NoData]
        /\ workers = <<>>
        /\ opc = "construct"
        /\ dispatched = 0
        /\ expected = {}
        /\ late = 0
-----------------------------------------------------------------------------
(* The owner: constructor, registrations, dispatches, destructor *)

Construct ==
  /\ opc = "construct"
  /\ flag' = TRUE
  /\ opc' = "use"
  /\ UNCHANGED <<handlers, queue, dispatched, expected, runner, threads>>

RegisterEventHandler(e) ==
  /\ opc = "use"
  /\ handlers' = handlers \cup {e}
  /\ UNCHANGED <<flag, queue, opc, dispatched, expected, runner, threads>>

\* Mutation: the runner is woken only when there were events before.
DispatchRarely(e) ==
  /\ opc = "use"
  /\ dispatched < MaxEvents
  /\ dispatched' = dispatched + 1
  /\ queue' = Append(queue, [event |-> e, number |-> dispatched + 1])
  /\ expected' = IF e \in handlers THEN expected \cup {dispatched + 1}
                                   ELSE expected
  /\ rpc' = IF rpc = "wait" /\ queue # <<>> THEN "lock" ELSE rpc
  /\ UNCHANGED <<flag, handlers, event, opc, late, threads>>

DispatchEvent(e) ==
  /\ opc = "use"
  /\ dispatched < MaxEvents
  /\ dispatched' = dispatched + 1
  /\ queue' = Append(queue, [event |-> e, number |-> dispatched + 1])
  /\ expected' = IF e \in handlers THEN expected \cup {dispatched + 1}
                                   ELSE expected
  /\ rpc' = IF rpc = "wait" THEN "lock" ELSE rpc
  /\ UNCHANGED <<flag, handlers, event, opc, late, threads>>

\* The destructor calls stop(), which notifies no one.
Stop ==
  /\ opc = "use"
  /\ flag' = FALSE
  /\ opc' = "join"
  /\ UNCHANGED <<handlers, queue, dispatched, expected, runner, threads>>

\* Mutation: the threads of the events are not joined.
JoinRunnerOnly ==
  /\ opc = "join"
  /\ rpc = "exited"
  /\ opc' = "destroyed"
  /\ UNCHANGED <<flag, handlers, queue, dispatched, expected, runner, threads>>

\* Mutation: a thread of every event is joined, of the unknown ones, too.
JoinOfEveryEvent ==
  /\ opc = "join"
  /\ rpc = "exited"
  /\ \A n \in 1..(dispatched - Len(queue)) : thread[n] = "finished"
  /\ opc' = "destroyed"
  /\ UNCHANGED <<flag, handlers, queue, dispatched, expected, runner, threads>>

\* It joins the runner, and then the thread of every event.
Join ==
  /\ opc = "join"
  /\ rpc = "exited"
  /\ \A i \in DOMAIN workers : thread[workers[i]] = "finished"
  /\ opc' = "destroyed"
  /\ UNCHANGED <<flag, handlers, queue, dispatched, expected, runner, threads>>
-----------------------------------------------------------------------------
(* run() *)

TestFlag ==
  /\ rpc = "test"
  /\ rpc' = IF flag THEN "lock" ELSE "exited"
  /\ UNCHANGED <<flag, queue, event, late, threads, owner>>

\* With the mutex: nothing to take, the runner waits.
Block ==
  /\ rpc = "lock"
  /\ queue = <<>>
  /\ rpc' = "wait"
  /\ UNCHANGED <<flag, queue, event, late, threads, owner>>

WakeSpuriously ==
  /\ rpc = "wait"
  /\ rpc' = "lock"
  /\ UNCHANGED <<flag, queue, event, late, threads, owner>>

\* With the mutex: the oldest event is moved into the local variable.
Take ==
  /\ rpc = "lock"
  /\ queue # <<>>
  /\ event' = Head(queue)
  /\ queue' = Tail(queue)
  /\ late' = IF opc = "join" THEN late + 1 ELSE late
  /\ rpc' = "find"
  /\ UNCHANGED <<flag, threads, owner>>

\* Without the mutex: an event without a handler is passed over.
Find ==
  /\ rpc = "find"
  /\ rpc' = IF event.event \in handlers THEN "start" ELSE "end"
  /\ UNCHANGED <<flag, queue, event, late, threads, owner>>

\* Mutation: the thread is started for the last event dispatched.
StartThreadOfLast ==
  /\ rpc = "start"
  /\ thread' = [thread EXCEPT ![dispatched] = "started"]
  /\ rpc' = "keep"
  /\ UNCHANGED <<flag, queue, event, read, workers, late, owner>>

StartThread ==
  /\ rpc = "start"
  /\ thread' = [thread EXCEPT ![event.number] = "started"]
  /\ rpc' = "keep"
  /\ UNCHANGED <<flag, queue, event, read, workers, late, owner>>

KeepThread ==
  /\ rpc = "keep"
  /\ workers' = Append(workers, event.number)
  /\ rpc' = "end"
  /\ UNCHANGED <<flag, queue, event, thread, read, late, owner>>

\* Mutation: the loop ends with the last event.
EndRoundIdle ==
  /\ rpc = "end"
  /\ event' = Destroyed
  /\ rpc' = IF queue = <<>> THEN "exited" ELSE "test"
  /\ UNCHANGED <<flag, queue, late, threads, owner>>

\* The round ends, with it the life of the local variable.
EndRound ==
  /\ rpc = "end"
  /\ event' = Destroyed
  /\ rpc' = "test"
  /\ UNCHANGED <<flag, queue, late, threads, owner>>
-----------------------------------------------------------------------------
(* The threads of the events *)

\* handleEvent() is called with whatever is at that moment in the runner's
\* variable.
HandleEvent(n) ==
  /\ thread[n] = "started"
  /\ thread' = [thread EXCEPT ![n] = "handling"]
  /\ read' = [read EXCEPT ![n] = event.number]
  /\ UNCHANGED <<flag, queue, workers, runner, owner>>

Finish(n) ==
  /\ thread[n] = "handling"
  /\ thread' = [thread EXCEPT ![n] = "finished"]
  /\ UNCHANGED <<flag, queue, read, workers, runner, owner>>
-----------------------------------------------------------------------------
OwnerStep == \/ Construct
             \/ \E e \in Event : RegisterEventHandler(e) \/ DispatchEvent(e)
             \/ Stop
             \/ Join

Run == \/ TestFlag \/ Block \/ WakeSpuriously \/ Take \/ Find
       \/ StartThread \/ KeepThread \/ EndRound

Next == OwnerStep \/ Run \/ \E n \in Number : HandleEvent(n) \/ Finish(n)

Spec == Init /\ [][Next]_vars

\* All threads are scheduled, and handlers return; the constructor and the
\* destructor go on.  Only a dispatch has to wake the runner.
Fairness == /\ WF_vars(Construct) /\ WF_vars(Join)
            /\ WF_vars(TestFlag \/ Block \/ Take \/ Find)
            /\ WF_vars(StartThread \/ KeepThread \/ EndRound)
            /\ \A n \in Number : WF_vars(HandleEvent(n) \/ Finish(n))

FairSpec == Spec /\ Fairness
-----------------------------------------------------------------------------
\* The values the variables take: the variable of the runner holds an event
\* exactly while the runner works on it.
TypeOK ==
  /\ flag \in BOOLEAN
  /\ handlers \subseteq Event
  /\ queue \in Seq([event : Event, number : Number])
  /\ event \in [event : Event, number : Number] \cup {Destroyed}
  /\ event # Destroyed <=> rpc \in {"find", "start", "keep", "end"}
  /\ rpc \in {"test", "lock", "wait", "find", "start", "keep", "end", "exited"}
  /\ thread \in [Number -> {"none", "started", "handling", "finished"}]
  /\ read \in [Number -> Number \cup {NoData}]
  /\ workers \in Seq(Number)
  /\ opc \in {"construct", "use", "join", "destroyed"}
  /\ dispatched \in 0..MaxEvents
  /\ expected \subseteq 1..dispatched
  /\ late \in Nat

\* The destructor leaves no thread behind (171-176): a thread that uses the
\* dispatcher's memory never outlives it.
DestroyedMeansJoined ==
  opc = "destroyed" => /\ rpc = "exited"
                       /\ \A n \in Number : thread[n] \in {"none", "finished"}

\* Events are taken in the order of the dispatches, and one that had a handler
\* when it was dispatched gets its own thread, whatever is registered
\* meanwhile: only events without a handler are passed over (223, 342).
Taken == 1..(dispatched - Len(queue))
HandledUnlessUnknown ==
  /\ \A i \in DOMAIN queue : queue[i].number = dispatched - Len(queue) + i
  /\ \A n \in Taken \cap expected :
       thread[n] # "none" \/ (rpc \in {"find", "start"} /\ event.number = n)

\* Every started thread is in workerThreads_ once, in the order of the events,
\* except the one the runner is about to put there.
ThreadsAreKept ==
  /\ \A i, j \in DOMAIN workers : i < j => workers[i] < workers[j]
  /\ \A n \in Number : thread[n] # "none" =>
       \/ \E i \in DOMAIN workers : workers[i] = n
       \/ rpc = "keep" /\ event.number = n

\* Every thread is kept where the destructor joins it, and it joins them all.
JoinInv == ThreadsAreKept /\ DestroyedMeansJoined

\* After stop() at most the event the runner was about to take is taken.
StopsPromptly == late <= 1

\* The runner takes the events in order and gives them away, until the stop.
RunnerInv == TypeOK /\ HandledUnlessUnknown /\ StopsPromptly

\* While the dispatcher is used and its runner runs, an event that had a
\* handler when it was dispatched is handled: no notification is lost.
DispatchedIsHandled ==
  \A n \in Number :
    opc = "use" /\ rpc # "exited" /\ n \in expected
      ~> thread[n] = "finished" \/ opc # "use" \/ rpc = "exited"

\* The runner may be gone although nobody has called stop(): it tests the flag
\* before the constructor sets it (204-205), and then only at the very start,
\* before it has taken an event.
GoneEarlyTookNothing ==
  rpc = "exited" /\ opc \in {"construct", "use"} =>
    workers = <<>> /\ Len(queue) = dispatched

\* The destructor returns when the handlers do, unless the runner waits for an
\* event: stop() notifies no one, and the predicate ignores the flag (193, 213).
DestructorEnds == opc = "join" ~> opc = "destroyed" \/ rpc = "wait"

\* What main() and the handlers expect: an event is dispatched with its data
\* (335-337), and its handler gets "the exact event data" of it (145, 253).  The
\* thread looks for it in a variable that may be gone or hold the next event.
HandlerGetsItsData ==
  \A n \in Number : thread[n] \in {"handling", "finished"} => read[n] = n
=============================================================================
