--------------------------- MODULE MessageProcessor ---------------------------
(***************************************************************************)
(* message_processor.cpp: MessageProcessor, a queue of messages and the    *)
(* worker thread that hands them to the registered handler.                *)
(*                                                                         *)
(* The mutex m_ is held by the worker, across steps, only between the test *)
(* of the predicate and the moment the condition variable releases it: the *)
(* worker is at "block" then.  postMessage() needs the mutex; stop() does  *)
(* not take it.  What a handler throws is caught: a handler that fails and *)
(* one that returns do the same here.                                      *)
(*                                                                         *)
(* registerHandler() is a call of several threads to one std::call_once,   *)
(* which is the library's: one call at a time is inside, the others wait,  *)
(* a call that ends normally lets them return without doing anything, and  *)
(* one that ends with an exception lets the next one in.                   *)
(***************************************************************************)
EXTENDS Naturals, Sequences

CONSTANTS Handler,     \* the functions that may be registered
          NoHandler,
          Owner,       \* the thread that destroys the processor
          Other,       \* other threads that call stop(); one of them may be
                       \* the worker, in the handler
          Registrar,   \* the threads that call registerHandler(); one of them
                       \* may be the worker, in the handler
          MaxPosts     \* bound: how many messages are posted

ASSUME HandlerAssumption == NoHandler \notin Handler
ASSUME OwnerAssumption == Owner \notin Other
ASSUME BoundAssumption == MaxPosts \in Nat

VARIABLES queue,      \* queue_; messages are numbered as they are posted
          stopFlag,   \* stop_
          handler,    \* handler_
          once,       \* init_: "unset", "running" or "done"
          rpc,        \* where each thread is in registerHandler()
          given,      \* the handler its call was given, NoHandler if none runs
          wpc,        \* what the worker does next, "absent" if there is none
          message,    \* msg, while the handler runs; 0 otherwise
          spc,        \* where each thread is in stop()
          opc,        \* how far the owner is with the destructor
          posted,     \* history: how many messages were posted
          handled,    \* history: the messages handled, oldest first
          late,       \* history: how many were taken after stop_ was set
          started,    \* history: handlers of the calls that started a worker
          served      \* history: a call of registerHandler() returned normally

work == <<message, handled, late>>
callers == <<spc, opc>>
calls == <<once, rpc, given, started, served>>
vars == <<queue, stopFlag, handler, wpc, posted, work, callers, calls>>

Stopper == Other \cup {Owner}

Init == /\ queue = <<>>
        /\ stopFlag = FALSE
        /\ handler = NoHandler
        /\ wpc = "absent"
        /\ message = 0
        /\ spc = [s \in Stopper |-> "idle"]
        /\ opc = "use"
        /\ posted = 0
        /\ handled = <<>>
        /\ late = 0
        /\ once = "unset"
        /\ rpc = [r \in Registrar |-> "idle"]
        /\ given = [r \in Registrar |-> NoHandler]
        /\ started = <<>>
        /\ served = FALSE

\* notify_one: the worker is the only thread that waits.
Notified == IF wpc = "wait" THEN "lock" ELSE wpc

\* Only a handler may still use a processor that is being destroyed.
InUse == opc = "use" \/ wpc = "handle"
-----------------------------------------------------------------------------
\* Mutation: the worker is woken only when there were messages before.
PostNotifiesIfMany ==
  /\ InUse
  /\ wpc # "block"
  /\ posted < MaxPosts
  /\ queue' = Append(queue, posted + 1)
  /\ posted' = posted + 1
  /\ wpc' = IF queue # <<>> THEN Notified ELSE wpc
  /\ UNCHANGED <<stopFlag, handler, work, callers, calls>>

\* Mutation: the message is put before the others.
PostAtFront ==
  /\ InUse
  /\ wpc # "block"
  /\ posted < MaxPosts
  /\ queue' = <<posted + 1>> \o queue
  /\ posted' = posted + 1
  /\ wpc' = Notified
  /\ UNCHANGED <<stopFlag, handler, work, callers, calls>>

PostMessage ==
  /\ InUse
  /\ wpc # "block"
  /\ posted < MaxPosts
  /\ queue' = Append(queue, posted + 1)
  /\ posted' = posted + 1
  /\ wpc' = Notified
  /\ UNCHANGED <<stopFlag, handler, work, callers, calls>>
-----------------------------------------------------------------------------
(* registerHandler() *)

\* Mutation: the handler is set before call_once.
CallSetsHandler(r, h) ==
  /\ opc = "use"
  /\ rpc[r] = "idle"
  /\ rpc' = [rpc EXCEPT ![r] = "once"]
  /\ given' = [given EXCEPT ![r] = h]
  /\ handler' = h
  /\ UNCHANGED <<queue, stopFlag, once, wpc, posted, work, callers, started,
                 served>>

\* A call in a handler that runs during the destruction finds the flag set, as
\* no call is inside then: it does nothing and is left out.
CallRegister(r, h) ==
  /\ opc = "use"
  /\ rpc[r] = "idle"
  /\ rpc' = [rpc EXCEPT ![r] = "once"]
  /\ given' = [given EXCEPT ![r] = h]
  /\ UNCHANGED <<queue, stopFlag, handler, once, wpc, posted, work, callers,
                 started, served>>

\* call_once lets a call in: none has ended normally and none is inside.
EnterOnce(r) ==
  /\ rpc[r] = "once"
  /\ once = "unset"
  /\ once' = "running"
  /\ rpc' = [rpc EXCEPT ![r] = "set"]
  /\ UNCHANGED <<queue, stopFlag, handler, wpc, posted, work, callers, given,
                 started, served>>

\* The call is over: the thread may call again.
Returns(r) == /\ rpc' = [rpc EXCEPT ![r] = "idle"]
              /\ given' = [given EXCEPT ![r] = NoHandler]

\* A call ended normally before: this one does nothing.
SkipOnce(r) ==
  /\ rpc[r] = "once"
  /\ once = "done"
  /\ Returns(r)
  /\ served' = TRUE
  /\ UNCHANGED <<queue, stopFlag, handler, once, wpc, posted, work, callers,
                 started>>

SetHandler(r) ==
  /\ rpc[r] = "set"
  /\ handler' = given[r]
  /\ rpc' = [rpc EXCEPT ![r] = "start"]
  /\ UNCHANGED <<queue, stopFlag, once, wpc, posted, work, callers, given,
                 started, served>>

\* The worker runs from here on, before call_once knows of it.
StartWorker(r) ==
  /\ rpc[r] = "start"
  /\ wpc' = "test"
  /\ started' = Append(started, given[r])
  /\ rpc' = [rpc EXCEPT ![r] = "end"]
  /\ UNCHANGED <<queue, stopFlag, handler, once, posted, work, callers, given,
                 served>>

\* The thread cannot be created: the exception leaves call_once, the handler
\* stays set, and a later call, or one that waits, starts over.
StartThrows(r) ==
  /\ rpc[r] = "start"
  /\ once' = "unset"
  /\ Returns(r)
  /\ UNCHANGED <<queue, stopFlag, handler, wpc, posted, work, callers, started,
                 served>>

\* The thread is pinned or not (151), and the call ends normally.
LeaveOnce(r) ==
  /\ rpc[r] = "end"
  /\ once' = "done"
  /\ Returns(r)
  /\ served' = TRUE
  /\ UNCHANGED <<queue, stopFlag, handler, wpc, posted, work, callers, started>>

Register(r) == \/ \E h \in Handler : CallRegister(r, h)
               \/ EnterOnce(r) \/ SkipOnce(r) \/ SetHandler(r)
               \/ StartWorker(r) \/ StartThrows(r) \/ LeaveOnce(r)
-----------------------------------------------------------------------------
(* stop(), and the destructor that calls it and joins the worker *)

StopStore(s) ==
  /\ spc[s] = "idle"
  /\ opc = "use" \/ (s = Owner /\ opc = "destroy")
  /\ stopFlag' = TRUE
  /\ spc' = [spc EXCEPT ![s] = "notify"]
  /\ UNCHANGED <<queue, handler, wpc, opc, posted, work, calls>>

\* Mutation: stop() notifies no one.
StopSilently(s) ==
  /\ spc[s] = "notify"
  /\ spc' = [spc EXCEPT ![s] = "idle"]
  /\ opc' = IF s = Owner /\ opc = "destroy" THEN "join" ELSE opc
  /\ UNCHANGED <<queue, stopFlag, handler, wpc, posted, work, calls>>

StopNotify(s) ==
  /\ spc[s] = "notify"
  /\ spc' = [spc EXCEPT ![s] = "idle"]
  /\ wpc' = Notified
  /\ opc' = IF s = Owner /\ opc = "destroy" THEN "join" ELSE opc
  /\ UNCHANGED <<queue, stopFlag, handler, posted, work, calls>>

\* The destructor begins; no call of another thread outlives the processor.
Destroy ==
  /\ opc = "use"
  /\ \A s \in Stopper : spc[s] = "idle"
  /\ \A r \in Registrar : rpc[r] = "idle"
  /\ opc' = "destroy"
  /\ UNCHANGED <<queue, stopFlag, handler, wpc, spc, posted, work, calls>>

Join ==
  /\ opc = "join"
  /\ wpc \in {"absent", "exited"}
  /\ opc' = "destroyed"
  /\ UNCHANGED <<queue, stopFlag, handler, wpc, spc, posted, work, calls>>
-----------------------------------------------------------------------------
(* process() *)

TestStop ==
  /\ wpc = "test"
  /\ wpc' = IF stopFlag THEN "exited" ELSE "lock"
  /\ UNCHANGED <<queue, stopFlag, handler, posted, work, callers, calls>>

\* The predicate holds: the flag is set and there is nothing to take.
ContinueEmpty ==
  /\ wpc = "lock"
  /\ stopFlag
  /\ queue = <<>>
  /\ wpc' = "test"
  /\ UNCHANGED <<queue, stopFlag, handler, posted, work, callers, calls>>

\* The predicate holds: the oldest message is taken and the mutex released.
Take ==
  /\ wpc = "lock"
  /\ queue # <<>>
  /\ message' = Head(queue)
  /\ queue' = Tail(queue)
  /\ late' = IF stopFlag THEN late + 1 ELSE late
  /\ wpc' = "handle"
  /\ UNCHANGED <<stopFlag, handler, posted, handled, callers, calls>>

\* The predicate does not hold; the mutex is kept until the thread waits.
PredicateFails ==
  /\ wpc = "lock"
  /\ ~ stopFlag
  /\ queue = <<>>
  /\ wpc' = "block"
  /\ UNCHANGED <<queue, stopFlag, handler, posted, work, callers, calls>>

Block ==
  /\ wpc = "block"
  /\ wpc' = "wait"
  /\ UNCHANGED <<queue, stopFlag, handler, posted, work, callers, calls>>

WakeSpuriously ==
  /\ wpc = "wait"
  /\ wpc' = "lock"
  /\ UNCHANGED <<queue, stopFlag, handler, posted, work, callers, calls>>

Handle ==
  /\ wpc = "handle"
  /\ handled' = Append(handled, message)
  /\ message' = 0
  /\ wpc' = "test"
  /\ UNCHANGED <<queue, stopFlag, handler, posted, late, callers, calls>>
-----------------------------------------------------------------------------
Process == \/ TestStop \/ ContinueEmpty \/ Take \/ PredicateFails \/ Block
           \/ WakeSpuriously \/ Handle

Next == \/ PostMessage
        \/ \E r \in Registrar : Register(r)
        \/ \E s \in Stopper : StopStore(s) \/ StopNotify(s)
        \/ Destroy \/ Join
        \/ Process

Spec == Init /\ [][Next]_vars

\* The worker and a thread that is in stop() or in the destructor are scheduled,
\* and handlers return.  Only a notification has to wake the worker.
Fairness == /\ WF_vars(TestStop \/ ContinueEmpty \/ Take \/ PredicateFails)
            /\ WF_vars(Block)
            /\ WF_vars(Handle)
            /\ \A s \in Stopper : WF_vars(StopNotify(s))
            /\ WF_vars(Join)
            /\ WF_vars(opc = "destroy" /\ StopStore(Owner))

FairSpec == Spec /\ Fairness
-----------------------------------------------------------------------------
\* The values the variables take: a message is in hand exactly while the
\* handler runs, and the worker is started, and runs, with a handler.
TypeOK ==
  /\ queue \in Seq(1..MaxPosts)
  /\ stopFlag \in BOOLEAN
  /\ handler \in Handler \cup {NoHandler}
  /\ wpc \in {"absent", "test", "lock", "block", "wait", "handle", "exited"}
  /\ once \in {"unset", "running", "done"}
  /\ rpc \in [Registrar -> {"idle", "once", "set", "start", "end"}]
  /\ given \in [Registrar -> Handler \cup {NoHandler}]
  /\ \A r \in Registrar : /\ given[r] = NoHandler <=> rpc[r] = "idle"
                          /\ rpc[r] \in {"start", "end"} => handler # NoHandler
  /\ started \in Seq(Handler)
  /\ served \in BOOLEAN
  /\ wpc # "absent" => handler # NoHandler
  /\ message \in 0..MaxPosts
  /\ message # 0 <=> wpc = "handle"
  /\ spc \in [Stopper -> {"idle", "notify"}]
  /\ opc \in {"use", "destroy", "join", "destroyed"}
  /\ posted \in 0..MaxPosts
  /\ handled \in Seq(1..MaxPosts)
  /\ late \in Nat

\* The messages handled, the one in hand and the queued ones are all that were
\* posted, in the order of the posts: none is lost, repeated or overtaken.
InHand == IF wpc = "handle" THEN <<message>> ELSE <<>>
HandledInOrder == handled \o InHand \o queue = [i \in 1..posted |-> i]

\* After stop() at most the message the worker was about to take is taken (174,
\* 184): the others stay in the queue.
StopsPromptly == late <= 1

\* The messages, from the post to the handler, and the end of their worker.
MessageInv == TypeOK /\ HandledInOrder /\ StopsPromptly

\* "Even if you call this function more than one time, only first call will be
\* effective" (143), whatever threads call it and however often a thread cannot
\* be created (150): at most one worker is ever started, it handles every
\* message with the handler of the call that started it, no one writes handler_
\* (149) while that worker may read it (194), and a call that returns normally
\* leaves a worker behind.
FirstCallIsEffective ==
  /\ wpc # "absent" => started = <<handler>>
  /\ wpc # "absent" => \A r \in Registrar : rpc[r] \notin {"set", "start"}
  /\ served => wpc # "absent"

\* While there is a worker and no one has called stop(), every posted message
\* is handled: no notification of a post is lost.
PostedIsHandled ==
  \A i \in 1..MaxPosts :
    wpc # "absent" /\ i <= posted ~> i <= Len(handled) \/ stopFlag

\* A worker that runs when stop() sets the flag, or already waits when stop()
\* is about to notify it, ends.
StopReachesWorker ==
  \/ stopFlag /\ wpc \in {"test", "lock", "handle"}
  \/ wpc = "wait" /\ \E s \in Stopper : spc[s] = "notify"
  ~> wpc = "exited"
=============================================================================
