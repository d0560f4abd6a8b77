------------------------ MODULE MessageProcessorProofs ------------------------
(***************************************************************************)
(* Proofs about MessageProcessor, for every set of handlers, of threads    *)
(* that call registerHandler() or stop(), and for any number of posts.     *)
(*                                                                         *)
(* The messages handled, in hand and queued are one sequence that a post   *)
(* extends at its end and that nothing else changes.  The worker takes at  *)
(* most one message after the stop, because it must pass the test of the   *)
(* flag between two: LateInv says where it can be once it took one.        *)
(*                                                                         *)
(* That the first call is the effective one rests on who is inside         *)
(* call_once: OnceInv says that it is one call at a time, that none is     *)
(* before its thread's creation once there is a worker, and what the flag  *)
(* means for the worker.                                                   *)
(***************************************************************************)
EXTENDS MessageProcessor, SequenceTheorems, TLAPS

-----------------------------------------------------------------------------
(* The registrations *)

\* The calls between the entry of call_once and its end (148-155).
Inside(r) == rpc[r] \in {"set", "start", "end"}

\* What the flag and the worker say about the calls, and the calls about each
\* other.
OnceInv ==
  /\ rpc \in [Registrar -> {"idle", "once", "set", "start", "end"}]
  /\ given \in [Registrar -> Handler \cup {NoHandler}]
  /\ \A r \in Registrar : Inside(r) => once = "running"
  /\ \A r, q \in Registrar : Inside(r) /\ Inside(q) => r = q
  /\ \A r \in Registrar : rpc[r] \in {"set", "start"} => wpc = "absent"
  /\ \A r \in Registrar : rpc[r] = "start" => handler = given[r]
  /\ \A r \in Registrar : rpc[r] = "end" => wpc # "absent"
  /\ once = "unset" => wpc = "absent"
  /\ once = "done" => wpc # "absent"
  /\ started = IF wpc = "absent" THEN <<>> ELSE <<handler>>
  /\ served => once = "done"

\* One call at a time is inside, whichever thread enters, fails or ends.
LEMMA RegisterKeepsOnce ==
  ASSUME OnceInv, NEW r \in Registrar, Register(r)
  PROVE  OnceInv'
<1>1. ASSUME NEW h \in Handler, CallRegister(r, h) PROVE OnceInv'
  BY <1>1 DEF CallRegister, OnceInv, Inside
<1>2. CASE EnterOnce(r)
  BY <1>2 DEF EnterOnce, OnceInv, Inside
<1>3. CASE SkipOnce(r)
  BY <1>3 DEF SkipOnce, Returns, OnceInv, Inside
<1>4. CASE SetHandler(r)
  BY <1>4 DEF SetHandler, OnceInv, Inside
<1>5. CASE StartWorker(r)
  <2>1. given[r] = handler /\ started = <<>>
    BY <1>5 DEF StartWorker, OnceInv, Inside
  <2>2. started' = <<handler>>
    BY <1>5, <2>1 DEF StartWorker
  <2> QED
    BY <1>5, <2>2 DEF StartWorker, OnceInv, Inside
<1>6. CASE StartThrows(r)
  BY <1>6 DEF StartThrows, Returns, OnceInv, Inside
<1>7. CASE LeaveOnce(r)
  BY <1>7 DEF LeaveOnce, Returns, OnceInv, Inside
<1> QED
  BY <1>1, <1>2, <1>3, <1>4, <1>5, <1>6, <1>7 DEF Register

\* The other steps neither begin nor end the worker's life, nor touch handler_.
LEMMA OnceNext == OnceInv /\ [Next]_vars => OnceInv'
<1> SUFFICES ASSUME OnceInv, [Next]_vars PROVE OnceInv'
  OBVIOUS
<1>1. CASE \E r \in Registrar : Register(r)
  BY <1>1, RegisterKeepsOnce
<1>2. CASE ~ \E r \in Registrar : Register(r)
  <2>1. /\ UNCHANGED <<rpc, given, once, handler, started, served>>
        /\ wpc' = "absent" <=> wpc = "absent"
    BY <1>2
       DEF Next, Process, PostMessage, StopStore, StopNotify, Destroy, Join,
           TestStop, ContinueEmpty, Take, PredicateFails, Block,
           WakeSpuriously, Handle, Notified, calls, vars
  <2> QED
    BY <2>1 DEF OnceInv, Inside
<1> QED
  BY <1>1, <1>2

\* It holds from the start on.
LEMMA OnceAlways == Spec => []OnceInv
<1>1. Init => OnceInv
  <2> SUFFICES ASSUME Init PROVE OnceInv
    OBVIOUS
  <2>1. \A r \in Registrar : rpc[r] = "idle" /\ given[r] = NoHandler
    BY DEF Init
  <2> QED
    BY <2>1 DEF Init, OnceInv, Inside
<1> QED
  BY <1>1, OnceNext, PTL DEF Spec

\* The first call that starts a worker is the last one that does anything, for
\* any threads, any handlers and any number of failed calls (143-156).
THEOREM FirstCallEffective == Spec => []FirstCallIsEffective
<1>1. OnceInv => FirstCallIsEffective
  BY DEF OnceInv, FirstCallIsEffective
<1> QED
  BY <1>1, OnceAlways, PTL
-----------------------------------------------------------------------------
(* The types *)

\* Whoever posts, registers or stops, the worker's state and the messages keep
\* their types; in particular it never runs without a handler (148).
LEMMA TypeInit == Init => TypeOK
<1>1. <<>> \in Seq(1..MaxPosts) /\ 0 \in 0..MaxPosts /\ 0 \in Nat
  BY BoundAssumption
<1>2. [s \in Stopper |-> "idle"] \in [Stopper -> {"idle", "notify"}]
  OBVIOUS
<1>3. /\ [r \in Registrar |-> "idle"] \in
           [Registrar -> {"idle", "once", "set", "start", "end"}]
      /\ [r \in Registrar |-> NoHandler] \in
           [Registrar -> Handler \cup {NoHandler}]
      /\ <<>> \in Seq(Handler)
  OBVIOUS
<1> QED
  BY <1>1, <1>2, <1>3 DEF Init, TypeOK

\* A step of a registering thread keeps the types; a worker is started with the
\* handler the call just set (149, 150).
LEMMA RegisterTypes ==
  ASSUME TypeOK, OnceInv, NEW r \in Registrar, Register(r)
  PROVE  TypeOK'
<1> USE HandlerAssumption
<1>1. ASSUME NEW h \in Handler, CallRegister(r, h) PROVE TypeOK'
  BY <1>1 DEF CallRegister, TypeOK, work, callers
<1>2. CASE EnterOnce(r)
  BY <1>2 DEF EnterOnce, TypeOK, work, callers
<1>3. CASE SkipOnce(r)
  BY <1>3 DEF SkipOnce, Returns, TypeOK, work, callers
<1>4. CASE SetHandler(r)
  <2>1. given[r] \in Handler
    BY <1>4 DEF SetHandler, TypeOK
  <2> QED
    BY <1>4, <2>1 DEF SetHandler, TypeOK, work, callers
<1>5. CASE StartWorker(r)
  <2>1. given[r] \in Handler /\ handler # NoHandler
    BY <1>5 DEF StartWorker, TypeOK
  <2>2. started' \in Seq(Handler)
    BY <1>5, <2>1 DEF StartWorker, TypeOK
  <2>3. wpc' = "test" /\ message' = message /\ message = 0
    BY <1>5 DEF StartWorker, TypeOK, OnceInv, work
  <2> QED
    BY <1>5, <2>1, <2>2, <2>3 DEF StartWorker, TypeOK, work, callers
<1>6. CASE StartThrows(r)
  BY <1>6 DEF StartThrows, Returns, TypeOK, work, callers
<1>7. CASE LeaveOnce(r)
  BY <1>7 DEF LeaveOnce, Returns, TypeOK, work, callers
<1> QED
  BY <1>1, <1>2, <1>3, <1>4, <1>5, <1>6, <1>7 DEF Register

\* A thread that waits is sent back to the mutex by a notification (138, 164).
LEMMA NotifiedType ==
  ASSUME TypeOK
  PROVE  /\ Notified \in {"absent", "test", "lock", "block", "handle",
                          "exited"}
         /\ Notified = "absent" <=> wpc = "absent"
         /\ Notified = "handle" <=> wpc = "handle"
BY DEF TypeOK, Notified

\* Every step keeps the types.
LEMMA TypeNext == TypeOK /\ OnceInv /\ [Next]_vars => TypeOK'
<1> SUFFICES ASSUME TypeOK, OnceInv, [Next]_vars PROVE TypeOK'
  OBVIOUS
<1> USE BoundAssumption
<1>1. CASE PostMessage
  <2>1. posted + 1 \in 1..MaxPosts /\ queue' \in Seq(1..MaxPosts)
    BY <1>1 DEF PostMessage, TypeOK
  <2> QED
    BY <1>1, <2>1, NotifiedType DEF PostMessage, TypeOK, work, callers, calls
<1>2. ASSUME NEW r \in Registrar, Register(r) PROVE TypeOK'
  BY <1>2, RegisterTypes
<1>4. ASSUME NEW s \in Stopper, StopStore(s) PROVE TypeOK'
  BY <1>4 DEF StopStore, TypeOK, work, calls
<1>5. ASSUME NEW s \in Stopper, StopNotify(s) PROVE TypeOK'
  BY <1>5, NotifiedType DEF StopNotify, TypeOK, work, calls
<1>6. CASE Destroy
  BY <1>6 DEF Destroy, TypeOK, work, calls
<1>7. CASE Join
  BY <1>7 DEF Join, TypeOK, work, calls
<1>8. CASE TestStop
  BY <1>8 DEF TestStop, TypeOK, work, callers, calls
<1>9. CASE ContinueEmpty
  BY <1>9 DEF ContinueEmpty, TypeOK, work, callers, calls
<1>10. CASE Take
  <2>1. Head(queue) \in 1..MaxPosts /\ Tail(queue) \in Seq(1..MaxPosts)
    BY <1>10 DEF Take, TypeOK
  <2>2. message' \in 1..MaxPosts /\ late' \in Nat
    BY <1>10, <2>1 DEF Take, TypeOK
  <2> QED
    BY <1>10, <2>1, <2>2 DEF Take, TypeOK, callers, calls
<1>11. CASE PredicateFails
  BY <1>11 DEF PredicateFails, TypeOK, work, callers, calls
<1>12. CASE Block
  BY <1>12 DEF Block, TypeOK, work, callers, calls
<1>13. CASE WakeSpuriously
  BY <1>13 DEF WakeSpuriously, TypeOK, work, callers, calls
<1>14. CASE Handle
  <2>1. message \in 1..MaxPosts
    BY <1>14 DEF Handle, TypeOK
  <2>2. handled' \in Seq(1..MaxPosts)
    BY <1>14, <2>1 DEF Handle, TypeOK
  <2> QED
    BY <1>14, <2>2 DEF Handle, TypeOK, callers, calls
<1>15. CASE UNCHANGED vars
  BY <1>15 DEF TypeOK, vars, work, callers, calls
<1> QED
  BY <1>1, <1>2, <1>4, <1>5, <1>6, <1>7, <1>8, <1>9, <1>10, <1>11, <1>12,
     <1>13, <1>14, <1>15 DEF Next, Process

\* A message is in hand exactly while the handler runs, and the worker has a
\* handler, for any threads and any number of posts.
THEOREM TypeCorrect == Spec => []TypeOK
BY TypeInit, TypeNext, OnceAlways, PTL DEF Spec
-----------------------------------------------------------------------------
(* The order of the messages *)

\* One more post: the sequence of all numbers grows by the next one.
LEMMA OneMore ==
  ASSUME NEW n \in Nat
  PROVE  /\ [i \in 1..n |-> i] \in Seq(Nat)
         /\ [i \in 1..(n + 1) |-> i] = Append([i \in 1..n |-> i], n + 1)
<1> DEFINE s == [i \in 1..n |-> i]
<1> DEFINE t == [i \in 1..(n + 1) |-> i]
<1>1. n + 1 \in Nat /\ s \in [1..n -> Nat] /\ t \in [1..(n + 1) -> Nat]
  OBVIOUS
<1>2. (\A i \in 1..n : t[i] = s[i]) /\ t[n + 1] = n + 1
  OBVIOUS
<1> HIDE DEF s, t
<1>3. s \in Seq(Nat) /\ t \in Seq(Nat)
  BY <1>1, SeqDef
<1>4. t = Append(s, n + 1)
  <2>1. Len(s) = n /\ Len(t) = n + 1
    BY <1>1, <1>3, LenProperties
  <2>2. /\ Append(s, n + 1) \in Seq(Nat) /\ Len(Append(s, n + 1)) = n + 1
        /\ \A i \in 1..(n + 1) :
             Append(s, n + 1)[i] = IF i = n + 1 THEN n + 1 ELSE s[i]
    BY <1>1, <1>3, <2>1, AppendProperties
  <2> QED
    BY <1>1, <1>2, <1>3, <2>1, <2>2, SeqEqual
<1> QED
  BY <1>3, <1>4 DEF s, t

\* A value appended to the last of three sequences is appended to all of them.
LEMMA AppendToAll ==
  ASSUME NEW S, NEW h \in Seq(S), NEW m \in Seq(S), NEW q \in Seq(S),
         NEW v \in S
  PROVE  (h \o m) \o Append(q, v) = Append((h \o m) \o q, v)
<1>1. h \o m \in Seq(S)
  BY ConcatProperties
<1>2. v \in S /\ <<v>> \in Seq(S)
  OBVIOUS
<1>3. (h \o m) \o q \in Seq(S)
  BY <1>1, ConcatProperties
<1>4. Append(q, v) = q \o <<v>>
  BY AppendIsConcat
<1>5. Append((h \o m) \o q, v) = ((h \o m) \o q) \o <<v>>
  BY <1>3, AppendIsConcat
<1>6. ((h \o m) \o q) \o <<v>> = (h \o m) \o (q \o <<v>>)
  BY <1>1, <1>2, ConcatAssociative, SMTT(30)
<1> QED
  BY <1>4, <1>5, <1>6

\* A post is behind all messages there are (137).
LEMMA PostOrdered == TypeOK /\ HandledInOrder /\ PostMessage => HandledInOrder'
<1> SUFFICES ASSUME TypeOK, HandledInOrder, PostMessage
             PROVE  HandledInOrder'
  OBVIOUS
<1>1. /\ handled \in Seq(Nat) /\ InHand \in Seq(Nat) /\ queue \in Seq(Nat)
      /\ posted \in Nat /\ posted + 1 \in Nat
  BY BoundAssumption DEF TypeOK, InHand
<1>2. handled' = handled /\ InHand' = InHand
  BY NotifiedType DEF PostMessage, InHand, work
<1>3. queue' = Append(queue, posted + 1) /\ posted' = posted + 1
  BY DEF PostMessage
<1>4. (handled \o InHand) \o queue' = Append((handled \o InHand) \o queue,
                                              posted + 1)
  BY <1>1, <1>3, AppendToAll, SMTT(30)
<1>5. @ = [i \in 1..posted' |-> i]
  BY <1>1, <1>3, OneMore DEF HandledInOrder
<1> QED
  BY <1>2, <1>4, <1>5 DEF HandledInOrder

\* The head of the queue goes into the hand of the worker (184).
LEMMA TakeOrdered == TypeOK /\ HandledInOrder /\ Take => HandledInOrder'
<1> SUFFICES ASSUME TypeOK, HandledInOrder, Take PROVE HandledInOrder'
  OBVIOUS
<1>1. handled \in Seq(Nat) /\ queue \in Seq(Nat) /\ queue # <<>>
  BY BoundAssumption DEF TypeOK, Take
<1>2. InHand = <<>> /\ InHand' = <<Head(queue)>>
  BY DEF Take, InHand
<1>3. queue = <<Head(queue)>> \o Tail(queue)
  BY <1>1
<1>4. (handled \o <<>>) \o queue = (handled \o <<Head(queue)>>) \o Tail(queue)
  <2>1. <<Head(queue)>> \in Seq(Nat) /\ Tail(queue) \in Seq(Nat)
    BY <1>1
  <2>2. (handled \o <<Head(queue)>>) \o Tail(queue) = handled \o queue
    BY <1>1, <1>3, <2>1, ConcatAssociative, SMTT(30)
  <2> QED
    BY <1>1, <2>2, ConcatEmptySeq, SMTT(30)
<1> QED
  BY <1>2, <1>4 DEF HandledInOrder, Take, callers

\* The message in hand becomes the last one handled (194).
LEMMA HandleOrdered == TypeOK /\ HandledInOrder /\ Handle => HandledInOrder'
<1> SUFFICES ASSUME TypeOK, HandledInOrder, Handle PROVE HandledInOrder'
  OBVIOUS
<1>1. handled \in Seq(Nat) /\ queue \in Seq(Nat) /\ message \in Nat
  BY BoundAssumption DEF TypeOK
<1>2. InHand = <<message>> /\ InHand' = <<>>
  BY DEF Handle, InHand
<1>3. handled \o <<message>> = Append(handled, message) \o <<>>
  BY <1>1
<1> QED
  BY <1>2, <1>3 DEF HandledInOrder, Handle, callers

\* No other step touches the messages or begins or ends a handler.
LEMMA OthersKeepOrder ==
  TypeOK /\ OnceInv /\ HandledInOrder /\ [Next]_vars
    /\ ~ PostMessage /\ ~ Take /\ ~ Handle => HandledInOrder'
<1> SUFFICES ASSUME TypeOK, OnceInv, HandledInOrder, [Next]_vars,
                    ~ PostMessage, ~ Take, ~ Handle
             PROVE  HandledInOrder'
  OBVIOUS
<1>1. /\ UNCHANGED <<queue, handled, message, posted>>
      /\ wpc' = "handle" <=> wpc = "handle"
  BY NotifiedType
     DEF Next, Process, Register, CallRegister, EnterOnce, SkipOnce, SetHandler,
         StartWorker, StartThrows, LeaveOnce, StopStore, StopNotify,
         Destroy, Join, TestStop, ContinueEmpty, PredicateFails, Block,
         WakeSpuriously, OnceInv, work, callers, vars
<1> QED
  BY <1>1 DEF HandledInOrder, InHand
-----------------------------------------------------------------------------
(* The stop *)

\* A message is late only after the stop, and behind a late one the worker
\* comes to the test of the flag (174) before it comes to the queue.
LateInv == /\ ~ stopFlag => late = 0
           /\ late <= 1
           /\ late = 1 => wpc \in {"handle", "test", "exited"}

\* Every step keeps the worker away from a second late message.
LEMMA LateNext == TypeOK /\ OnceInv /\ LateInv /\ [Next]_vars => LateInv'
<1> SUFFICES ASSUME TypeOK, OnceInv, LateInv, [Next]_vars PROVE LateInv'
  OBVIOUS
<1>0. late \in Nat
  BY DEF TypeOK
<1>1. CASE PostMessage
  BY <1>1 DEF PostMessage, Notified, LateInv, work
<1>2. ASSUME NEW r \in Registrar, Register(r) PROVE LateInv'
  BY <1>2
     DEF Register, CallRegister, EnterOnce, SkipOnce, SetHandler, StartWorker,
         StartThrows, LeaveOnce, LateInv, OnceInv, work
<1>3. ASSUME NEW s \in Stopper, StopStore(s) \/ StopNotify(s) PROVE LateInv'
  BY <1>0, <1>3 DEF StopStore, StopNotify, Notified, LateInv, work
<1>4. CASE Destroy \/ Join
  BY <1>4 DEF Destroy, Join, LateInv, work
<1>5. CASE TestStop \/ ContinueEmpty
  BY <1>5 DEF TestStop, ContinueEmpty, LateInv, work
<1>6. CASE Take
  BY <1>0, <1>6 DEF Take, LateInv
<1>7. CASE PredicateFails \/ Block \/ WakeSpuriously
  BY <1>7 DEF PredicateFails, Block, WakeSpuriously, LateInv, work
<1>8. CASE Handle
  BY <1>8 DEF Handle, LateInv
<1>9. CASE UNCHANGED vars
  BY <1>9 DEF vars, work, LateInv
<1> QED
  BY <1>1, <1>2, <1>3, <1>4, <1>5, <1>6, <1>7, <1>8, <1>9 DEF Next, Process
-----------------------------------------------------------------------------
\* Messages are handled in the order of the posts, none is lost or repeated,
\* and at most one is taken after stop(), however often and by whomever it is
\* called (174, 184, 187).
THEOREM MessageInvariant == Spec => []MessageInv
<1>1. Init => HandledInOrder /\ LateInv
  <2> SUFFICES ASSUME Init PROVE HandledInOrder /\ LateInv
    OBVIOUS
  <2>1. [i \in 1..0 |-> i] = <<>>
    OBVIOUS
  <2>2. handled \o InHand \o queue = <<>> /\ posted = 0
    BY DEF Init, InHand
  <2> QED
    BY <2>1, <2>2 DEF Init, HandledInOrder, LateInv
<1>2. TypeOK /\ OnceInv /\ HandledInOrder /\ [Next]_vars => HandledInOrder'
  BY PostOrdered, TakeOrdered, HandleOrdered, OthersKeepOrder
<1>3. TypeOK /\ HandledInOrder /\ LateInv => MessageInv
  BY DEF MessageInv, LateInv, StopsPromptly
<1> QED
  BY <1>1, <1>2, <1>3, LateNext, TypeCorrect, OnceAlways, PTL DEF Spec
=============================================================================
