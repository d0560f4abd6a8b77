---------------------------- MODULE TimerThread ----------------------------
(***************************************************************************)
(* timer_thread.cpp: TimerThread, a thread that walks over the registered  *)
(* timers for as long as it runs and calls those that are due.             *)
(*                                                                         *)
(* The worker holds the mutex mt_ from "walk" to the end of the walk, the  *)
(* callbacks included; at "lock" it is about to take it.  The clock is the *)
(* system clock, which may be set forward and back.  prevFireTime_ is kept *)
(* as the time since then, on that clock: elapsed = now - prevFireTime_.   *)
(* Time that really passes is counted in ticks, too; the histories of it   *)
(* stop at Interval, more than which no property tells apart.              *)
(***************************************************************************)
EXTENDS Integers, Sequences, SequencesExt

CONSTANTS OneShot,      \* the timers registered with interval 0
          Periodic,     \* the others
          Interval,     \* their interval, in ticks of the clock
          Width,        \* 2^32: what the elapsed time is cut to (230)
          MaxElapsed,   \* bound: how far a timer's time is from now
          MaxJumps      \* bound: how often the clock is set forward or back

ASSUME IntervalAssumption == /\ MaxElapsed \in Nat /\ Interval \in 1..MaxElapsed
                             /\ Width \in Nat /\ MaxElapsed < Width
ASSUME KindAssumption == OneShot \cap Periodic = {}
ASSUME JumpsAssumption == MaxJumps \in Nat

VARIABLES timers,     \* timers_, in the order of their registration
          elapsed,    \* now - prevFireTime_ of each timer
          fires,      \* how often each was called: 0, 1, or 2 for more
          waited,     \* history: the real time since its last call; before its
                      \* second call, since its registration or the beginning
                      \* of the worker
          ahead,      \* history: by how much the clock was set forward since
          pos,        \* the timer the walk is at
          wpc,        \* what the worker does next
          flag,       \* startTimerFlag_
          opc,        \* how far the owner is
          raced,      \* a timer was registered while the worker walked over
                      \* timers_ without the mutex
          jumps       \* how often the clock was set, forward or back

times == <<elapsed, waited, ahead, jumps>>
vars == <<timers, times, fires, pos, wpc, flag, opc, raced>>

Timer == OneShot \cup Periodic
Registered == ToSet(timers)

Init == /\ timers = <<>>
        /\ elapsed = [t \in Timer |-> 0]
        /\ waited = [t \in Timer |-> 0]
        /\ ahead = [t \in Timer |-> 0]
        /\ fires = [t \in Timer |-> 0]
        /\ pos = 1
        /\ wpc = "none"
        /\ flag = TRUE
        /\ opc = "use"
        /\ raced = FALSE
        /\ jumps = 0
-----------------------------------------------------------------------------
(* The threads that use the timer, and the clock *)

\* Mutation: the new timer is announced to no one.
NotifiedNot == wpc

\* notify_all: the worker is the only thread that waits.
Notified == IF wpc = "wait" THEN "lock" ELSE wpc

Register(t) ==
  /\ opc = "use"
  /\ wpc \notin {"walk", "callback", "stuck"}
  /\ t \notin Registered
  /\ timers' = Append(timers, t)
  /\ elapsed' = [elapsed EXCEPT ![t] = 0]
  /\ waited' = [waited EXCEPT ![t] = 0]
  /\ ahead' = [ahead EXCEPT ![t] = 0]
  /\ raced' = (raced \/ wpc = "reset")
  /\ wpc' = Notified
  /\ UNCHANGED <<fires, pos, flag, opc, jumps>>

\* A callback registers a timer: its thread holds the mutex and waits for it.
RegisterInCallback ==
  /\ wpc = "callback"
  /\ wpc' = "stuck"
  /\ UNCHANGED <<timers, times, fires, pos, flag, opc, raced>>

Start ==
  /\ opc = "use"
  /\ wpc = "none"
  /\ wpc' = "reset"
  /\ UNCHANGED <<timers, times, fires, pos, flag, opc, raced>>

\* The destructor calls stop(); the notification finds the same predicate.
Stop ==
  /\ opc = "use"
  /\ flag' = FALSE
  /\ opc' = "join"
  /\ UNCHANGED <<timers, times, fires, pos, wpc, raced>>

Join ==
  /\ opc = "join"
  /\ wpc \in {"none", "exited"}
  /\ opc' = "gone"
  /\ UNCHANGED <<timers, times, fires, pos, wpc, flag, raced>>

\* A one-shot timer's time is never looked at again.
Aging == Registered \cap Periodic

\* Every timer's time on the clock changes by d, between the bounds.
Moved(d) ==
  /\ \A t \in Periodic : elapsed[t] + d \in (0 - MaxElapsed)..MaxElapsed
  /\ elapsed' = [t \in Timer |-> IF t \in Aging
                                 THEN elapsed[t] + d ELSE elapsed[t]]

\* A history with d more for every timer, up to Interval.
Counted(f, d) == [t \in Timer |-> IF t \notin Aging THEN f[t]
                                  ELSE IF f[t] + d < Interval THEN f[t] + d
                                  ELSE Interval]

Tick ==
  /\ Moved(1)
  /\ waited' = Counted(waited, 1)
  /\ UNCHANGED <<timers, ahead, fires, pos, wpc, flag, opc, raced, jumps>>

SetForward ==
  /\ jumps < MaxJumps
  /\ jumps' = jumps + 1
  /\ \E d \in 1..Interval : Moved(d) /\ ahead' = Counted(ahead, d)
  /\ UNCHANGED <<timers, waited, fires, pos, wpc, flag, opc, raced>>

SetBack ==
  /\ jumps < MaxJumps
  /\ jumps' = jumps + 1
  /\ \E d \in 1..Interval : Moved(0 - d)
  /\ UNCHANGED <<timers, waited, ahead, fires, pos, wpc, flag, opc, raced>>
-----------------------------------------------------------------------------
(* run() *)

\* The walk of 185 takes no mutex: a registration meanwhile may move the
\* elements, and what is written to the old ones is lost.
ResetFireTimes ==
  /\ wpc = "reset"
  /\ \E missed \in IF raced THEN SUBSET Registered ELSE {{}} :
       elapsed' = [t \in Timer |-> IF t \in Registered \ missed
                                   THEN 0 ELSE elapsed[t]]
  /\ waited' = [t \in Timer |-> 0]
  /\ ahead' = [t \in Timer |-> 0]
  /\ wpc' = "test"
  /\ UNCHANGED <<timers, fires, pos, flag, opc, raced, jumps>>

\* Mutation: the loop goes on while there are timers.
TestFlagOrTimers ==
  /\ wpc = "test"
  /\ wpc' = IF flag \/ timers # <<>> THEN "lock" ELSE "exited"
  /\ UNCHANGED <<timers, times, fires, pos, flag, opc, raced>>

TestFlag ==
  /\ wpc = "test"
  /\ wpc' = IF flag THEN "lock" ELSE "exited"
  /\ UNCHANGED <<timers, times, fires, pos, flag, opc, raced>>

\* The predicate is tested and the mutex given up for the wait in one step: a
\* registration needs the mutex.
LockAndWait ==
  /\ wpc = "lock"
  /\ wpc' = IF timers = <<>> THEN "wait" ELSE "walk"
  /\ pos' = 1
  /\ UNCHANGED <<timers, times, fires, flag, opc, raced>>

\* Spuriously, or for the notification of stop().
Wake ==
  /\ wpc = "wait"
  /\ wpc' = "lock"
  /\ UNCHANGED <<timers, times, fires, pos, flag, opc, raced>>

\* The elapsed milliseconds as an unsigned number of 32 bits.
Duration(t) == elapsed[t] % Width

\* Mutation: an interval of 0 is like any other.
ReadyAgain(t) ==
  \/ fires[t] = 0
  \/ t \in OneShot
  \/ Duration(t) >= Interval

IsReady(t) == \/ fires[t] = 0
              \/ t \in Periodic /\ Duration(t) >= Interval

\* Mutation: the time of the last firing stays as it was.
FiredAtKept(t) == UNCHANGED elapsed

\* prevFireTime_ is set when the timer fires again, not the first time.
FiredAt(t) ==
  elapsed' = IF fires[t] = 0 THEN elapsed ELSE [elapsed EXCEPT ![t] = 0]

Fire ==
  /\ wpc = "walk"
  /\ pos <= Len(timers)
  /\ LET t == timers[pos]
     IN  /\ IsReady(t)
         /\ FiredAt(t)
         /\ fires' = [fires EXCEPT ![t] = IF @ = 2 THEN 2 ELSE @ + 1]
         /\ IF fires[t] = 0
            THEN UNCHANGED <<waited, ahead>>
            ELSE /\ waited' = [waited EXCEPT ![t] = 0]
                 /\ ahead' = [ahead EXCEPT ![t] = 0]
  /\ wpc' = "callback"
  /\ UNCHANGED <<timers, pos, flag, opc, raced, jumps>>

CallbackReturns ==
  /\ wpc = "callback"
  /\ wpc' = "walk"
  /\ pos' = pos + 1
  /\ UNCHANGED <<timers, times, fires, flag, opc, raced>>

Skip ==
  /\ wpc = "walk"
  /\ pos <= Len(timers)
  /\ ~ IsReady(timers[pos])
  /\ pos' = pos + 1
  /\ UNCHANGED <<timers, times, fires, wpc, flag, opc, raced>>

EndWalk ==
  /\ wpc = "walk"
  /\ pos > Len(timers)
  /\ wpc' = "test"
  /\ UNCHANGED <<timers, times, fires, pos, flag, opc, raced>>
-----------------------------------------------------------------------------
Run == \/ ResetFireTimes \/ TestFlag \/ LockAndWait
       \/ Fire \/ CallbackReturns \/ Skip \/ EndWalk

Next == \/ \E t \in Timer : Register(t)
        \/ RegisterInCallback
        \/ Start \/ Stop \/ Join
        \/ Tick \/ SetForward \/ SetBack
        \/ Run \/ Wake

Spec == Init /\ [][Next]_vars

\* The worker is scheduled and callbacks return, a join that can return does,
\* and the clock goes on.  Wake is not needed: a registration wakes the worker.
Fairness == WF_vars(Run) /\ WF_vars(Join) /\ WF_vars(Tick)

FairSpec == Spec /\ Fairness
-----------------------------------------------------------------------------
\* The values the variables take: timers are registered once, and a timer that
\* has fired is registered.
TypeOK ==
  /\ timers \in Seq(Timer)
  /\ IsInjective(timers)
  /\ elapsed \in [Timer -> (0 - MaxElapsed)..MaxElapsed]
  /\ {waited, ahead} \subseteq [Timer -> 0..Interval]
  /\ fires \in [Timer -> 0..2]
  /\ \A t \in Timer : fires[t] > 0 => t \in Registered
  /\ pos \in 1..(Len(timers) + 1)
  /\ wpc \in {"none", "reset", "test", "lock", "wait", "walk", "callback",
              "stuck", "exited"}
  /\ flag \in BOOLEAN
  /\ opc \in {"use", "join", "gone"}
  /\ raced \in BOOLEAN
  /\ jumps \in 0..MaxJumps

\* A timer without an interval is called once (227).
OneShotsFireOnce == \A t \in OneShot : fires[t] <= 1

\* The timers and the place of the worker in them.
TimerInv == TypeOK /\ OneShotsFireOnce

\* isReady() calls a timer a third time or later only when its interval has
\* really passed since the call before, and the second time only when it has
\* passed since the registration or the beginning of the worker: the first call
\* sets no prevFireTime_ (222-226), and if it comes late the second one may
\* follow at once.  A call is too soon by no more than the clock was set forward
\* since.  Two cases are left out: the clock was set back behind that moment, so
\* that the difference, cut to 32 bits, is huge (230), or a registration raced
\* with the walk of 185.
FiresAgain(t) == fires[t] > 0 /\ wpc = "walk" /\ wpc' = "callback"
                 /\ timers[pos] = t
NotTooSoon ==
  [][\A t \in Periodic :
       FiresAgain(t) => \/ waited[t] + ahead[t] >= Interval
                        \/ elapsed[t] < 0
                        \/ raced]_vars

\* Where the timers stop: the owner has stopped them, or a callback waits for
\* the mutex its own thread holds (167, 197).
Ended == ~ flag \/ wpc = "stuck"

\* A timer that is registered, before or after start(), is called.
RegisteredFires ==
  \A t \in Timer :
    wpc # "none" /\ t \in Registered ~> fires[t] > 0 \/ Ended

\* A timer with an interval is called again whenever the interval has passed
\* since that moment, however the clock is set forward and back.
KeepsFiring ==
  \A t \in Periodic :
    wpc # "none" /\ waited[t] = Interval ~> waited[t] = 0 \/ Ended

\* Every timer is called, and a periodic one for ever.
TimersFire == RegisteredFires /\ KeepsFiring

\* The destructor returns, unless no timer was ever registered, so that stop()
\* cannot wake the worker (191), or a callback waits for its own mutex.
StopReturns ==
  opc = "join" ~> \/ opc = "gone"
                  \/ wpc = "wait" /\ timers = <<>>
                  \/ wpc = "stuck"
=============================================================================
