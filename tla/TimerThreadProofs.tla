-------------------------- MODULE TimerThreadProofs --------------------------
(***************************************************************************)
(* Proofs about TimerThread, for any timers, any interval and a clock that *)
(* is set forward and back any number of times.                            *)
(*                                                                         *)
(* That a timer does not fire too soon is a statement about two clocks:    *)
(* the time since prevFireTime_ as the system clock tells it, and the time *)
(* that has really passed.  ClockInv says how far they agree.              *)
(***************************************************************************)
EXTENDS TimerThread, SequenceTheorems, TLAPS

\* The constants, as the proofs use them.
LEMMA Constants ==
  /\ Interval \in Nat /\ Interval >= 1 /\ MaxElapsed \in Nat
  /\ Interval <= MaxElapsed /\ MaxJumps \in Nat
BY IntervalAssumption, JumpsAssumption

\* A timer that was never registered has not aged, and the clock of a timer that
\* nobody registered during the walk of 185 is ahead of the time that has passed
\* by no more than it was set forward; the histories stop at the interval.
ClockInv ==
  \A t \in Timer :
    /\ t \notin Registered \cap Periodic => elapsed[t] = 0
    /\ ~ raced => \/ waited[t] + ahead[t] >= Interval
                  \/ waited[t] + ahead[t] >= elapsed[t]

\* The walk is at a timer while its callback runs.
WalkInv == wpc = "callback" => pos <= Len(timers)

IInv == TypeOK /\ ClockInv /\ WalkInv /\ OneShotsFireOnce
-----------------------------------------------------------------------------
(* Registrations *)

\* The timers are those of the walk's places.
LEMMA RegisteredIs ==
  ASSUME TypeOK
  PROVE  /\ Len(timers) \in Nat /\ DOMAIN timers = 1..Len(timers)
         /\ Registered = {timers[i] : i \in 1..Len(timers)}
         /\ Registered \subseteq Timer
         /\ \A i \in 1..Len(timers) : timers[i] \in Registered
<1>1. timers \in Seq(Timer)
  BY DEF TypeOK
<1>2. /\ Len(timers) \in Nat /\ DOMAIN timers = 1..Len(timers)
      /\ \A i \in 1..Len(timers) : timers[i] \in Timer
  BY <1>1
<1> QED
  BY <1>2 DEF Registered, ToSet

\* A registration adds its timer at the end (169).
LEMMA RegisterAdds ==
  ASSUME TypeOK, NEW t \in Timer, Register(t)
  PROVE  /\ timers' \in Seq(Timer) /\ IsInjective(timers')
         /\ Len(timers') = Len(timers) + 1
         /\ Registered' = Registered \cup {t}
<1>1. timers \in Seq(Timer) /\ timers' = Append(timers, t)
  BY DEF TypeOK, Register
<1>2. /\ Len(timers) \in Nat /\ DOMAIN timers = 1..Len(timers)
      /\ timers' \in Seq(Timer) /\ Len(timers') = Len(timers) + 1
      /\ DOMAIN timers' = 1..Len(timers')
      /\ \A i \in 1..Len(timers) : timers'[i] = timers[i]
      /\ timers'[Len(timers) + 1] = t
  BY <1>1, AppendProperties
<1>3. \A i \in 1..Len(timers') : i \in 1..Len(timers) \/ i = Len(timers) + 1
  BY <1>2
<1>4. Registered = {timers[i] : i \in 1..Len(timers)}
  BY <1>2 DEF Registered, ToSet
<1>5. Registered' = {timers'[i] : i \in 1..Len(timers')}
  BY <1>2 DEF Registered, ToSet
<1>6. Registered' = Registered \cup {t}
  <2>1. Registered' \subseteq Registered \cup {t}
    BY <1>2, <1>3, <1>4, <1>5
  <2>2. Registered \subseteq Registered'
    <3> SUFFICES ASSUME NEW i \in 1..Len(timers)
                 PROVE  timers[i] \in Registered'
      BY <1>4
    <3>1. i \in 1..Len(timers') /\ timers'[i] = timers[i]
      BY <1>2
    <3> QED
      BY <1>5, <3>1
  <2>3. t \in Registered'
    <3>1. Len(timers) + 1 \in 1..Len(timers')
      BY <1>2
    <3> QED
      BY <1>2, <1>5, <3>1
  <2> QED
    BY <2>1, <2>2, <2>3
<1>7. IsInjective(timers')
  <2>1. \A i, j \in 1..Len(timers) : timers[i] = timers[j] => i = j
    BY <1>2 DEF TypeOK, IsInjective
  <2>2. \A i \in 1..Len(timers) : timers[i] # t
    BY <1>4 DEF Register
  <2> QED
    BY <1>2, <1>3, <2>1, <2>2 DEF IsInjective
<1> QED
  BY <1>2, <1>6, <1>7
-----------------------------------------------------------------------------
(* The steps *)

\* registerCallback() (165-170) keeps the invariant.
LEMMA RegisterStep ==
  ASSUME IInv, NEW t \in Timer, Register(t)
  PROVE  IInv'
<1> USE DEF IInv
<1>1. /\ timers' \in Seq(Timer) /\ IsInjective(timers')
      /\ Len(timers') = Len(timers) + 1 /\ Len(timers) \in Nat
      /\ Registered' = Registered \cup {t}
  BY RegisterAdds, RegisteredIs
<1>2. /\ elapsed' = [elapsed EXCEPT ![t] = 0]
      /\ waited' = [waited EXCEPT ![t] = 0]
      /\ ahead' = [ahead EXCEPT ![t] = 0]
      /\ raced' = (raced \/ wpc = "reset")
      /\ wpc' = Notified /\ wpc \notin {"walk", "callback", "stuck"}
      /\ UNCHANGED <<fires, pos, flag, opc, jumps>>
  BY DEF Register
<1>3. TypeOK'
  <2>1. /\ elapsed' \in [Timer -> (0 - MaxElapsed)..MaxElapsed]
        /\ waited' \in [Timer -> 0..Interval]
        /\ ahead' \in [Timer -> 0..Interval]
    BY <1>2, Constants DEF TypeOK
  <2>2. pos' \in 1..(Len(timers') + 1)
    BY <1>1, <1>2 DEF TypeOK
  <2> QED
    BY <1>1, <1>2, <2>1, <2>2 DEF TypeOK, Notified
<1>4. ClockInv'
  <2>1. ASSUME NEW u \in Timer
        PROVE  /\ elapsed'[u] = IF u = t THEN 0 ELSE elapsed[u]
               /\ waited'[u] = IF u = t THEN 0 ELSE waited[u]
               /\ ahead'[u] = IF u = t THEN 0 ELSE ahead[u]
    BY <1>2 DEF TypeOK
  <2> QED
    BY <1>1, <1>2, <2>1, SMTT(30) DEF ClockInv, TypeOK
<1>5. WalkInv' /\ OneShotsFireOnce'
  BY <1>2 DEF WalkInv, OneShotsFireOnce, Notified
<1> QED
  BY <1>3, <1>4, <1>5

\* A history counts what it is given, up to the interval.
LEMMA CountedIs ==
  ASSUME NEW f \in [Timer -> 0..Interval], NEW d \in 1..Interval
  PROVE  /\ Counted(f, d) \in [Timer -> 0..Interval]
         /\ \A t \in Timer :
              /\ t \notin Aging => Counted(f, d)[t] = f[t]
              /\ t \in Aging => \/ Counted(f, d)[t] = Interval
                               \/ Counted(f, d)[t] = f[t] + d
              /\ Counted(f, d)[t] >= f[t]
BY Constants DEF Counted

\* The clock goes on, or is set forward or back.
LEMMA ClockStep ==
  ASSUME IInv, Tick \/ SetForward \/ SetBack
  PROVE  IInv'
<1> USE DEF IInv
<1>1. /\ UNCHANGED <<timers, fires, pos, wpc, flag, opc, raced>>
      /\ Registered' = Registered /\ jumps' \in 0..MaxJumps
  BY Constants DEF Tick, SetForward, SetBack, Registered, TypeOK
<1>2. /\ elapsed \in [Timer -> (0 - MaxElapsed)..MaxElapsed]
      /\ waited \in [Timer -> 0..Interval] /\ ahead \in [Timer -> 0..Interval]
  BY DEF TypeOK
<1>3. ASSUME NEW d \in Int, Moved(d)
      PROVE  /\ elapsed' \in [Timer -> (0 - MaxElapsed)..MaxElapsed]
             /\ \A t \in Timer :
                  elapsed'[t] = IF t \in Aging THEN elapsed[t] + d
                                ELSE elapsed[t]
  BY <1>2, <1>3, Constants DEF Moved, Aging
<1>4. SUFFICES
        /\ elapsed' \in [Timer -> (0 - MaxElapsed)..MaxElapsed]
        /\ waited' \in [Timer -> 0..Interval]
        /\ ahead' \in [Timer -> 0..Interval]
        /\ \A t \in Timer :
             /\ t \notin Aging => elapsed'[t] = elapsed[t]
             /\ \/ waited[t] + ahead[t] >= Interval
                \/ waited[t] + ahead[t] >= elapsed[t]
                => \/ waited'[t] + ahead'[t] >= Interval
                   \/ waited'[t] + ahead'[t] >= elapsed'[t]
  BY <1>1 DEF TypeOK, ClockInv, WalkInv, OneShotsFireOnce, Aging
<1>5. CASE Tick
  <2>1. Moved(1) /\ waited' = Counted(waited, 1) /\ ahead' = ahead
    BY <1>5 DEF Tick
  <2>2. 1 \in 1..Interval
    BY Constants
  <2> QED
    BY <1>2, <1>3, <2>1, <2>2, CountedIs, Constants
<1>6. CASE SetForward
  <2>1. PICK d \in 1..Interval : Moved(d) /\ ahead' = Counted(ahead, d)
    BY <1>6 DEF SetForward
  <2>2. waited' = waited /\ d \in Int
    BY <1>6, Constants DEF SetForward
  <2>3. /\ ahead' \in [Timer -> 0..Interval]
        /\ \A t \in Timer : /\ ahead'[t] >= ahead[t]
                            /\ t \in Aging => \/ ahead'[t] = Interval
                                            \/ ahead'[t] = ahead[t] + d
    BY <1>2, <2>1, CountedIs
  <2>4. ASSUME NEW t \in Timer,
               \/ waited[t] + ahead[t] >= Interval
               \/ waited[t] + ahead[t] >= elapsed[t]
        PROVE  \/ waited[t] + ahead'[t] >= Interval
               \/ waited[t] + ahead'[t] >= elapsed'[t]
    <3>1. /\ waited[t] \in Nat /\ ahead[t] \in Nat /\ ahead'[t] \in Nat
          /\ elapsed[t] \in Int
      BY <1>2, <2>3, Constants
    <3>2. elapsed'[t] = IF t \in Aging THEN elapsed[t] + d ELSE elapsed[t]
      BY <1>3, <2>1, <2>2
    <3> QED
      BY <2>2, <2>3, <2>4, <3>1, <3>2, Constants
  <2>5. \A t \in Timer : t \notin Aging => elapsed'[t] = elapsed[t]
    BY <1>3, <2>1, <2>2
  <2> QED
    BY <1>2, <1>3, <2>1, <2>2, <2>3, <2>4, <2>5
<1>7. CASE SetBack
  <2>1. PICK d \in 1..Interval : Moved(0 - d)
    BY <1>7 DEF SetBack
  <2>2. waited' = waited /\ ahead' = ahead /\ 0 - d \in Int
    BY <1>7, Constants DEF SetBack
  <2> QED
    BY <1>2, <1>3, <2>1, <2>2, Constants
<1> QED
  BY <1>5, <1>6, <1>7

\* The worker begins: every timer's time starts, but for those that are missed.
LEMMA ResetStep ==
  ASSUME IInv, ResetFireTimes
  PROVE  IInv'
<1> USE DEF IInv
<1>1. /\ UNCHANGED <<timers, fires, pos, flag, opc, raced, jumps>>
      /\ Registered' = Registered /\ jumps \in 0..MaxJumps /\ wpc' = "test"
      /\ waited' = [t \in Timer |-> 0] /\ ahead' = [t \in Timer |-> 0]
  BY DEF ResetFireTimes, Registered, TypeOK
<1>2. PICK missed \in IF raced THEN SUBSET Registered ELSE {{}} :
        elapsed' = [t \in Timer |-> IF t \in Registered \ missed
                                    THEN 0 ELSE elapsed[t]]
  BY DEF ResetFireTimes
<1>3. \A t \in Timer : elapsed[t] \in (0 - MaxElapsed)..MaxElapsed
  BY DEF TypeOK
<1>4. elapsed' \in [Timer -> (0 - MaxElapsed)..MaxElapsed]
  BY <1>2, <1>3, Constants
<1>5. ClockInv'
  <2>1. ASSUME NEW t \in Timer
        PROVE  /\ elapsed'[t] = 0 \/ elapsed'[t] = elapsed[t]
               /\ ~ raced => elapsed'[t] = 0
    BY <1>2 DEF ClockInv
  <2> QED
    BY <1>1, <2>1 DEF ClockInv
<1>6. waited' \in [Timer -> 0..Interval] /\ ahead' \in [Timer -> 0..Interval]
  BY <1>1, Constants
<1> QED
  BY <1>1, <1>4, <1>5, <1>6 DEF TypeOK, WalkInv, OneShotsFireOnce

\* A timer is called.
LEMMA FireStep ==
  ASSUME IInv, Fire
  PROVE  IInv'
<1> USE DEF IInv
<1> DEFINE t == timers[pos]
<1>1. /\ pos \in 1..Len(timers) /\ t \in Registered /\ t \in Timer
  BY RegisteredIs DEF Fire, TypeOK
<1>2. /\ UNCHANGED <<timers, pos, flag, opc, raced, jumps>>
      /\ Registered' = Registered /\ wpc' = "callback" /\ IsReady(t)
      /\ elapsed' = IF fires[t] = 0 THEN elapsed ELSE [elapsed EXCEPT ![t] = 0]
      /\ waited' = IF fires[t] = 0 THEN waited ELSE [waited EXCEPT ![t] = 0]
      /\ ahead' = IF fires[t] = 0 THEN ahead ELSE [ahead EXCEPT ![t] = 0]
      /\ fires' = [fires EXCEPT ![t] = IF @ = 2 THEN 2 ELSE @ + 1]
  BY DEF Fire, FiredAt, Registered
<1> HIDE DEF t
<1>3. /\ elapsed' \in [Timer -> (0 - MaxElapsed)..MaxElapsed]
      /\ waited' \in [Timer -> 0..Interval]
      /\ ahead' \in [Timer -> 0..Interval]
  BY <1>1, <1>2, Constants, SMTT(30) DEF TypeOK
<1>4. fires' \in [Timer -> 0..2]
  BY <1>1, <1>2 DEF TypeOK
<1>5. \A u \in Timer : fires'[u] > 0 => u \in Registered
  BY <1>1, <1>2 DEF TypeOK
<1>6. TypeOK'
  BY <1>2, <1>3, <1>4, <1>5 DEF TypeOK
<1>7. ClockInv'
  <2>1. ASSUME NEW u \in Timer
        PROVE  \/ UNCHANGED <<elapsed[u], waited[u], ahead[u]>>
               \/ elapsed'[u] = 0 /\ waited'[u] = 0 /\ ahead'[u] = 0
    BY <1>1, <1>2 DEF TypeOK
  <2>2. jumps \in Nat
    BY DEF TypeOK
  <2> QED
    BY <1>2, <2>1, <2>2 DEF ClockInv
<1>8. OneShotsFireOnce'
  <2>1. t \in OneShot => fires[t] = 0
    BY <1>2, KindAssumption DEF IsReady
  <2> QED
    BY <1>1, <1>2, <2>1 DEF OneShotsFireOnce, TypeOK, Timer
<1>9. WalkInv'
  BY <1>1, <1>2 DEF WalkInv
<1> QED
  BY <1>6, <1>7, <1>8, <1>9

\* The other steps leave the times and the timers alone.
LEMMA OtherStep ==
  /\ IInv /\ UNCHANGED <<timers, elapsed, waited, ahead, jumps, fires, raced>>
  /\ pos' \in 1..(Len(timers) + 1) /\ flag' \in BOOLEAN
  /\ opc' \in {"use", "join", "gone"}
  /\ \/ wpc' \in {"none", "reset", "test", "lock", "wait", "walk", "stuck",
                  "exited"}
     \/ wpc' = wpc /\ pos' = pos
  => IInv'
BY DEF IInv, TypeOK, ClockInv, WalkInv, OneShotsFireOnce, Registered

\* Every step keeps the invariant.
LEMMA InvNext == IInv /\ [Next]_vars => IInv'
<1> SUFFICES ASSUME IInv, [Next]_vars PROVE IInv'
  OBVIOUS
<1>0. /\ pos \in 1..(Len(timers) + 1) /\ flag \in BOOLEAN
      /\ opc \in {"use", "join", "gone"} /\ Len(timers) \in Nat
  BY RegisteredIs DEF IInv, TypeOK
<1>1. CASE Stop \/ Join \/ UNCHANGED vars
  BY <1>0, <1>1, OtherStep DEF Stop, Join, vars, times
<1>2. ASSUME UNCHANGED <<timers, times, fires, raced>>,
             pos' \in 1..(Len(timers) + 1), flag' = flag, opc' = opc,
             wpc' \in {"none", "reset", "test", "lock", "wait", "walk", "stuck",
                       "exited"}
      PROVE  IInv'
  <2>1. flag' \in BOOLEAN /\ opc' \in {"use", "join", "gone"}
    BY <1>0, <1>2
  <2>2. UNCHANGED <<timers, elapsed, waited, ahead, jumps, fires, raced>>
    BY <1>2 DEF times
  <2>3. pos' \in 1..(Len(timers) + 1)
    BY <1>2
  <2>4. \/ wpc' \in {"none", "reset", "test", "lock", "wait", "walk", "stuck",
                     "exited"}
        \/ wpc' = wpc /\ pos' = pos
    BY <1>2
  <2> QED
    BY <2>1, <2>2, <2>3, <2>4, OtherStep
<1>3. CASE RegisterInCallback \/ Start \/ TestFlag \/ LockAndWait \/ Wake
  <2>1. 1 \in 1..(Len(timers) + 1)
    BY <1>0
  <2>2. /\ UNCHANGED <<timers, times, fires, raced, flag, opc>>
        /\ pos' \in 1..(Len(timers) + 1)
        /\ wpc' \in {"reset", "test", "lock", "wait", "walk", "stuck", "exited"}
    BY <1>0, <1>3, <2>1
       DEF RegisterInCallback, Start, TestFlag, LockAndWait, Wake
  <2> QED
    BY <1>2, <2>2
<1>4. CASE CallbackReturns \/ Skip \/ EndWalk
  <2>1. CallbackReturns \/ Skip => pos + 1 \in 1..(Len(timers) + 1)
    BY <1>0 DEF CallbackReturns, Skip, IInv, WalkInv
  <2>2. /\ UNCHANGED <<timers, times, fires, raced, flag, opc>>
        /\ pos' \in 1..(Len(timers) + 1)
        /\ wpc' \in {"walk", "test"}
    BY <1>0, <1>4, <2>1 DEF CallbackReturns, Skip, EndWalk
  <2> QED
    BY <1>2, <2>2
<1> QED
  BY <1>1, <1>3, <1>4, RegisterStep, ClockStep, ResetStep, FireStep
     DEF Next, Run

\* The invariant holds at first.
LEMMA InvInit == Init => IInv
<1> SUFFICES ASSUME Init PROVE IInv
  OBVIOUS
<1>1. /\ \A t \in Timer : elapsed[t] = 0 /\ waited[t] = 0
                         /\ ahead[t] = 0 /\ fires[t] = 0
      /\ jumps = 0
  BY DEF Init
<1>2. timers \in Seq(Timer) /\ IsInjective(timers)
  <2>1. DOMAIN <<>> = {}
    OBVIOUS
  <2>2. timers = <<>>
    BY DEF Init
  <2>3. DOMAIN timers = {}
    BY <2>1, <2>2, Zenon
  <2> QED
    BY <2>2, <2>3 DEF IsInjective
<1>3. Len(timers) = 0
  <2>1. Len(<<>>) = 0
    OBVIOUS
  <2> QED
    BY <2>1, Zenon DEF Init
<1>4. /\ elapsed \in [Timer -> (0 - MaxElapsed)..MaxElapsed]
      /\ waited \in [Timer -> 0..Interval] /\ ahead \in [Timer -> 0..Interval]
      /\ fires \in [Timer -> 0..2]
  BY Constants DEF Init
<1>5. /\ pos \in 1..(Len(timers) + 1) /\ jumps \in 0..MaxJumps
  BY <1>3, Constants DEF Init
<1>6. TypeOK
  <2>1. \A t \in Timer : ~ (fires[t] > 0)
    BY <1>1
  <2> QED
    BY <1>2, <1>4, <1>5, <2>1 DEF Init, TypeOK
<1>7. ClockInv
  BY <1>1 DEF ClockInv
<1>8. WalkInv /\ OneShotsFireOnce
  BY <1>1 DEF Init, WalkInv, OneShotsFireOnce, Timer
<1> QED
  BY <1>6, <1>7, <1>8 DEF IInv

\* The invariant holds in every state.
LEMMA Inductive == Spec => []IInv
BY InvInit, InvNext, PTL DEF Spec
-----------------------------------------------------------------------------
\* Timers are registered once, the walk stays within them, and a timer without
\* an interval is called once (227), however often the clock is set.
THEOREM TimerInvariant == Spec => []TimerInv
<1>1. IInv => TimerInv
  BY DEF IInv, TimerInv
<1> QED
  BY <1>1, Inductive, PTL

\* What is not negative is not changed by the cut to 32 bits (230).
LEMMA DurationIs ==
  ASSUME NEW e \in 0..MaxElapsed
  PROVE  e % Width = e
BY IntervalAssumption

\* A timer is called again only when its interval has really passed (228-234),
\* since the call before or, for the second call, since the registration or the
\* beginning of the worker; too soon by no more than the clock was set forward
\* since.  Left out are a clock set back behind that moment and a registration
\* that raced with the walk of 185.
THEOREM FiresInTime == Spec => NotTooSoon
<1>1. IInv /\ [Next]_vars =>
        \A t \in Periodic :
          FiresAgain(t) => \/ waited[t] + ahead[t] >= Interval
                           \/ elapsed[t] < 0
                           \/ raced
  <2> SUFFICES ASSUME IInv, [Next]_vars, NEW t \in Periodic, FiresAgain(t),
                      elapsed[t] >= 0, ~ raced
               PROVE  waited[t] + ahead[t] >= Interval
    BY DEF IInv, TypeOK, Timer
  <2>1. Fire
    BY DEF FiresAgain, Next, Run, Register, RegisterInCallback, Start, Stop,
         Join, Tick, SetForward, SetBack, ResetFireTimes, TestFlag,
         LockAndWait, Wake, CallbackReturns, Skip, EndWalk, Notified, vars
  <2>2. /\ t \in Timer /\ elapsed[t] \in 0..MaxElapsed
        /\ waited[t] \in 0..Interval /\ ahead[t] \in 0..Interval
    BY Constants DEF IInv, TypeOK, Timer
  <2>3. elapsed[t] % Width >= Interval
    BY <2>1 DEF Fire, FiresAgain, IsReady, Duration
  <2>4. elapsed[t] >= Interval
    BY <2>2, <2>3, DurationIs
  <2> QED
    BY <2>2, <2>4, Constants DEF IInv, ClockInv
<1> QED
  BY <1>1, Inductive, PTL DEF Spec, NotTooSoon
=============================================================================
