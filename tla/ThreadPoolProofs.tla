-------------------------- MODULE ThreadPoolProofs ---------------------------
(***************************************************************************)
(* Proofs about ThreadPool, for any tasks, any number of threads and any   *)
(* threads that submit.                                                    *)
(*                                                                         *)
(* PlaceInv says where a task can be, without counting: in one place of    *)
(* the queue, with one worker, or done.  The pool's growth is bounded      *)
(* because the queued tasks are different (QueueIsShort), and no wakeup is *)
(* lost because each step changes the queue and the workers on their way   *)
(* to it by one at a time.                                                 *)
(***************************************************************************)
EXTENDS ThreadPool, SequenceTheorems, FiniteSetTheorems, TLAPS

\* The constants, as the proofs use them.
LEMMA Constants ==
  /\ InitCount \in Nat /\ Cardinality(Task) \in Nat /\ MaxCount \in Nat
  /\ InitCount <= MaxCount /\ Cardinality(Task) <= MaxCount
  /\ NoTask \notin Task
  /\ Owner \notin Worker /\ Worker \subseteq Submitter /\ Owner \in Submitter
  /\ External \cap Worker = {} /\ Owner \notin External
BY PoolAssumption, ThreadAssumption, FS_CardinalityType DEF MaxCount, Submitter

\* A task is in one place: in the queue, with a worker, or done (189, 313).
PlaceInv ==
  /\ \A i, j \in 1..Len(queue) : queue[i] = queue[j] => i = j
  /\ \A i \in 1..Len(queue) : queue[i] \in accepted \ done
  /\ \A w \in Worker : wpc[w] = "run" =>
       /\ task[w] \in accepted \ done
       /\ \A i \in 1..Len(queue) : queue[i] # task[w]
  /\ \A v, w \in Worker :
       wpc[v] = "run" /\ wpc[w] = "run" /\ task[v] = task[w] => v = w
  /\ \A x \in accepted \ done :
       \/ \E i \in 1..Len(queue) : queue[i] = x
       \/ \E w \in Worker : wpc[w] = "run" /\ task[w] = x
  /\ done \subseteq accepted

\* A task that is about to be pushed was submitted once and is nowhere else
\* (183-189); a worker pushes while it runs a task, the owner before the
\* shutdown.
SubmitInv ==
  /\ submitted \subseteq Task /\ accepted \subseteq submitted
  /\ \A t \in Submitter : submission[t] # NoSubmission =>
       submission[t].task \in submitted \ accepted
  /\ \A s, t \in Submitter :
       /\ submission[s] # NoSubmission /\ submission[t] # NoSubmission
       /\ submission[s].task = submission[t].task
       => s = t
  /\ \A w \in Worker : submission[w] # NoSubmission => wpc[w] = "run"
  /\ submission[Owner] # NoSubmission => startFlag

\* The number of threads that are on their way to the queue.
Coming == {w \in Worker : wpc[w] = "lock"}

\* Different tasks of a finite set fill a queue no longer than the set.
LEMMA QueueIsShort ==
  ASSUME TypeOK, PlaceInv, SubmitInv
  PROVE  /\ IsFiniteSet(accepted) /\ Cardinality(accepted) \in Nat
         /\ Len(queue) <= Cardinality(accepted)
         /\ Cardinality(accepted) <= Cardinality(Task)
<1>1. /\ IsFiniteSet(accepted)
      /\ Cardinality(accepted) <= Cardinality(Task)
  BY PoolAssumption, FS_Subset DEF TypeOK
<1>2. queue \in Seq(Task) /\ Len(queue) \in Nat /\ DOMAIN queue = 1..Len(queue)
  BY DEF TypeOK
<1>3. queue \in Injection(1..Len(queue), accepted)
  BY <1>2 DEF PlaceInv, Injection, IsInjective
<1>4. Cardinality(1..Len(queue)) <= Cardinality(accepted)
  BY <1>1, <1>3, FS_Injection
<1>5. ASSUME NEW n \in Nat PROVE Cardinality(1..n) = n
  <2>1. Cardinality(1..n) = IF 1 > n THEN 0 ELSE n - 1 + 1
    BY FS_Interval, SMTT(30)
  <2> QED
    BY <2>1
<1>6. Cardinality(1..Len(queue)) = Len(queue)
  BY <1>2, <1>5
<1> QED
  BY <1>1, <1>4, <1>6, FS_CardinalityType
-----------------------------------------------------------------------------
(* The types *)

\* A push wakes one waiting thread, and adds one that was not there yet.
LEMMA WakeIs ==
  ASSUME TypeOK, NEW grow \in BOOLEAN, grow => count + 1 \in Worker,
         NEW w \in Worker \cup {0}, Wake(grow, w)
  PROVE  /\ wpc' \in [Worker -> WorkerLabel]
         /\ w # 0 => w \in Waiting /\ wpc'[w] = "lock"
         /\ w = 0 => Waiting = {}
         /\ grow => wpc[count + 1] = "absent" /\ wpc'[count + 1] = "test"
         /\ \A v \in Worker : v # w /\ ~ (grow /\ v = count + 1) =>
              wpc'[v] = wpc[v]
         /\ \A v \in Worker : wpc'[v] = "run" <=> wpc[v] = "run"
<1>1. count \in Nat /\ Worker \subseteq Nat /\ 0 \notin Worker
  BY Constants DEF TypeOK, Worker
<1>2. grow => wpc[count + 1] = "absent" /\ count + 1 \notin Waiting
  BY <1>1 DEF TypeOK, Waiting
<1>3. Waiting \subseteq Worker /\ \A v \in Waiting : wpc[v] = "wait"
  BY DEF Waiting
<1>4. (w # 0 => w \in Waiting) /\ (w = 0 => Waiting = {})
  BY <1>1, <1>3 DEF Wake
<1>5. \A v \in Worker : wpc'[v] = IF v = w THEN "lock"
                                  ELSE IF grow /\ v = count + 1 THEN "test"
                                  ELSE wpc[v]
  BY DEF Wake
<1>6. wpc' \in [Worker -> WorkerLabel]
  BY DEF Wake, TypeOK, WorkerLabel
<1> QED
  BY <1>1, <1>2, <1>3, <1>4, <1>5, <1>6

\* A push adds a thread only for a task there is none of so far (191).
LEMMA GrowsInBounds ==
  ASSUME TypeOK, PlaceInv, SubmitInv, NEW t \in Submitter,
         submission[t] # NoSubmission,
         Grows(submission[t].create, Len(queue) + 1)
  PROVE  /\ count + 1 \in Worker /\ count + 1 \in 0..MaxCount
         /\ count + 1 <= Cardinality(accepted \cup {submission[t].task})
<1> DEFINE x == submission[t].task
<1>1. x \in Task /\ x \notin accepted /\ accepted \subseteq Task
  BY DEF SubmitInv
<1>2. /\ Cardinality(accepted \cup {x}) = Cardinality(accepted) + 1
      /\ Cardinality(accepted \cup {x}) \in Nat
  <2>1. IsFiniteSet(accepted) /\ Cardinality(accepted) \in Nat
    BY QueueIsShort
  <2> HIDE DEF x
  <2>2. Cardinality(accepted \cup {x}) = Cardinality(accepted) + 1
    BY <1>1, <2>1, FS_AddElement
  <2> QED
    BY <2>1, <2>2
<1>3. Cardinality(accepted \cup {x}) <= Cardinality(Task)
  BY <1>1, PoolAssumption, FS_Subset
<1>4. count \in Nat /\ Len(queue) \in Nat /\ Len(queue) + 1 > count
  BY DEF TypeOK, Grows
<1>5. count + 1 <= Cardinality(accepted) + 1
  BY <1>4, QueueIsShort
<1> QED
  BY <1>2, <1>3, <1>4, <1>5, Constants DEF Worker

\* A push keeps the types.
LEMMA PushType ==
  ASSUME TypeOK, PlaceInv, SubmitInv, NEW t \in Submitter, Push(t)
  PROVE  TypeOK'
<1> DEFINE x == submission[t].task
<1> DEFINE grow == Grows(submission[t].create, Len(queue) + 1)
<1>1. submission[t] # NoSubmission /\ x \in Task /\ grow \in BOOLEAN
  BY DEF Push, SubmitInv, Grows, TypeOK
<1>2. grow => count + 1 \in Worker /\ count + 1 \in 0..MaxCount
  BY <1>1, GrowsInBounds
<1>3. PICK w \in Worker \cup {0} : Wake(grow, w)
  BY DEF Push
<1>4. /\ wpc' \in [Worker -> WorkerLabel]
      /\ w # 0 => w \in Waiting
      /\ grow => wpc[count + 1] = "absent" /\ wpc'[count + 1] = "test"
      /\ w # 0 => wpc'[w] = "lock"
      /\ \A v \in Worker : v # w /\ ~ (grow /\ v = count + 1) =>
           wpc'[v] = wpc[v]
      /\ \A v \in Worker : wpc'[v] = "run" <=> wpc[v] = "run"
  BY <1>1, <1>2, <1>3, WakeIs
<1>5. /\ queue' = Append(queue, x) /\ accepted' = accepted \cup {x}
      /\ tardy' = tardy \/ tardy' = tardy \cup {x}
      /\ submission' = [submission EXCEPT ![t] = NoSubmission]
      /\ count' = IF grow THEN count + 1 ELSE count
      /\ UNCHANGED <<popped, startFlag, position, task, opc, joining,
                     submitted, done>>
  BY DEF Push, owner
<1> HIDE DEF x, grow
<1>6. count' \in 0..MaxCount
  BY <1>2, <1>5 DEF TypeOK
<1>7. queue' \in Seq(Task)
  BY <1>1, <1>5 DEF TypeOK
<1>8. NoSubmission \in [task : Task \cup {NoTask}, create : BOOLEAN]
  BY DEF NoSubmission
<1>9. submission' \in
        [Submitter -> [task : Task \cup {NoTask}, create : BOOLEAN]]
  BY <1>5, <1>8 DEF TypeOK
<1>10. ASSUME NEW v \in Worker PROVE wpc'[v] = "absent" <=> v > count'
  <2>1. v \in Nat /\ count \in Nat
    BY Constants DEF TypeOK, Worker
  <2>2. wpc[v] = "absent" <=> v > count
    BY DEF TypeOK
  <2>3. CASE v = w
    <3>1. wpc[v] = "wait"
      BY <1>4, <2>1, <2>3, Constants DEF Waiting, Worker
    <3>2. ~ (grow /\ v = count + 1)
      BY <1>4, <3>1
    <3> QED
      BY <1>4, <1>5, <2>1, <2>2, <2>3, <3>1, <3>2, Constants DEF Worker
  <2>4. CASE v # w /\ grow /\ v = count + 1
    BY <1>4, <1>5, <2>1, <2>4
  <2>5. CASE v # w /\ ~ (grow /\ v = count + 1)
    BY <1>4, <1>5, <2>1, <2>2, <2>5
  <2> QED
    BY <2>3, <2>4, <2>5
<1>11. \A v \in Worker : wpc'[v] = "run" <=> task'[v] # NoTask
  BY <1>4, <1>5 DEF TypeOK
<1>12. accepted' \subseteq Task /\ tardy' \subseteq Task
  BY <1>1, <1>5 DEF TypeOK
<1> QED
  BY <1>4, <1>5, <1>6, <1>7, <1>9, <1>10, <1>11, <1>12 DEF TypeOK

\* What is left of the queue when its first task is taken.
LEMMA TakenFromQueue ==
  ASSUME TypeOK, NEW w \in Worker, Take(w)
  PROVE  /\ queue' \in Seq(Task) /\ Len(queue) \in Nat /\ Len(queue) # 0
         /\ Len(queue') = Len(queue) - 1
         /\ \A i \in 1..Len(queue') : queue'[i] = queue[i + 1]
         /\ queue[1] \in Task /\ task' = [task EXCEPT ![w] = queue[1]]
<1>1. /\ queue \in Seq(Task) /\ queue # <<>> /\ queue' = Tail(queue)
      /\ task' = [task EXCEPT ![w] = Head(queue)]
  BY DEF Take, TypeOK
<1>2. Len(queue) \in Nat /\ Len(queue) # 0
  BY <1>1
<1> QED
  BY <1>1, <1>2, HeadTailProperties

\* Every step of a worker keeps the types.
LEMMA RunType == ASSUME TypeOK, NEW w \in Worker, Run(w) PROVE TypeOK'
<1> USE DEF WorkerLabel
<1>0. /\ popped \in Nat /\ Len(queue) \in Nat /\ w \in Nat
      /\ wpc[w] \in WorkerLabel
      /\ wpc[w] = "absent" <=> w > count
      /\ wpc[w] = "run" <=> task[w] # NoTask
  BY DEF TypeOK, Worker
<1>1. CASE TestFlag(w)
  BY <1>0, <1>1 DEF TestFlag, Goto, TypeOK, pool, owner, history
<1>2. CASE ReadEnd(w)
  <2>1. position' \in [Worker -> [of : {"none", "begin", "end"}, at : Nat]]
    BY <1>0, <1>2 DEF ReadEnd, TypeOK
  <2> QED
    BY <1>0, <1>2, <2>1 DEF ReadEnd, Goto, TypeOK, pool, owner, history
<1>3. CASE CompareEnds(w)
  <2>1. position' \in [Worker -> [of : {"none", "begin", "end"}, at : Nat]]
    BY <1>3 DEF CompareEnds, TypeOK
  <2> QED
    BY <1>0, <1>3, <2>1 DEF CompareEnds, Goto, TypeOK, pool, owner, history
<1>4. CASE Take(w)
  <2>1. queue' \in Seq(Task) /\ task' = [task EXCEPT ![w] = queue[1]]
        /\ queue[1] \in Task
    BY <1>4, TakenFromQueue
  <2>2. wpc' = [wpc EXCEPT ![w] = "run"] /\ popped' \in Nat /\ wpc[w] = "lock"
    BY <1>0, <1>4 DEF Take, Goto
  <2>3. \A v \in Worker : wpc'[v] = "run" <=> task'[v] # NoTask
    BY <2>1, <2>2, Constants DEF TypeOK
  <2>4. \A v \in Worker : wpc'[v] = "absent" <=> v > count
    BY <1>0, <2>2 DEF TypeOK
  <2>5. wpc' \in [Worker -> WorkerLabel]
        /\ task' \in [Worker -> Task \cup {NoTask}]
    BY <2>1, <2>2 DEF TypeOK
  <2> QED
    BY <1>4, <2>1, <2>2, <2>3, <2>4, <2>5 DEF Take, TypeOK, owner, history
<1>5. CASE Block(w) \/ WakeSpuriously(w)
  BY <1>0, <1>5
     DEF Block, WakeSpuriously, Goto, TypeOK, pool, owner, history
<1>6. CASE FinishTask(w)
  <2>1. /\ wpc' = [wpc EXCEPT ![w] = "test"] /\ wpc[w] = "run"
        /\ task' = [task EXCEPT ![w] = NoTask] /\ task[w] \in Task
        /\ done' = done \cup {task[w]}
    BY <1>0, <1>6 DEF FinishTask, Goto, TypeOK
  <2>2. \A v \in Worker : wpc'[v] = "run" <=> task'[v] # NoTask
    BY <2>1 DEF TypeOK
  <2>3. \A v \in Worker : wpc'[v] = "absent" <=> v > count
    BY <1>0, <2>1 DEF TypeOK
  <2> QED
    BY <1>6, <2>1, <2>2, <2>3 DEF FinishTask, TypeOK, pool, owner
<1> QED
  BY <1>1, <1>2, <1>3, <1>4, <1>5, <1>6 DEF Run

\* Every step keeps the types.
LEMMA TypeNext ==
  TypeOK /\ PlaceInv /\ SubmitInv /\ [Next]_vars => TypeOK'
<1> SUFFICES ASSUME TypeOK, PlaceInv, SubmitInv, [Next]_vars PROVE TypeOK'
  OBVIOUS
<1>1. ASSUME NEW t \in Submitter, NEW x \in Task, NEW create \in BOOLEAN,
             Submit(t, x, create)
      PROVE  TypeOK'
  <2>1. submission' \in
          [Submitter -> [task : Task \cup {NoTask}, create : BOOLEAN]]
    BY <1>1 DEF Submit, TypeOK, NoSubmission
  <2> QED
    BY <1>1, <2>1
       DEF Submit, TypeOK, pool, workers, owner
<1>2. CASE Shutdown
  BY <1>2 DEF Shutdown, TypeOK, workers, history
<1>3. CASE NotifyAll
  <2>1. wpc' \in [Worker -> WorkerLabel]
    BY <1>3 DEF NotifyAll, TypeOK, WorkerLabel
  <2>2. \A w \in Worker : /\ wpc'[w] = "absent" <=> wpc[w] = "absent"
                          /\ wpc'[w] = "run" <=> wpc[w] = "run"
    BY <1>3 DEF NotifyAll, Waiting
  <2> QED
    BY <1>3, <2>1, <2>2 DEF NotifyAll, TypeOK, pool, history
<1>4. CASE Join \/ Joined
  <2>1. joining' \in 0..MaxCount
    BY <1>4, Constants DEF Join, Joined, TypeOK
  <2> QED
    BY <1>4, <2>1 DEF Join, Joined, TypeOK, pool, workers, history
<1>5. CASE UNCHANGED vars
  BY <1>5 DEF vars, TypeOK, pool, workers, owner, history
<1> QED
  BY <1>1, <1>2, <1>3, <1>4, <1>5, PushType, RunType DEF Next, OwnerStep
-----------------------------------------------------------------------------
(* The tasks *)

\* A step that is neither a push, a take nor the end of a task leaves every task
\* where it is.
LEMMA PlacesStay ==
  ASSUME TypeOK, [Next]_vars, \A t \in Submitter : ~ Push(t),
         \A w \in Worker : ~ Take(w) /\ ~ FinishTask(w)
  PROVE  /\ UNCHANGED <<queue, popped, task, accepted, done, tardy, count>>
         /\ \A w \in Worker : wpc'[w] = "run" <=> wpc[w] = "run"
<1>1. ASSUME NEW w \in Worker, Run(w)
      PROVE  /\ UNCHANGED <<queue, popped, task, accepted, done, tardy, count>>
             /\ \A v \in Worker : wpc'[v] = "run" <=> wpc[v] = "run"
  <2>1. CASE TestFlag(w) \/ ReadEnd(w)
    BY <2>1 DEF TestFlag, ReadEnd, Goto, TypeOK, pool, history
  <2>2. CASE CompareEnds(w) \/ Block(w) \/ WakeSpuriously(w)
    BY <2>2
       DEF CompareEnds, Block, WakeSpuriously, Goto, TypeOK, pool, history
  <2> QED
    BY <1>1, <2>1, <2>2 DEF Run
<1>2. ASSUME NEW t \in Submitter, NEW x \in Task, NEW create \in BOOLEAN,
             Submit(t, x, create)
      PROVE  UNCHANGED <<pool, workers, accepted, done, tardy>>
  BY <1>2 DEF Submit
<1>3. CASE Shutdown \/ Join \/ Joined \/ UNCHANGED vars
  BY <1>3 DEF Shutdown, Join, Joined, vars, workers, history, pool
<1>4. CASE NotifyAll
  BY <1>4 DEF NotifyAll, Waiting, TypeOK, pool, history
<1> QED
  BY <1>1, <1>2, <1>3, <1>4 DEF Next, OwnerStep, pool, workers

\* A pushed task (187-199) is in the queue and nowhere else.
LEMMA PlacePush ==
  ASSUME TypeOK, PlaceInv, SubmitInv, NEW t \in Submitter, Push(t)
  PROVE  PlaceInv'
<1> DEFINE x == submission[t].task
<1>1. /\ x \in Task /\ x \notin accepted /\ queue' = Append(queue, x)
      /\ accepted' = accepted \cup {x} /\ task' = task /\ done' = done
  BY DEF Push, SubmitInv, TypeOK
<1> HIDE DEF x
<1>2. \A w \in Worker : wpc'[w] = "run" <=> wpc[w] = "run"
  <2>1. PICK w \in Worker \cup {0} :
          Wake(Grows(submission[t].create, Len(queue) + 1), w)
    BY DEF Push
  <2>2. Grows(submission[t].create, Len(queue) + 1) \in BOOLEAN
    BY DEF Grows, TypeOK
  <2>3. Grows(submission[t].create, Len(queue) + 1) => count + 1 \in Worker
    BY GrowsInBounds DEF Push
  <2> QED
    BY <2>1, <2>2, <2>3, WakeIs
<1>3. /\ Len(queue) \in Nat /\ Len(queue') = Len(queue) + 1
      /\ \A i \in 1..Len(queue) : queue'[i] = queue[i]
      /\ queue'[Len(queue) + 1] = x
  BY <1>1, AppendProperties DEF TypeOK
<1>4. \A i \in 1..Len(queue') : i \in 1..Len(queue) \/ i = Len(queue) + 1
  BY <1>3
<1>5. \A i, j \in 1..Len(queue') : queue'[i] = queue'[j] => i = j
  BY <1>1, <1>3, <1>4 DEF PlaceInv
<1>6. \A i \in 1..Len(queue') : queue'[i] \in accepted' \ done'
  BY <1>1, <1>3, <1>4 DEF PlaceInv
<1>7. ASSUME NEW w \in Worker, wpc'[w] = "run"
      PROVE  /\ task'[w] \in accepted' \ done'
             /\ \A i \in 1..Len(queue') : queue'[i] # task'[w]
  BY <1>1, <1>2, <1>3, <1>4, <1>7 DEF PlaceInv
<1>8. ASSUME NEW y \in accepted' \ done'
      PROVE  \/ \E i \in 1..Len(queue') : queue'[i] = y
             \/ \E w \in Worker : wpc'[w] = "run" /\ task'[w] = y
  <2>1. CASE y = x
    <3>1. Len(queue) + 1 \in 1..Len(queue')
      BY <1>3
    <3> QED
      BY <1>3, <2>1, <3>1
  <2>2. CASE \E i \in 1..Len(queue) : queue[i] = y
    <3>1. PICK i \in 1..Len(queue) : queue[i] = y
      BY <2>2
    <3>2. i \in 1..Len(queue') /\ queue'[i] = y
      BY <1>3, <3>1
    <3> QED
      BY <3>2
  <2>3. CASE \E w \in Worker : wpc[w] = "run" /\ task[w] = y
    BY <1>1, <1>2, <2>3
  <2> QED
    BY <1>1, <1>8, <2>1, <2>2, <2>3 DEF PlaceInv
<1>9. \A v, w \in Worker :
        wpc'[v] = "run" /\ wpc'[w] = "run" /\ task'[v] = task'[w] => v = w
  BY <1>1, <1>2 DEF PlaceInv
<1> QED
  BY <1>1, <1>5, <1>6, <1>7, <1>8, <1>9 DEF PlaceInv

\* A taken task (313-316) is with one worker and nowhere else.
LEMMA PlaceTake ==
  ASSUME TypeOK, PlaceInv, NEW w \in Worker, Take(w)
  PROVE  PlaceInv'
<1>1. /\ Len(queue) \in Nat /\ Len(queue) # 0 /\ Len(queue') = Len(queue) - 1
      /\ \A i \in 1..Len(queue') : queue'[i] = queue[i + 1]
      /\ task' = [task EXCEPT ![w] = queue[1]] /\ queue[1] \in Task
  BY TakenFromQueue
<1>2. /\ wpc' = [wpc EXCEPT ![w] = "run"] /\ wpc[w] = "lock"
      /\ accepted' = accepted /\ done' = done
  BY DEF Take, Goto, history
<1>3. \A i \in 1..Len(queue') : i + 1 \in 1..Len(queue) /\ i + 1 # 1
  BY <1>1
<1>4. 1 \in 1..Len(queue)
  BY <1>1
<1>5. /\ task'[w] = queue[1] /\ wpc'[w] = "run"
      /\ \A v \in Worker \ {w} : task'[v] = task[v] /\ wpc'[v] = wpc[v]
  BY <1>1, <1>2 DEF TypeOK
<1>6. \A i \in 1..Len(queue') :
        queue'[i] \in accepted \ done /\ queue'[i] # queue[1]
  BY <1>1, <1>3, <1>4 DEF PlaceInv
<1>7. \A i, j \in 1..Len(queue') : queue'[i] = queue'[j] => i = j
  <2> SUFFICES ASSUME NEW i \in 1..Len(queue'), NEW j \in 1..Len(queue'),
                      queue'[i] = queue'[j]
               PROVE  i = j
    OBVIOUS
  <2>1. i + 1 = j + 1
    BY <1>1, <1>3 DEF PlaceInv
  <2> QED
    BY <2>1
<1>8. ASSUME NEW v \in Worker, wpc'[v] = "run"
      PROVE  /\ task'[v] \in accepted \ done
             /\ \A i \in 1..Len(queue') : queue'[i] # task'[v]
  BY <1>1, <1>3, <1>4, <1>5, <1>6, <1>8 DEF PlaceInv
<1>9. ASSUME NEW u \in Worker, NEW v \in Worker, wpc'[u] = "run",
             wpc'[v] = "run", task'[u] = task'[v]
      PROVE  u = v
  BY <1>4, <1>5, <1>9 DEF PlaceInv
<1>10. ASSUME NEW y \in accepted \ done
       PROVE  \/ \E i \in 1..Len(queue') : queue'[i] = y
              \/ \E v \in Worker : wpc'[v] = "run" /\ task'[v] = y
  <2>1. CASE \E i \in 1..Len(queue) : queue[i] = y
    <3>1. PICK i \in 1..Len(queue) : queue[i] = y
      BY <2>1
    <3>2. CASE i = 1
      BY <1>5, <3>1, <3>2
    <3>3. CASE i # 1
      <4>1. i - 1 \in 1..Len(queue') /\ (i - 1) + 1 = i
        BY <1>1, <3>3
      <4>2. queue'[i - 1] = y
        BY <1>1, <3>1, <4>1
      <4> QED
        BY <4>1, <4>2
    <3> QED
      BY <3>2, <3>3
  <2>2. CASE \E v \in Worker : wpc[v] = "run" /\ task[v] = y
    BY <1>2, <1>5, <2>2
  <2> QED
    BY <2>1, <2>2 DEF PlaceInv
<1> QED
  BY <1>2, <1>6, <1>7, <1>8, <1>9, <1>10 DEF PlaceInv

\* A task that was run is done and nowhere else.
LEMMA PlaceFinish ==
  ASSUME TypeOK, PlaceInv, NEW w \in Worker, FinishTask(w)
  PROVE  PlaceInv'
<1>1. /\ wpc' = [wpc EXCEPT ![w] = "test"] /\ wpc[w] = "run"
      /\ task' = [task EXCEPT ![w] = NoTask] /\ done' = done \cup {task[w]}
      /\ UNCHANGED <<queue, accepted>>
  BY DEF FinishTask, Goto, pool
<1>2. /\ wpc'[w] = "test"
      /\ \A v \in Worker \ {w} : task'[v] = task[v] /\ wpc'[v] = wpc[v]
  BY <1>1 DEF TypeOK
<1>3. \A v \in Worker : wpc'[v] = "run" =>
        v # w /\ wpc[v] = "run" /\ task'[v] = task[v]
  BY <1>2
<1>4. task[w] \in accepted \ done /\ \A i \in 1..Len(queue) : queue[i] # task[w]
  BY <1>1 DEF PlaceInv
<1>5. \A i \in 1..Len(queue) : queue[i] \in accepted \ done'
  BY <1>1, <1>4 DEF PlaceInv
<1>6. ASSUME NEW v \in Worker, wpc'[v] = "run"
      PROVE  /\ task'[v] \in accepted \ done'
             /\ \A i \in 1..Len(queue) : queue[i] # task'[v]
  BY <1>1, <1>3, <1>6 DEF PlaceInv
<1>7. ASSUME NEW y \in accepted \ done'
      PROVE  \/ \E i \in 1..Len(queue) : queue[i] = y
             \/ \E v \in Worker : wpc'[v] = "run" /\ task'[v] = y
  <2>1. y \in accepted \ done /\ y # task[w]
    BY <1>1, <1>7
  <2> QED
    BY <1>2, <2>1 DEF PlaceInv
<1>8. \A u, v \in Worker :
        wpc'[u] = "run" /\ wpc'[v] = "run" /\ task'[u] = task'[v] => u = v
  BY <1>3 DEF PlaceInv
<1> QED
  BY <1>1, <1>4, <1>5, <1>6, <1>7, <1>8 DEF PlaceInv

\* Every step keeps each task in one place.
LEMMA PlaceNext ==
  TypeOK /\ PlaceInv /\ SubmitInv /\ [Next]_vars => PlaceInv'
<1> SUFFICES ASSUME TypeOK, PlaceInv, SubmitInv, [Next]_vars PROVE PlaceInv'
  OBVIOUS
<1>1. ASSUME \A t \in Submitter : ~ Push(t),
             \A w \in Worker : ~ Take(w) /\ ~ FinishTask(w)
      PROVE  PlaceInv'
  <2>1. /\ UNCHANGED <<queue, popped, task, accepted, done, tardy, count>>
        /\ \A w \in Worker : wpc'[w] = "run" <=> wpc[w] = "run"
    BY <1>1, PlacesStay
  <2> QED
    BY <2>1 DEF PlaceInv
<1> QED
  BY <1>1, PlacePush, PlaceTake, PlaceFinish

\* Every step keeps what is about to be pushed apart.
LEMMA SubmitNext == TypeOK /\ PlaceInv /\ SubmitInv /\ [Next]_vars => SubmitInv'
<1> SUFFICES ASSUME TypeOK, PlaceInv, SubmitInv, [Next]_vars PROVE SubmitInv'
  OBVIOUS
<1>1. ASSUME NEW t \in Submitter, NEW x \in Task, NEW create \in BOOLEAN,
             Submit(t, x, create)
      PROVE  SubmitInv'
  <2>1. /\ x \notin submitted /\ submitted' = submitted \cup {x}
        /\ accepted' = accepted /\ wpc' = wpc /\ startFlag' = startFlag
        /\ \A s \in Submitter : s # t => submission'[s] = submission[s]
        /\ submission'[t] # NoSubmission =>
             submission'[t].task = x /\ startFlag
        /\ t \in Worker => wpc[t] = "run"
    BY <1>1, Constants DEF Submit, MaySubmit, TypeOK, pool, workers
  <2> QED
    BY <2>1, Constants DEF SubmitInv
<1>2. ASSUME NEW t \in Submitter, Push(t) PROVE SubmitInv'
  <2>1. /\ submitted' = submitted /\ startFlag' = startFlag
        /\ submission[t] # NoSubmission
        /\ accepted' = accepted \cup {submission[t].task}
        /\ submission'[t] = NoSubmission
        /\ \A s \in Submitter : s # t => submission'[s] = submission[s]
    BY <1>2 DEF Push, TypeOK
  <2>2. \A w \in Worker : wpc'[w] = "run" <=> wpc[w] = "run"
    <3>1. PICK w \in Worker \cup {0} :
            Wake(Grows(submission[t].create, Len(queue) + 1), w)
      BY <1>2 DEF Push
    <3>2. Grows(submission[t].create, Len(queue) + 1) \in BOOLEAN
      BY DEF Grows, TypeOK
    <3>3. Grows(submission[t].create, Len(queue) + 1) => count + 1 \in Worker
      BY <2>1, GrowsInBounds
    <3> QED
      BY <3>1, <3>2, <3>3, WakeIs
  <2> QED
    BY <2>1, <2>2, Constants DEF SubmitInv
<1>3. ASSUME NEW w \in Worker, Run(w) PROVE SubmitInv'
  <2>1. UNCHANGED <<submission, submitted, accepted, startFlag>>
    BY <1>3 DEF Run, TestFlag, ReadEnd, CompareEnds, Take, Block,
         WakeSpuriously, FinishTask, pool, history
  <2>2. /\ \A v \in Worker \ {w} : wpc'[v] = wpc[v]
        /\ wpc[w] = "run" => submission[w] = NoSubmission
    BY <1>3 DEF Run, TestFlag, ReadEnd, CompareEnds, Take, Block,
         WakeSpuriously, FinishTask, Goto, TypeOK
  <2> QED
    BY <2>1, <2>2, Constants DEF SubmitInv
<1>4. CASE Shutdown
  BY <1>4 DEF Shutdown, SubmitInv, workers, history
<1>5. CASE NotifyAll
  <2>1. /\ UNCHANGED <<submission, submitted, accepted, startFlag>>
        /\ \A w \in Worker : wpc'[w] = "run" <=> wpc[w] = "run"
    BY <1>5 DEF NotifyAll, Waiting, TypeOK, pool, history
  <2> QED
    BY <2>1 DEF SubmitInv
<1>6. CASE Join \/ Joined \/ UNCHANGED vars
  BY <1>6 DEF Join, Joined, vars, SubmitInv, pool, workers, history
<1> QED
  BY <1>1, <1>2, <1>3, <1>4, <1>5, <1>6 DEF Next, OwnerStep
-----------------------------------------------------------------------------
(* The number of threads *)

\* A push adds at most one thread, and then there was a task for it.
LEMMA GrowthNext ==
  TypeOK /\ PlaceInv /\ SubmitInv /\ GrowthBounded /\ [Next]_vars
    => GrowthBounded'
<1> SUFFICES ASSUME TypeOK, PlaceInv, SubmitInv, GrowthBounded, [Next]_vars
             PROVE  GrowthBounded'
  OBVIOUS
<1>1. ASSUME NEW t \in Submitter, Push(t) PROVE GrowthBounded'
  <2> DEFINE x == submission[t].task
  <2>1. /\ accepted' = accepted \cup {x} /\ x \notin accepted
        /\ submission[t] # NoSubmission
        /\ count' = IF Grows(submission[t].create, Len(queue) + 1)
                    THEN count + 1 ELSE count
    BY <1>1 DEF Push, SubmitInv
  <2>2. CASE Grows(submission[t].create, Len(queue) + 1)
    BY <2>1, <2>2, GrowsInBounds DEF GrowthBounded
  <2>3. CASE ~ Grows(submission[t].create, Len(queue) + 1)
    <3>1. IsFiniteSet(accepted) /\ Cardinality(accepted) \in Nat
      BY QueueIsShort
    <3>2. Cardinality(accepted \cup {x}) = Cardinality(accepted) + 1
      <4> HIDE DEF x
      <4> QED
        BY <2>1, <3>1, FS_AddElement
    <3> QED
      BY <2>1, <2>3, <3>1, <3>2, Constants DEF GrowthBounded, TypeOK
  <2> QED
    BY <2>2, <2>3
<1>2. ASSUME \A t \in Submitter : ~ Push(t) PROVE GrowthBounded'
  <2>1. UNCHANGED <<count, accepted>>
    BY <1>2 DEF Next, Submit, Run, TestFlag, ReadEnd, CompareEnds, Take, Block,
         WakeSpuriously, FinishTask, OwnerStep, Shutdown, NotifyAll, Join,
         Joined, vars, pool, history
  <2> QED
    BY <2>1 DEF GrowthBounded
<1> QED
  BY <1>1, <1>2
-----------------------------------------------------------------------------
(* The wakeups *)

\* The workers on their way to the queue can be counted.
LEMMA ComingIsFinite ==
  IsFiniteSet(Coming) /\ Cardinality(Coming) \in Nat
<1>1. IsFiniteSet(Worker)
  BY Constants, FS_Interval DEF Worker
<1> QED
  BY <1>1, FS_Subset, FS_CardinalityType DEF Coming

\* While a thread waits, a push wakes one (197).
LEMMA WakeupPush ==
  ASSUME TypeOK, PlaceInv, SubmitInv, NoLostWakeup, NEW t \in Submitter, Push(t)
  PROVE  NoLostWakeup'
<1> DEFINE grow == Grows(submission[t].create, Len(queue) + 1)
<1>1. /\ submission[t] # NoSubmission /\ grow \in BOOLEAN
      /\ queue' = Append(queue, submission[t].task)
      /\ submission[t].task \in Task
  BY DEF Push, Grows, TypeOK, SubmitInv
<1>2. grow => count + 1 \in Worker
  BY <1>1, GrowsInBounds
<1>3. PICK w \in Worker \cup {0} : Wake(grow, w)
  BY DEF Push
<1>4. /\ w # 0 => w \in Waiting /\ wpc'[w] = "lock"
      /\ w = 0 => Waiting = {}
      /\ grow => wpc[count + 1] = "absent" /\ wpc'[count + 1] = "test"
      /\ \A v \in Worker : v # w /\ ~ (grow /\ v = count + 1) =>
           wpc'[v] = wpc[v]
  BY <1>1, <1>2, <1>3, WakeIs
<1>5. Len(queue) \in Nat /\ Len(queue') = Len(queue) + 1
  BY <1>1, AppendProperties DEF TypeOK
<1> HIDE DEF grow
<1>6. CASE w = 0
  <2>1. 0 \notin Worker /\ Waiting = {}
    BY <1>4, <1>6 DEF Worker
  <2>2. Waiting' = {}
    BY <1>4, <1>6, <2>1 DEF Waiting
  <2> QED
    BY <2>2 DEF NoLostWakeup
<1>7. CASE w # 0
  <2>1. w \in Waiting /\ w \in Worker /\ wpc[w] = "wait" /\ w \notin Coming
    BY <1>4, <1>7 DEF Waiting, Coming
  <2>2. Coming' = Coming \cup {w}
    BY <1>4, <1>7, <2>1 DEF Coming
  <2>3. Cardinality(Coming') = Cardinality(Coming) + 1
    BY <2>1, <2>2, ComingIsFinite, FS_AddElement
  <2>4. Len(queue) <= Cardinality(Coming)
    BY <2>1 DEF NoLostWakeup, Coming
  <2> QED
    BY <1>5, <2>3, <2>4, ComingIsFinite DEF NoLostWakeup, Coming
<1> QED
  BY <1>6, <1>7

\* A thread that takes a task was on its way to it.
LEMMA WakeupTake ==
  ASSUME TypeOK, NoLostWakeup, NEW w \in Worker, Take(w)
  PROVE  NoLostWakeup'
<1>1. Len(queue) \in Nat /\ Len(queue') = Len(queue) - 1
  BY TakenFromQueue
<1>2. wpc' = [wpc EXCEPT ![w] = "run"] /\ w \in Coming
  BY DEF Take, Goto, Coming
<1>3. Coming' = Coming \ {w} /\ Waiting' = Waiting
  BY <1>2 DEF Coming, Waiting, TypeOK
<1>4. Cardinality(Coming') = Cardinality(Coming) - 1
  BY <1>2, <1>3, ComingIsFinite, FS_RemoveElement
<1>5. Waiting # {} => Len(queue) <= Cardinality(Coming)
  BY DEF NoLostWakeup, Coming
<1> QED
  BY <1>1, <1>3, <1>4, <1>5, ComingIsFinite DEF NoLostWakeup, Coming

\* A thread waits when there is no task (309).
LEMMA WakeupBlock ==
  ASSUME TypeOK, NEW w \in Worker, Block(w)
  PROVE  NoLostWakeup'
<1>1. queue' = <<>> /\ Len(<<>>) = 0
  BY DEF Block, pool
<1>2. IsFiniteSet(Worker)
  BY Constants, FS_Interval DEF Worker
<1>3. Coming' \subseteq Worker
  BY DEF Coming
<1>4. Cardinality(Coming') \in Nat
  BY <1>2, <1>3, FS_Subset, FS_CardinalityType
<1>5. Len(queue') <= Cardinality(Coming')
  BY <1>1, <1>4
<1> QED
  BY <1>5 DEF NoLostWakeup, Coming

\* The other steps take no thread off its way, and let none wait.
LEMMA WakeupOther ==
  ASSUME TypeOK, NoLostWakeup, queue' = queue, Coming \subseteq Coming',
         Waiting' \subseteq Waiting
  PROVE  NoLostWakeup'
<1>1. IsFiniteSet(Worker)
  BY Constants, FS_Interval DEF Worker
<1>2. Coming' \subseteq Worker
  BY DEF Coming
<1>3. IsFiniteSet(Coming')
  BY <1>1, <1>2, FS_Subset
<1>4. /\ Cardinality(Coming') \in Nat
      /\ Cardinality(Coming) <= Cardinality(Coming')
  BY <1>3, FS_Subset, FS_CardinalityType
<1>5. Waiting # {} => Len(queue) <= Cardinality(Coming)
  BY DEF NoLostWakeup, Coming
<1>6. Len(queue) \in Nat
  BY DEF TypeOK
<1> QED
  BY <1>4, <1>5, <1>6, ComingIsFinite DEF NoLostWakeup, Coming

\* No step loses a wakeup.
LEMMA WakeupNext ==
  TypeOK /\ PlaceInv /\ SubmitInv /\ NoLostWakeup /\ [Next]_vars
    => NoLostWakeup'
<1> SUFFICES ASSUME TypeOK, PlaceInv, SubmitInv, NoLostWakeup, [Next]_vars
             PROVE  NoLostWakeup'
  OBVIOUS
<1>1. ASSUME NEW w \in Worker,
             TestFlag(w) \/ ReadEnd(w) \/ CompareEnds(w) \/ WakeSpuriously(w)
               \/ FinishTask(w)
      PROVE  NoLostWakeup'
  <2>1. /\ queue' = queue /\ wpc[w] # "lock"
        /\ \E label \in WorkerLabel \ {"wait"} : Goto(w, label)
    BY <1>1 DEF TestFlag, ReadEnd, CompareEnds, WakeSpuriously, FinishTask,
         pool, WorkerLabel
  <2>2. Coming \subseteq Coming' /\ Waiting' \subseteq Waiting
    BY <2>1 DEF Goto, Coming, Waiting, TypeOK
  <2> QED
    BY <2>1, <2>2, WakeupOther
<1>2. CASE NotifyAll
  <2>1. queue' = queue /\ Coming \subseteq Coming' /\ Waiting' \subseteq Waiting
    BY <1>2 DEF NotifyAll, Coming, Waiting, pool
  <2> QED
    BY <2>1, WakeupOther
<1>3. ASSUME UNCHANGED <<queue, wpc>> PROVE NoLostWakeup'
  BY <1>3 DEF NoLostWakeup, Waiting
<1>4. ASSUME NEW t \in Submitter, NEW x \in Task, NEW create \in BOOLEAN,
             Submit(t, x, create)
      PROVE  UNCHANGED <<queue, wpc>>
  BY <1>4 DEF Submit, pool, workers
<1>5. Shutdown \/ Join \/ Joined \/ UNCHANGED vars => UNCHANGED <<queue, wpc>>
  BY DEF Shutdown, Join, Joined, vars, pool, workers
<1> QED
  BY <1>1, <1>2, <1>3, <1>4, <1>5, WakeupPush, WakeupTake, WakeupBlock
     DEF Next, Run, OwnerStep
-----------------------------------------------------------------------------
(* The invariants *)

IInv == TypeOK /\ PlaceInv /\ SubmitInv /\ GrowthBounded /\ NoLostWakeup

\* The invariant holds at first.
LEMMA IInvInit == Init => IInv
<1> SUFFICES ASSUME Init PROVE IInv
  OBVIOUS
<1>1. Len(<<>>) = 0 /\ 1..0 = {}
  OBVIOUS
<1>2. Len(queue) = 0 /\ 1..Len(queue) = {}
  BY <1>1, Zenon DEF Init
<1>3. \A w \in Worker : wpc[w] \in {"test", "absent"} /\ task[w] = NoTask
  BY DEF Init
<1>4. \A t \in Submitter : submission[t] = NoSubmission
  BY DEF Init
<1>5. PlaceInv
  <2>1. accepted = {} /\ done = {}
    BY DEF Init
  <2> QED
    BY <1>2, <1>3, <2>1 DEF PlaceInv
<1>6. SubmitInv
  <2>1. submitted = {} /\ accepted = {}
    BY DEF Init
  <2> QED
    BY <1>4, <2>1, Constants DEF SubmitInv
<1>7. GrowthBounded
  BY Constants DEF Init, GrowthBounded
<1>8. NoLostWakeup
  BY <1>3 DEF NoLostWakeup, Waiting
<1>9. TypeOK
  <2>1. /\ count \in 0..MaxCount /\ popped \in Nat /\ startFlag \in BOOLEAN
        /\ opc \in {"submit", "notify", "join", "joined"}
        /\ joining \in 0..MaxCount
    BY Constants DEF Init
  <2>2. queue \in Seq(Task)
    BY DEF Init
  <2>3. /\ wpc \in [Worker -> WorkerLabel]
        /\ \A w \in Worker : wpc[w] = "absent" <=> w > count
    BY Constants DEF Init, WorkerLabel, Worker
  <2>4. position \in [Worker -> [of : {"none", "begin", "end"}, at : Nat]]
    BY DEF Init
  <2>5. /\ task \in [Worker -> Task \cup {NoTask}]
        /\ \A w \in Worker : wpc[w] = "run" <=> task[w] # NoTask
    BY <1>3 DEF Init
  <2>6. submission \in
          [Submitter -> [task : Task \cup {NoTask}, create : BOOLEAN]]
    BY DEF Init, NoSubmission
  <2>7. /\ submitted \subseteq Task /\ accepted \subseteq Task
        /\ tardy \subseteq Task /\ done \subseteq Task
    BY DEF Init
  <2> QED
    BY <2>1, <2>2, <2>3, <2>4, <2>5, <2>6, <2>7 DEF TypeOK
<1> QED
  BY <1>5, <1>6, <1>7, <1>8, <1>9 DEF IInv

\* The invariant holds in every state.
LEMMA Inductive == Spec => []IInv
<1>1. IInv /\ [Next]_vars => IInv'
  BY TypeNext, PlaceNext, SubmitNext, GrowthNext, WakeupNext DEF IInv
<1> QED
  BY <1>1, IInvInit, PTL DEF Spec

\* Whether a task is in the queue, how often it is there.
LEMMA CountInQueue ==
  ASSUME TypeOK, PlaceInv, NEW x \in Task
  PROVE  Cardinality({i \in DOMAIN queue : queue[i] = x})
           = IF \E i \in 1..Len(queue) : queue[i] = x THEN 1 ELSE 0
<1>1. DOMAIN queue = 1..Len(queue)
  BY DEF TypeOK
<1>2. CASE \E i \in 1..Len(queue) : queue[i] = x
  <2>1. PICK i \in 1..Len(queue) : queue[i] = x
    BY <1>2
  <2>2. {j \in DOMAIN queue : queue[j] = x} = {i}
    BY <1>1, <2>1 DEF PlaceInv
  <2> QED
    BY <1>2, <2>2, FS_Singleton
<1>3. CASE ~ \E i \in 1..Len(queue) : queue[i] = x
  <2>1. {j \in DOMAIN queue : queue[j] = x} = {}
    BY <1>1, <1>3
  <2> QED
    BY <1>3, <2>1, FS_EmptySet
<1> QED
  BY <1>2, <1>3

\* How many workers have a task.
LEMMA CountWithWorkers ==
  ASSUME TypeOK, PlaceInv, NEW x \in Task
  PROVE  Cardinality({w \in Worker : task[w] = x})
           = IF \E w \in Worker : wpc[w] = "run" /\ task[w] = x THEN 1 ELSE 0
<1>1. \A w \in Worker : task[w] = x => wpc[w] = "run"
  BY Constants DEF TypeOK
<1>2. CASE \E w \in Worker : wpc[w] = "run" /\ task[w] = x
  <2>1. PICK w \in Worker : wpc[w] = "run" /\ task[w] = x
    BY <1>2
  <2>2. {v \in Worker : task[v] = x} = {w}
    BY <1>1, <2>1 DEF PlaceInv
  <2> QED
    BY <1>2, <2>2, FS_Singleton
<1>3. CASE ~ \E w \in Worker : wpc[w] = "run" /\ task[w] = x
  <2>1. {v \in Worker : task[v] = x} = {}
    BY <1>1, <1>3
  <2> QED
    BY <1>3, <2>1, FS_EmptySet
<1> QED
  BY <1>2, <1>3

\* Every accepted task is in the queue once, or with one worker, or has been
\* run (189, 313-318), and the pool has no more threads than it was built with
\* or there were tasks for (191-195).
THEOREM PoolInvariant == Spec => []PoolInv
<1>1. IInv => PoolInv
  <2> SUFFICES ASSUME IInv, NEW x \in Task
               PROVE  TaskPlaces(x) = IF x \in accepted THEN 1 ELSE 0
    BY DEF IInv, PoolInv, TaskRunOnce
  <2> DEFINE queued == \E i \in 1..Len(queue) : queue[i] = x
             running == \E w \in Worker : wpc[w] = "run" /\ task[w] = x
  <2>1. TaskPlaces(x) = (IF queued THEN 1 ELSE 0) + (IF running THEN 1 ELSE 0)
                          + (IF x \in done THEN 1 ELSE 0)
    BY CountInQueue, CountWithWorkers DEF IInv, TaskPlaces
  <2>2. /\ queued => x \in accepted \ done /\ ~ running
        /\ running => x \in accepted \ done
        /\ x \in accepted \ done => queued \/ running
        /\ x \in done => x \in accepted
    BY DEF IInv, PlaceInv
  <2> HIDE DEF queued, running
  <2> QED
    BY <2>1, <2>2
<1> QED
  BY <1>1, Inductive, PTL

\* No notification is lost (197, 309): while a thread waits, every queued task
\* has a thread of its own on its way to the queue.
THEOREM WakeupsKept == Spec => []NoLostWakeup
<1>1. IInv => NoLostWakeup
  BY DEF IInv
<1> QED
  BY <1>1, Inductive, PTL
-----------------------------------------------------------------------------
(* The shutdown *)

\* Worker w does not leave the loop before it has seen the n-th task: it tests
\* the queue again, or has read an end of it that lies behind that task.
Attends(w, n) ==
  \/ wpc[w] \in {"test", "empty", "lock", "wait", "run"}
  \/ /\ wpc[w] = "compare"
     /\ position[w].of = "begin" \/ position[w].at >= n

\* The loop of run() (306) from the flag's side: no thread leaves while the flag
\* is up, and what queue_.empty() has read of the begin is not ahead of it.
LoopInv ==
  /\ count >= 1
  /\ opc # "submit" => ~ startFlag
  /\ startFlag => \A w \in Worker : wpc[w] \notin {"empty", "compare", "exited"}
  /\ \A w \in Worker : wpc[w] = "compare" => position[w].of \in {"begin", "end"}
  /\ \A w \in Worker : wpc[w] = "compare" /\ position[w].of = "begin" =>
       position[w].at <= popped

\* Every queued task that was not pushed behind the shutdown is attended.
AttendInv ==
  \A k \in 1..Len(queue) :
    queue[k] \notin tardy => \E w \in Worker : Attends(w, popped + k)

\* What the joins have waited for.
JoiningInv ==
  /\ \A w \in Worker : w <= joining => wpc[w] = "exited"
  /\ opc = "joined" => \A w \in Worker : submission[w] = NoSubmission
  /\ PendingIsDone

\* What a push means for the workers: none leaves, some come.
LEMMA PushWorkers ==
  ASSUME TypeOK, PlaceInv, SubmitInv, NEW t \in Submitter, Push(t)
  PROVE  /\ \A w \in Worker : \/ wpc'[w] = wpc[w]
                              \/ wpc[w] = "wait" /\ wpc'[w] = "lock"
                              \/ wpc[w] = "absent" /\ wpc'[w] = "test"
         /\ count <= count' /\ count' \in Nat
<1> DEFINE grow == Grows(submission[t].create, Len(queue) + 1)
<1>1. /\ submission[t] # NoSubmission /\ grow \in BOOLEAN
      /\ count' = IF grow THEN count + 1 ELSE count
  BY DEF Push, Grows, TypeOK
<1>2. grow => count + 1 \in Worker
  BY <1>1, GrowsInBounds
<1>3. PICK v \in Worker \cup {0} : Wake(grow, v)
  BY DEF Push
<1>4. /\ v # 0 => v \in Waiting /\ wpc'[v] = "lock"
      /\ grow => wpc[count + 1] = "absent" /\ wpc'[count + 1] = "test"
      /\ \A w \in Worker : w # v /\ ~ (grow /\ w = count + 1) =>
           wpc'[w] = wpc[w]
  BY <1>1, <1>2, <1>3, WakeIs
<1> HIDE DEF grow
<1>5. 0 \notin Worker /\ \A w \in Waiting : wpc[w] = "wait"
  BY DEF Worker, Waiting
<1> QED
  BY <1>1, <1>4, <1>5 DEF TypeOK

\* Every step keeps the loop's invariant.
LEMMA LoopNext ==
  TypeOK /\ PlaceInv /\ SubmitInv /\ LoopInv /\ [Next]_vars => LoopInv'
<1> SUFFICES ASSUME TypeOK, PlaceInv, SubmitInv, LoopInv, [Next]_vars
             PROVE  LoopInv'
  OBVIOUS
<1>0. popped \in Nat /\ count \in Nat
  BY DEF TypeOK
<1>1. ASSUME NEW t \in Submitter, Push(t) PROVE LoopInv'
  <2>1. UNCHANGED <<popped, position, startFlag, opc>>
    BY <1>1 DEF Push, owner
  <2> QED
    BY <1>0, <1>1, <2>1, PushWorkers DEF LoopInv
<1>2. ASSUME NEW w \in Worker, TestFlag(w) \/ ReadEnd(w) \/ CompareEnds(w)
      PROVE  LoopInv'
  <2>1. UNCHANGED <<count, popped, startFlag, opc>>
    BY <1>2 DEF TestFlag, ReadEnd, CompareEnds, pool, owner
  <2>2. \A v \in Worker \ {w} : wpc'[v] = wpc[v] /\ position'[v] = position[v]
    BY <1>2 DEF TestFlag, ReadEnd, CompareEnds, Goto, TypeOK
  <2>3. startFlag => wpc'[w] \notin {"empty", "compare", "exited"}
    BY <1>2 DEF TestFlag, ReadEnd, CompareEnds, Goto, TypeOK, LoopInv
  <2>4. wpc'[w] = "compare" => /\ position'[w].of \in {"begin", "end"}
                               /\ position'[w].of = "begin" =>
                                    position'[w].at <= popped
    BY <1>0, <1>2 DEF TestFlag, ReadEnd, CompareEnds, Goto, TypeOK
  <2> QED
    BY <2>1, <2>2, <2>3, <2>4 DEF LoopInv
<1>3. ASSUME NEW w \in Worker,
             Take(w) \/ Block(w) \/ WakeSpuriously(w) \/ FinishTask(w)
      PROVE  LoopInv'
  <2>1. /\ UNCHANGED <<count, startFlag, opc, position>>
        /\ popped' \in Nat /\ popped <= popped'
    BY <1>0, <1>3 DEF Take, Block, WakeSpuriously, FinishTask, pool, owner
  <2>2. /\ \A v \in Worker \ {w} : wpc'[v] = wpc[v]
        /\ wpc'[w] \in {"run", "wait", "lock", "test"}
    BY <1>3 DEF Take, Block, WakeSpuriously, FinishTask, Goto, TypeOK
  <2>3. \A v \in Worker : position[v].at \in Nat
    BY DEF TypeOK
  <2> QED
    BY <1>0, <2>1, <2>2, <2>3 DEF LoopInv
<1>4. CASE NotifyAll
  <2>1. /\ UNCHANGED <<count, startFlag, position, popped>>
        /\ opc = "notify"
        /\ \A v \in Worker : wpc'[v] = wpc[v] \/ wpc'[v] = "lock"
    BY <1>4 DEF NotifyAll, pool
  <2> QED
    BY <2>1 DEF LoopInv
<1>5. ASSUME NEW t \in Submitter, NEW x \in Task, NEW create \in BOOLEAN,
             Submit(t, x, create)
      PROVE  LoopInv'
  BY <1>5 DEF Submit, LoopInv, pool, workers, owner
<1>6. CASE Shutdown \/ Join \/ Joined \/ UNCHANGED vars
  BY <1>6 DEF Shutdown, Join, Joined, vars, LoopInv, pool, workers, owner
<1> QED
  BY <1>1, <1>2, <1>3, <1>4, <1>5, <1>6 DEF Next, Run, OwnerStep

\* Who pushes: with the flag up anyone, behind the shutdown an External thread,
\* whose task is tardy, or a worker that runs a task.
LEMMA AttendPush ==
  ASSUME TypeOK, PlaceInv, SubmitInv, LoopInv, AttendInv,
         NEW t \in Submitter, Push(t)
  PROVE  AttendInv'
<1> DEFINE x == submission[t].task
           After(w, n) == \/ wpc'[w] \in
                               {"test", "empty", "lock", "wait", "run"}
                          \/ /\ wpc'[w] = "compare"
                             /\ \/ position'[w].of = "begin"
                                \/ position'[w].at >= n
<1>1. /\ queue' = Append(queue, x) /\ x \in Task /\ x \notin accepted
      /\ submission[t] # NoSubmission
      /\ tardy' = IF startFlag \/ t \notin External THEN tardy
                                                   ELSE tardy \cup {x}
      /\ UNCHANGED <<popped, position>>
  BY DEF Push, SubmitInv, TypeOK
<1> HIDE DEF x
<1>2. /\ Len(queue) \in Nat /\ Len(queue') = Len(queue) + 1
      /\ \A i \in 1..Len(queue) : queue'[i] = queue[i]
      /\ queue'[Len(queue) + 1] = x
  BY <1>1, AppendProperties DEF TypeOK
<1>3. /\ \A w \in Worker : \/ wpc'[w] = wpc[w]
                           \/ wpc[w] = "wait" /\ wpc'[w] = "lock"
                           \/ wpc[w] = "absent" /\ wpc'[w] = "test"
      /\ count <= count' /\ count' \in Nat
  BY PushWorkers
<1>4. ASSUME NEW w \in Worker, NEW n \in Nat, Attends(w, n)
      PROVE  After(w, n)
  BY <1>1, <1>3, <1>4 DEF Attends
<1>5. ASSUME NEW k \in 1..Len(queue), queue'[k] \notin tardy'
      PROVE  \E w \in Worker : After(w, popped + k)
  <2>1. queue[k] \notin tardy
    BY <1>1, <1>2, <1>5
  <2>2. PICK w \in Worker : Attends(w, popped + k)
    BY <2>1 DEF AttendInv
  <2>3. popped + k \in Nat
    BY DEF TypeOK
  <2> QED
    BY <1>4, <2>2, <2>3
<1>6. ASSUME x \notin tardy'
      PROVE  \E w \in Worker : wpc'[w] \in {"test", "lock", "wait", "run"}
  <2>1. CASE startFlag
    <3>1. 1 \in Worker
      BY Constants DEF LoopInv, TypeOK, Worker
    <3>2. wpc[1] \in {"test", "lock", "wait", "run"}
      BY <2>1, <3>1 DEF LoopInv, TypeOK, WorkerLabel
    <3> QED
      BY <1>3, <3>1, <3>2
  <2>2. CASE ~ startFlag
    <3>1. t \in Worker
      BY <1>1, <1>6, <2>2 DEF SubmitInv, Submitter
    <3>2. wpc[t] = "run"
      BY <1>1, <3>1 DEF SubmitInv
    <3> QED
      BY <1>3, <3>1, <3>2
  <2> QED
    BY <2>1, <2>2
<1> SUFFICES ASSUME NEW k \in 1..Len(queue'), queue'[k] \notin tardy'
             PROVE  \E w \in Worker : After(w, popped + k)
  BY <1>1 DEF AttendInv, Attends
<1>7. CASE k = Len(queue) + 1
  BY <1>2, <1>6, <1>7
<1>8. CASE k # Len(queue) + 1
  BY <1>2, <1>5, <1>8
<1> QED
  BY <1>7, <1>8

\* A worker takes the first task and runs it: it will see the others.
LEMMA AttendTake ==
  ASSUME TypeOK, AttendInv, NEW w \in Worker, Take(w)
  PROVE  AttendInv'
<1>1. /\ Len(queue) \in Nat /\ Len(queue') = Len(queue) - 1 /\ w \in Worker
  BY TakenFromQueue
<1>2. wpc' = [wpc EXCEPT ![w] = "run"]
  BY DEF Take, Goto
<1>3. wpc'[w] = "run"
  BY <1>2 DEF TypeOK
<1> QED
  BY <1>3 DEF AttendInv, Attends

\* What a worker attends to is not less after a step that leads into the loop.
LEMMA AttendStay ==
  ASSUME TypeOK, AttendInv, UNCHANGED <<queue, popped, position, tardy>>,
         \A v \in Worker : \/ wpc'[v] = wpc[v]
                           \/ wpc'[v] \in
                                {"test", "empty", "lock", "wait", "run"}
  PROVE  AttendInv'
<1>1. ASSUME NEW k \in 1..Len(queue), queue[k] \notin tardy
      PROVE  \E v \in Worker :
               \/ wpc'[v] \in {"test", "empty", "lock", "wait", "run"}
               \/ /\ wpc'[v] = "compare"
                  /\ \/ position[v].of = "begin"
                     \/ position[v].at >= popped + k
  BY <1>1 DEF AttendInv, Attends
<1> QED
  BY <1>1 DEF AttendInv, Attends

\* The end that is read now lies behind all that is queued.
LEMMA AttendRead ==
  ASSUME TypeOK, AttendInv, NEW w \in Worker, ReadEnd(w)
  PROVE  AttendInv'
<1>1. /\ wpc'[w] = "compare" /\ popped \in Nat /\ Len(queue) \in Nat
      /\ UNCHANGED <<queue, popped, tardy>>
      /\ \/ position'[w].of = "begin"
         \/ position'[w].at = popped + Len(queue)
  BY DEF ReadEnd, Goto, TypeOK, pool, history
<1>2. ASSUME NEW k \in 1..Len(queue)
      PROVE  \/ position'[w].of = "begin"
             \/ position'[w].at >= popped + k
  BY <1>1
<1> QED
  BY <1>1, <1>2 DEF AttendInv, Attends

\* The worker that leaves finds the queue empty now, or has read the end before
\* every queued task was pushed: another one attends to them.
LEMMA AttendCompare ==
  ASSUME TypeOK, LoopInv, AttendInv, NEW w \in Worker, CompareEnds(w)
  PROVE  AttendInv'
<1>1. /\ popped \in Nat /\ Len(queue) \in Nat /\ wpc[w] = "compare"
      /\ UNCHANGED <<queue, popped, tardy>> /\ position[w].at \in Nat
  BY DEF CompareEnds, TypeOK, pool, history
<1>2. \A v \in Worker \ {w} : wpc'[v] = wpc[v] /\ position'[v] = position[v]
  BY DEF CompareEnds, Goto, TypeOK
<1>3. wpc'[w] = IF position[w].at = OtherEnd(w) THEN "exited" ELSE "lock"
  BY DEF CompareEnds, Goto, TypeOK
<1>4. CASE wpc'[w] = "lock"
  BY <1>1, <1>4 DEF AttendInv, Attends
<1>5. CASE position[w].at = OtherEnd(w)
  <2> SUFFICES ASSUME NEW k \in 1..Len(queue), queue[k] \notin tardy
               PROVE  \E v \in Worker \ {w} : Attends(v, popped + k)
    BY <1>1, <1>2 DEF AttendInv, Attends
  <2>1. PICK v \in Worker : Attends(v, popped + k)
    BY DEF AttendInv
  <2>2. ~ Attends(w, popped + k)
    <3>1. position[w].of = "begin" => position[w].at < popped + Len(queue)
      BY <1>1 DEF LoopInv
    <3>2. position[w].of # "begin"
      BY <1>1, <1>5, <3>1 DEF OtherEnd
    <3>3. position[w].at = popped
      BY <1>5, <3>2 DEF OtherEnd
    <3> QED
      BY <1>1, <3>2, <3>3 DEF Attends
  <2> QED
    BY <2>1, <2>2
<1> QED
  BY <1>3, <1>4, <1>5

\* Every step keeps the queued tasks attended.
LEMMA AttendNext ==
  TypeOK /\ PlaceInv /\ SubmitInv /\ LoopInv /\ AttendInv /\ [Next]_vars
    => AttendInv'
<1> SUFFICES ASSUME TypeOK, PlaceInv, SubmitInv, LoopInv, AttendInv,
                    [Next]_vars
             PROVE  AttendInv'
  OBVIOUS
<1>1. ASSUME NEW w \in Worker,
             TestFlag(w) \/ Block(w) \/ WakeSpuriously(w) \/ FinishTask(w)
      PROVE  AttendInv'
  <2>1. /\ UNCHANGED <<queue, popped, position, tardy>>
        /\ \E label \in {"test", "empty", "lock", "wait", "run"} :
             wpc' = [wpc EXCEPT ![w] = label]
    BY <1>1 DEF TestFlag, Block, WakeSpuriously, FinishTask, Goto, pool, history
  <2>2. \A v \in Worker :
          \/ wpc'[v] = wpc[v]
          \/ wpc'[v] \in {"test", "empty", "lock", "wait", "run"}
    BY <2>1 DEF TypeOK
  <2> QED
    BY <2>1, <2>2, AttendStay
<1>2. CASE NotifyAll
  <2>1. /\ UNCHANGED <<queue, popped, position, tardy>>
        /\ \A v \in Worker : wpc'[v] = wpc[v] \/ wpc'[v] = "lock"
    BY <1>2 DEF NotifyAll, pool, history
  <2> QED
    BY <2>1, AttendStay
<1>3. ASSUME NEW t \in Submitter, NEW x \in Task, NEW create \in BOOLEAN,
             Submit(t, x, create)
      PROVE  AttendInv'
  <2>1. UNCHANGED <<queue, popped, position, tardy, wpc>>
    BY <1>3 DEF Submit, pool, workers
  <2> QED
    BY <2>1, AttendStay
<1>4. CASE Shutdown \/ Join \/ Joined \/ UNCHANGED vars
  <2>1. UNCHANGED <<queue, popped, position, tardy, wpc>>
    BY <1>4 DEF Shutdown, Join, Joined, vars, pool, workers, history
  <2> QED
    BY <2>1, AttendStay
<1> QED
  BY <1>1, <1>2, <1>3, <1>4, AttendPush, AttendTake, AttendRead, AttendCompare
     DEF Next, Run, OwnerStep

\* When the last thread has been joined nobody attends to a task: only tardy
\* ones are queued, and none is being run.
LEMMA AllDone ==
  ASSUME TypeOK, PlaceInv, SubmitInv, AttendInv, JoiningInv, Joined
  PROVE  JoiningInv'
<1>1. \A w \in Worker : wpc[w] \in {"absent", "exited"}
  <2> SUFFICES ASSUME NEW w \in Worker PROVE wpc[w] \in {"absent", "exited"}
    OBVIOUS
  <2>1. w \in Nat /\ count \in Nat /\ joining \in Nat /\ joining >= count
    BY Constants DEF Joined, TypeOK, Worker
  <2> QED
    BY <2>1 DEF JoiningInv, TypeOK
<1>2. \A k \in 1..Len(queue) : queue[k] \in tardy
  BY <1>1 DEF AttendInv, Attends
<1>3. accepted \ tardy \subseteq done
  BY <1>1, <1>2 DEF PlaceInv
<1>4. \A w \in Worker : submission[w] = NoSubmission
  BY <1>1 DEF SubmitInv
<1>5. UNCHANGED <<wpc, submission, accepted, tardy, done, joining>>
  BY DEF Joined, workers, history
<1> QED
  BY <1>3, <1>4, <1>5 DEF JoiningInv, PendingIsDone

\* Every step keeps what the joins have waited for.
LEMMA JoiningNext ==
  TypeOK /\ PlaceInv /\ SubmitInv /\ LoopInv /\ AttendInv /\ JoiningInv
    /\ [Next]_vars => JoiningInv'
<1> SUFFICES ASSUME TypeOK, PlaceInv, SubmitInv, LoopInv, AttendInv, JoiningInv,
                    [Next]_vars
             PROVE  JoiningInv'
  OBVIOUS
<1>1. ASSUME NEW t \in Submitter, NEW x \in Task, NEW create \in BOOLEAN,
             Submit(t, x, create)
      PROVE  JoiningInv'
  <2>1. /\ UNCHANGED <<wpc, joining, opc, accepted, tardy, done, startFlag>>
        /\ submission' = [submission EXCEPT ![t] =
             IF startFlag THEN [task |-> x, create |-> create]
                          ELSE NoSubmission]
    BY <1>1 DEF Submit, pool, workers, owner
  <2>2. opc = "joined" => ~ startFlag
    BY DEF LoopInv
  <2>3. opc = "joined" => \A w \in Worker : submission'[w] = NoSubmission
    BY <2>1, <2>2, Constants DEF JoiningInv, TypeOK
  <2> QED
    BY <2>1, <2>3 DEF JoiningInv, PendingIsDone
<1>2. ASSUME NEW t \in Submitter, Push(t) PROVE JoiningInv'
  <2>1. /\ UNCHANGED <<joining, opc, done>>
        /\ submission[t] # NoSubmission
        /\ accepted' = accepted \cup {submission[t].task}
        /\ tardy' = IF startFlag \/ t \notin External
                    THEN tardy ELSE tardy \cup {submission[t].task}
        /\ \A w \in Worker : submission'[w] = submission[w] \/ w = t
        /\ submission'[t] = NoSubmission
    BY <1>2, Constants DEF Push, TypeOK, owner
  <2>2. \A w \in Worker : wpc[w] = "exited" => wpc'[w] = "exited"
    BY <1>2, PushWorkers
  <2>3. opc = "joined" => t \in External /\ ~ startFlag
    BY <2>1 DEF LoopInv, SubmitInv, JoiningInv, Submitter
  <2> QED
    BY <2>1, <2>2, <2>3 DEF JoiningInv, PendingIsDone
<1>3. ASSUME NEW w \in Worker, Run(w) PROVE JoiningInv'
  <2>1. /\ UNCHANGED <<joining, opc, submission, accepted, tardy>>
        /\ done \subseteq done' /\ wpc[w] # "exited"
    BY <1>3 DEF Run, TestFlag, ReadEnd, CompareEnds, Take, Block,
         WakeSpuriously, FinishTask, owner, history
  <2>2. \A v \in Worker \ {w} : wpc'[v] = wpc[v]
    BY <1>3 DEF Run, TestFlag, ReadEnd, CompareEnds, Take, Block,
         WakeSpuriously, FinishTask, Goto, TypeOK
  <2> QED
    BY <2>1, <2>2 DEF JoiningInv, PendingIsDone
<1>4. CASE Shutdown \/ NotifyAll
  <2>1. /\ UNCHANGED <<joining, submission, accepted, tardy, done>>
        /\ opc' # "joined"
        /\ \A w \in Worker : wpc[w] = "exited" => wpc'[w] = "exited"
    BY <1>4 DEF Shutdown, NotifyAll, Waiting, workers, history
  <2> QED
    BY <2>1 DEF JoiningInv, PendingIsDone
<1>5. CASE Join
  <2>1. /\ joining' = joining + 1 /\ joining \in Nat /\ opc = "join"
        /\ UNCHANGED <<wpc, submission, accepted, tardy, done, opc>>
        /\ wpc[joining + 1] = "exited"
    BY <1>5 DEF Join, TypeOK, workers, history
  <2>2. \A w \in Worker : w <= joining + 1 => w <= joining \/ w = joining + 1
    BY <2>1, Constants DEF Worker
  <2> QED
    BY <2>1, <2>2 DEF JoiningInv, PendingIsDone
<1>6. CASE UNCHANGED vars
  BY <1>6 DEF vars, workers, owner, history, JoiningInv, PendingIsDone
<1> QED
  BY <1>1, <1>2, <1>3, <1>4, <1>5, <1>6, AllDone DEF Next, OwnerStep

\* What holds of the shutdown in a pool that was built with a thread.
ShutInv == LoopInv /\ AttendInv /\ JoiningInv

\* What holds of the shutdown holds at first, with one worker at least.
LEMMA ShutInit == InitCount >= 1 /\ Init => ShutInv
<1> SUFFICES ASSUME InitCount >= 1, Init PROVE ShutInv
  OBVIOUS
<1>1. Len(<<>>) = 0 /\ 1..0 = {}
  OBVIOUS
<1>2. 1..Len(queue) = {}
  BY <1>1, Zenon DEF Init
<1>3. \A w \in Worker : wpc[w] \in {"test", "absent"} /\ w >= 1
  BY Constants DEF Init, Worker
<1>4. count = InitCount /\ opc = "submit" /\ joining = 0
  BY DEF Init
<1>5. LoopInv
  BY <1>3, <1>4 DEF LoopInv
<1>6. AttendInv
  BY <1>2 DEF AttendInv
<1>7. \A w \in Worker : ~ (w <= joining)
  BY <1>4, Constants DEF Worker
<1> QED
  BY <1>4, <1>5, <1>6, <1>7 DEF JoiningInv, PendingIsDone, ShutInv

\* No step spoils what holds of the shutdown.
LEMMA ShutNext == IInv /\ ShutInv /\ [Next]_vars => ShutInv'
BY LoopNext, AttendNext, JoiningNext DEF IInv, ShutInv

\* A pool that was built with a thread forgets no pending task: though its
\* threads leave the loop after a look at the queue without the mutex (306), all
\* that was accepted has been run when waitForPendingTasks() returns, but for
\* what an External thread pushed behind the shutdown.
THEOREM PendingTasksAreDone == InitCount >= 1 /\ Spec => []PendingIsDone
<1>1. ShutInv => PendingIsDone
  BY DEF ShutInv, JoiningInv
<1> QED
  BY <1>1, ShutInit, ShutNext, Inductive, PTL DEF Spec
-----------------------------------------------------------------------------
(* What comes behind the shutdown *)

\* The threads that are not the pool's and are past the flag's test.
Behind == {t \in External : submission[t] # NoSubmission}

\* Each External thread can push one task behind the shutdown, the one it had
\* tested the flag for (183).
TardyInv ==
  /\ startFlag => tardy = {}
  /\ Cardinality(tardy) + Cardinality(Behind) <= Cardinality(External)

\* The pool keeps the threads it was built with, and none is left when all are
\* joined.
GoneInv ==
  /\ count >= InitCount
  /\ opc = "joined" => \A w \in Worker : wpc[w] \in {"absent", "exited"}

\* Late tasks and threads behind the test of the flag can be counted.
LEMMA SizesAreNumbers ==
  ASSUME TypeOK, IsFiniteSet(External)
  PROVE  /\ IsFiniteSet(tardy) /\ Cardinality(tardy) \in Nat
         /\ IsFiniteSet(Behind) /\ Cardinality(Behind) \in Nat
         /\ Cardinality(Behind) <= Cardinality(External)
         /\ Cardinality(External) \in Nat
<1>1. IsFiniteSet(tardy)
  BY PoolAssumption, FS_Subset DEF TypeOK
<1>2. /\ IsFiniteSet(Behind)
      /\ Cardinality(Behind) <= Cardinality(External)
  BY FS_Subset DEF Behind
<1> QED
  BY <1>1, <1>2, FS_CardinalityType

\* Nobody is counted twice: a thread that pushes behind the shutdown was among
\* those that could, and is so no more.
LEMMA TardyPush ==
  ASSUME TypeOK, IsFiniteSet(External), TardyInv, NEW t \in Submitter, Push(t)
  PROVE  TardyInv'
<1> DEFINE x == submission[t].task
<1>1. /\ submission[t] # NoSubmission /\ startFlag' = startFlag
      /\ tardy' = IF startFlag \/ t \notin External THEN tardy
                                                   ELSE tardy \cup {x}
      /\ submission' = [submission EXCEPT ![t] = NoSubmission]
  BY DEF Push
<1> HIDE DEF x
<1>2. Behind' = Behind \ {t}
  <2>1. External \subseteq Submitter
    BY DEF Submitter
  <2> QED
    BY <1>1, <2>1 DEF Behind, TypeOK
<1>3. CASE t \notin External
  <2>1. Behind' = Behind /\ tardy' = tardy
    BY <1>1, <1>2, <1>3 DEF Behind
  <2> QED
    BY <1>1, <2>1 DEF TardyInv
<1>4. CASE t \in External
  <2>1. t \in Behind
    BY <1>1, <1>4 DEF Behind
  <2>2. Cardinality(Behind') = Cardinality(Behind) - 1
    BY <1>2, <2>1, SizesAreNumbers, FS_RemoveElement
  <2>3. Cardinality(tardy \cup {x}) <= Cardinality(tardy) + 1
    <3>1. CASE x \in tardy
      <4>1. tardy \cup {x} = tardy
        BY <3>1
      <4> QED
        BY <4>1, SizesAreNumbers
    <3>2. CASE x \notin tardy
      <4>1. Cardinality(tardy \cup {x}) = Cardinality(tardy) + 1
        BY <3>2, SizesAreNumbers, FS_AddElement
      <4> QED
        BY <4>1, SizesAreNumbers
    <3> QED
      BY <3>1, <3>2
  <2>4. Cardinality(tardy \cup {x}) \in Nat
    BY SizesAreNumbers, FS_AddElement, FS_CardinalityType
  <2>5. \/ Cardinality(tardy') = Cardinality(tardy)
        \/ Cardinality(tardy') = Cardinality(tardy \cup {x})
    BY <1>1
  <2>6. Cardinality(tardy') + Cardinality(Behind') <= Cardinality(External)
    <3> HIDE DEF Behind
    <3>1. Cardinality(tardy) + Cardinality(Behind) <= Cardinality(External)
      BY DEF TardyInv
    <3> QED
      BY <2>2, <2>3, <2>4, <2>5, <3>1, SizesAreNumbers
  <2> QED
    BY <1>1, <2>6 DEF TardyInv
<1> QED
  BY <1>3, <1>4

\* Every step keeps the tardy tasks bounded.
LEMMA TardyNext ==
  ASSUME TypeOK, SubmitInv, IsFiniteSet(External), TardyInv, [Next]_vars
  PROVE  TardyInv'
<1>1. ASSUME UNCHANGED <<tardy, startFlag>>, Behind' \subseteq Behind
      PROVE  TardyInv'
  <2>1. /\ Cardinality(Behind') \in Nat
        /\ Cardinality(Behind') <= Cardinality(Behind)
    BY <1>1, SizesAreNumbers, FS_Subset, FS_CardinalityType
  <2>2. Cardinality(tardy') = Cardinality(tardy)
    BY <1>1
  <2>3. Cardinality(tardy) + Cardinality(Behind) <= Cardinality(External)
    BY DEF TardyInv
  <2>4. Cardinality(tardy') + Cardinality(Behind') <= Cardinality(External)
    BY <2>1, <2>2, <2>3, SizesAreNumbers
  <2> QED
    BY <1>1, <2>4 DEF TardyInv
<1>2. ASSUME NEW t \in Submitter, NEW x \in Task, NEW create \in BOOLEAN,
             Submit(t, x, create)
      PROVE  TardyInv'
  <2>1. /\ UNCHANGED <<tardy, startFlag>>
        /\ submission' = [submission EXCEPT ![t] =
             IF startFlag THEN [task |-> x, create |-> create]
                          ELSE NoSubmission]
    BY <1>2 DEF Submit, pool
  <2>2. CASE startFlag
    <3>1. Behind' \subseteq External
      BY DEF Behind
    <3>2. /\ Cardinality(Behind') \in Nat
          /\ Cardinality(Behind') <= Cardinality(External)
      BY <3>1, FS_Subset, FS_CardinalityType
    <3>3. tardy' = {} /\ Cardinality({}) = 0
      BY <2>1, <2>2, FS_EmptySet DEF TardyInv
    <3>4. Cardinality(tardy') = 0
      BY <3>3
    <3> QED
      BY <2>1, <3>2, <3>3, <3>4 DEF TardyInv
  <2>3. CASE ~ startFlag
    <3>1. Behind' \subseteq Behind
      <4>1. External \subseteq Submitter
        BY DEF Submitter
      <4> QED
        BY <2>1, <2>3, <4>1 DEF Behind, TypeOK
    <3> QED
      BY <1>1, <2>1, <3>1
  <2> QED
    BY <2>2, <2>3
<1>3. CASE Shutdown
  <2>1. UNCHANGED <<tardy, submission>> /\ ~ startFlag'
    BY <1>3 DEF Shutdown, history
  <2> QED
    BY <2>1 DEF TardyInv, Behind
<1>4. ASSUME NEW w \in Worker, Run(w) PROVE TardyInv'
  <2>1. UNCHANGED <<tardy, startFlag, submission>>
    BY <1>4 DEF Run, TestFlag, ReadEnd, CompareEnds, Take, Block,
         WakeSpuriously, FinishTask, pool, history
  <2> QED
    BY <1>1, <2>1 DEF Behind
<1>5. CASE NotifyAll \/ Join \/ Joined \/ UNCHANGED vars
  <2>1. UNCHANGED <<tardy, startFlag, submission>>
    BY <1>5 DEF NotifyAll, Join, Joined, vars, pool, history
  <2> QED
    BY <1>1, <2>1 DEF Behind
<1> QED
  BY <1>2, <1>3, <1>4, <1>5, TardyPush DEF Next, OwnerStep

\* After the joins only tardy tasks are queued, and there are fewer of them than
\* threads: nothing a late thread pushes makes the pool grow (191).
LEMMA NothingGrows ==
  ASSUME TypeOK, PlaceInv, SubmitInv, LoopInv, AttendInv, JoiningInv,
         IsFiniteSet(External), Cardinality(External) <= InitCount,
         TardyInv, GoneInv, opc = "joined",
         NEW t \in Submitter, submission[t] # NoSubmission
  PROVE  ~ Grows(submission[t].create, Len(queue) + 1)
<1>1. t \in External
  BY DEF LoopInv, SubmitInv, JoiningInv, Submitter
<1>2. \A k \in 1..Len(queue) : queue[k] \in tardy
  BY DEF AttendInv, Attends, GoneInv
<1>3. Len(queue) \in Nat /\ count \in Nat
  BY DEF TypeOK
<1>4. Len(queue) <= Cardinality(tardy)
  <2>1. queue \in Injection(1..Len(queue), tardy)
    <3>1. queue \in Seq(Task)
      BY DEF TypeOK
    <3>2. DOMAIN queue = 1..Len(queue)
      BY <3>1
    <3> QED
      BY <1>2, <3>1, <3>2 DEF PlaceInv, Injection, IsInjective
  <2>2. Cardinality(1..Len(queue)) <= Cardinality(tardy)
    BY <2>1, SizesAreNumbers, FS_Injection
  <2>3. ASSUME NEW n \in Nat PROVE Cardinality(1..n) = n
    <3>1. Cardinality(1..n) = IF 1 > n THEN 0 ELSE n - 1 + 1
      BY FS_Interval, SMTT(30)
    <3> QED
      BY <3>1
  <2>4. Cardinality(1..Len(queue)) = Len(queue)
    BY <1>3, <2>3
  <2> QED
    BY <2>2, <2>4
<1>5. Cardinality(Behind) >= 1
  <2>1. t \in Behind
    BY <1>1 DEF Behind
  <2>2. Cardinality(Behind) # 0
    BY <2>1, SizesAreNumbers, FS_EmptySet
  <2> QED
    BY <2>2, SizesAreNumbers
<1>6. Cardinality(tardy) + Cardinality(Behind) <= Cardinality(External)
  BY DEF TardyInv
<1>7. Len(queue) + 1 <= Cardinality(External)
  BY <1>3, <1>4, <1>5, <1>6, SizesAreNumbers
<1>8. Len(queue) + 1 <= count
  BY <1>3, <1>7, SizesAreNumbers, Constants DEF GoneInv
<1> QED
  BY <1>3, <1>8 DEF Grows

\* Every step leaves the pool its threads, and none runs after the joins.
LEMMA GoneNext ==
  ASSUME TypeOK, PlaceInv, SubmitInv, LoopInv, AttendInv, JoiningInv,
         IsFiniteSet(External), Cardinality(External) <= InitCount,
         TardyInv, GoneInv, [Next]_vars
  PROVE  GoneInv'
<1>0. count \in Nat /\ InitCount \in Nat /\ joining \in Nat
  BY Constants DEF TypeOK
<1>1. ASSUME NEW t \in Submitter, Push(t) PROVE GoneInv'
  <2>1. count' >= InitCount
    BY <1>0, <1>1, PushWorkers DEF GoneInv
  <2>2. ASSUME opc' = "joined", NEW w \in Worker
        PROVE  wpc'[w] \in {"absent", "exited"}
    <3>1. opc = "joined" /\ submission[t] # NoSubmission
      BY <1>1, <2>2 DEF Push, owner
    <3>2. ~ Grows(submission[t].create, Len(queue) + 1)
      BY <3>1, NothingGrows
    <3>3. wpc[w] \in {"absent", "exited"} /\ Waiting = {}
      BY <3>1 DEF GoneInv, Waiting
    <3>4. PICK v \in Worker \cup {0} :
            Wake(Grows(submission[t].create, Len(queue) + 1), v)
      BY <1>1 DEF Push
    <3>5. v = 0 /\ 0 \notin Worker
      BY <3>3, <3>4 DEF Wake, Worker
    <3>6. wpc'[w] = wpc[w]
      BY <3>2, <3>4, <3>5 DEF Wake
    <3> QED
      BY <3>3, <3>6
  <2> QED
    BY <2>1, <2>2 DEF GoneInv
<1>2. ASSUME NEW w \in Worker, Run(w) PROVE GoneInv'
  <2>1. UNCHANGED <<count, opc>> /\ wpc[w] \notin {"absent", "exited"}
    BY <1>2 DEF Run, TestFlag, ReadEnd, CompareEnds, Take, Block,
         WakeSpuriously, FinishTask, pool, owner
  <2> QED
    BY <2>1 DEF GoneInv
<1>3. ASSUME NEW t \in Submitter, NEW x \in Task, NEW create \in BOOLEAN,
             Submit(t, x, create)
      PROVE  GoneInv'
  BY <1>3 DEF Submit, GoneInv, pool, workers, owner
<1>4. CASE Shutdown \/ NotifyAll \/ Join
  <2>1. count' = count /\ opc' # "joined"
    BY <1>4 DEF Shutdown, NotifyAll, Join, pool
  <2> QED
    BY <2>1 DEF GoneInv
<1>5. CASE Joined
  <2>1. joining >= count /\ UNCHANGED <<count, wpc>>
    BY <1>5 DEF Joined, pool, workers
  <2>2. ASSUME NEW w \in Worker PROVE wpc[w] \in {"absent", "exited"}
    <3>1. w \in Nat
      BY Constants DEF Worker
    <3> QED
      BY <1>0, <2>1, <3>1 DEF JoiningInv, TypeOK
  <2> QED
    BY <2>1, <2>2 DEF GoneInv
<1>6. CASE UNCHANGED vars
  BY <1>6 DEF vars, GoneInv, pool, workers, owner
<1> QED
  BY <1>1, <1>2, <1>3, <1>4, <1>5, <1>6 DEF Next, OwnerStep

\* Once waitForPendingTasks() has returned no thread is left (298) and no
\* pending task was forgotten, if the pool was built with a thread and with no
\* fewer than there are External threads.
THEOREM JoinedIsDone ==
  /\ InitCount >= 1
  /\ IsFiniteSet(External) /\ Cardinality(External) <= InitCount
  /\ Spec
  => []JoinedMeansDone
<1> SUFFICES ASSUME InitCount >= 1, IsFiniteSet(External),
                    Cardinality(External) <= InitCount
             PROVE  Spec => []JoinedMeansDone
  OBVIOUS
<1> DEFINE AllInv == ShutInv /\ TardyInv /\ GoneInv
<1>1. Init => AllInv
  <2> SUFFICES ASSUME Init PROVE AllInv
    OBVIOUS
  <2>1. tardy = {} /\ count = InitCount /\ opc = "submit"
    BY DEF Init
  <2>2. TypeOK
    BY IInvInit DEF IInv
  <2>3. Cardinality(tardy) = 0
    BY <2>1, FS_EmptySet
  <2>4. TardyInv
    BY <2>1, <2>2, <2>3, SizesAreNumbers DEF TardyInv
  <2>5. GoneInv
    BY <2>1, Constants DEF GoneInv
  <2> QED
    BY <2>4, <2>5, ShutInit
<1>2. IInv /\ AllInv /\ [Next]_vars => AllInv'
  BY ShutNext, TardyNext, GoneNext DEF IInv, ShutInv
<1>3. AllInv => JoinedMeansDone
  BY DEF ShutInv, JoiningInv, GoneInv, JoinedMeansDone
<1> HIDE DEF AllInv
<1> QED
  BY <1>1, <1>2, <1>3, Inductive, PTL DEF Spec
=============================================================================
