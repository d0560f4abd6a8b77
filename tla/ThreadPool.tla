------------------------------ MODULE ThreadPool ------------------------------
(***************************************************************************)
(* thread_pool.cpp: ThreadPool.  Its owner submits tasks, then calls       *)
(* shutdown() and waitForPendingTasks() (the destructor calls both); a     *)
(* running task may submit tasks too; External threads submit whenever     *)
(* they like.                                                              *)
(*                                                                         *)
(* mt_ is never held across a step: what run() does under it, up to the    *)
(* unlock or to the moment the condition variable releases it, is one      *)
(* action, and so is what submitTask() does under it.  startFlag_ and the  *)
(* notification of shutdown() are outside of the mutex and interleave.     *)
(***************************************************************************)
EXTENDS Naturals, Sequences, FiniteSets

CONSTANTS Task,        \* the tasks that may be submitted, each once
          NoTask,
          Owner,       \* the thread that builds and ends the pool
          External,    \* threads, other than the owner, that are not the pool's
          InitCount,   \* the constructor's count
          Nested       \* whether running tasks submit tasks

ASSUME PoolAssumption == /\ InitCount \in Nat
                         /\ IsFiniteSet(Task)
                         /\ NoTask \notin Task
                         /\ Nested \in BOOLEAN

\* threads_[i] is worker i + 1; a pool never needs more than this.
MaxCount == IF InitCount >= Cardinality(Task) THEN InitCount
                                               ELSE Cardinality(Task)
Worker == 1..MaxCount

ASSUME ThreadAssumption == /\ External \cap Worker = {}
                           /\ Owner \notin External \cup Worker

VARIABLES count,       \* count_, and the size of threads_
          queue,       \* queue_
          popped,      \* how many tasks left the queue: where queue_ begins
          startFlag,
          wpc,         \* what each worker does next
          position,    \* the end of queue_ a worker has read in empty()
          task,        \* the task a worker runs
          submission,  \* what a thread is about to push, past the flag's test
          opc,         \* what the owner does next
          joining,     \* i of waitForPendingTasks()
          submitted,   \* history: the tasks handed to submitTask()
          accepted,    \* history: those that were pushed
          tardy,       \* history: those that an external thread pushed after
                       \* the flag was taken down
          done         \* history: those that were run to the end

pool == <<count, queue, popped, startFlag>>
workers == <<wpc, position, task>>
owner == <<opc, joining>>
history == <<submitted, accepted, tardy, done>>
vars == <<pool, workers, submission, owner, history>>

Submitter == {Owner} \cup External \cup Worker
NoSubmission == [task |-> NoTask, create |-> FALSE]

Init == /\ count = InitCount
        /\ queue = <<>>
        /\ popped = 0
        /\ startFlag = TRUE
        /\ wpc = [w \in Worker |-> IF w <= InitCount THEN "test" ELSE "absent"]
        /\ position = [w \in Worker |-> [of |-> "none", at |-> 0]]
        /\ task = [w \in Worker |-> NoTask]
        /\ submission = [t \in Submitter |-> NoSubmission]
        /\ opc = "submit"
        /\ joining = 0
        /\ submitted = {}
        /\ accepted = {}
        /\ tardy = {}
        /\ done = {}

Goto(w, label) == wpc' = [wpc EXCEPT ![w] = label]
Waiting == {w \in Worker : wpc[w] = "wait"}
-----------------------------------------------------------------------------
(* submitTask() *)

\* Who is in a position to call submitTask().
MaySubmit(t) == /\ submission[t] = NoSubmission
                /\ \/ t = Owner /\ opc \in {"submit", "notify"}
                   \/ t \in External
                   \/ t \in Worker /\ Nested /\ wpc[t] = "run"

\* The flag is tested before the mutex is taken; the task is dropped if it is
\* down.
Submit(t, x, create) ==
  /\ MaySubmit(t)
  /\ x \notin submitted
  /\ submitted' = submitted \cup {x}
  /\ submission' = [submission EXCEPT ![t] =
       IF startFlag THEN [task |-> x, create |-> create] ELSE NoSubmission]
  /\ UNCHANGED <<pool, workers, owner, accepted, tardy, done>>

\* A thread is added when more tasks are queued than there are threads.
Grows(create, length) == create /\ length > count

\* Mutation: a thread is woken only for the first task of a queue.
WakeForFirst(grow, w) ==
  /\ IF Waiting = {} \/ queue # <<>> THEN w = 0 ELSE w \in Waiting
  /\ wpc' = [v \in Worker |-> IF v = w THEN "lock"
                              ELSE IF grow /\ v = count + 1 THEN "test"
                              ELSE wpc[v]]

\* notify_one wakes one waiting thread, any of them, if there is one.  A thread
\* just created starts at the top of run().
Wake(grow, w) ==
  /\ IF Waiting = {} THEN w = 0 ELSE w \in Waiting
  /\ wpc' = [v \in Worker |-> IF v = w THEN "lock"
                              ELSE IF grow /\ v = count + 1 THEN "test"
                              ELSE wpc[v]]

Push(t) ==
  LET s == submission[t]
      grow == Grows(s.create, Len(queue) + 1)
  IN /\ s # NoSubmission
     /\ queue' = Append(queue, s.task)
     /\ accepted' = accepted \cup {s.task}
     /\ tardy' = IF startFlag \/ t \notin External THEN tardy
                                                  ELSE tardy \cup {s.task}
     /\ submission' = [submission EXCEPT ![t] = NoSubmission]
     /\ count' = IF grow THEN count + 1 ELSE count
     /\ \E w \in Worker \cup {0} : Wake(grow, w)
     /\ UNCHANGED <<popped, startFlag, position, task, owner, submitted, done>>
-----------------------------------------------------------------------------
(* run() *)

TestFlag(w) ==
  /\ wpc[w] = "test"
  /\ Goto(w, IF startFlag THEN "lock" ELSE "empty")
  /\ UNCHANGED <<pool, position, task, submission, owner, history>>

\* queue_.empty() compares the two ends of the deque, read one after the other
\* and without the mutex: both orders are possible, and the queue may change in
\* between.  (That the ends are plain memory, read while they are written, is
\* not modelled any further: a read gives the old or the new end.)
ReadEnd(w) ==
  /\ wpc[w] = "empty"
  /\ \/ position' = [position EXCEPT ![w] = [of |-> "begin", at |-> popped]]
     \/ position' = [position EXCEPT ![w] =
                       [of |-> "end", at |-> popped + Len(queue)]]
  /\ Goto(w, "compare")
  /\ UNCHANGED <<pool, task, submission, owner, history>>

OtherEnd(w) == IF position[w].of = "begin" THEN popped + Len(queue) ELSE popped

\* Mutation: the flag alone ends the loop.
CompareEndsIgnored(w) ==
  /\ wpc[w] = "compare"
  /\ Goto(w, "exited")
  /\ position' = [position EXCEPT ![w] = [of |-> "none", at |-> 0]]
  /\ UNCHANGED <<pool, task, submission, owner, history>>

\* The thread ends when the queue looks empty.
CompareEnds(w) ==
  /\ wpc[w] = "compare"
  /\ Goto(w, IF position[w].at = OtherEnd(w) THEN "exited" ELSE "lock")
  /\ position' = [position EXCEPT ![w] = [of |-> "none", at |-> 0]]
  /\ UNCHANGED <<pool, task, submission, owner, history>>

\* Mutation: the task is copied and stays in the queue.
TakeCopies(w) ==
  /\ wpc[w] = "lock"
  /\ queue # <<>>
  /\ popped < Cardinality(Task)
  /\ task' = [task EXCEPT ![w] = Head(queue)]
  /\ popped' = popped + 1
  /\ Goto(w, "run")
  /\ UNCHANGED <<count, queue, startFlag, position, submission, owner, history>>

\* With the mutex: the predicate holds, a task is taken.
Take(w) ==
  /\ wpc[w] = "lock"
  /\ queue # <<>>
  /\ task' = [task EXCEPT ![w] = Head(queue)]
  /\ queue' = Tail(queue)
  /\ popped' = popped + 1
  /\ Goto(w, "run")
  /\ UNCHANGED <<count, startFlag, position, submission, owner, history>>

\* With the mutex: the predicate does not hold, the thread waits.  The flag is
\* not part of the predicate.
Block(w) ==
  /\ wpc[w] = "lock"
  /\ queue = <<>>
  /\ Goto(w, "wait")
  /\ UNCHANGED <<pool, position, task, submission, owner, history>>

\* A condition variable may wake a thread without a notification.
WakeSpuriously(w) ==
  /\ wpc[w] = "wait"
  /\ Goto(w, "lock")
  /\ UNCHANGED <<pool, position, task, submission, owner, history>>

FinishTask(w) ==
  /\ wpc[w] = "run"
  /\ submission[w] = NoSubmission
  /\ done' = done \cup {task[w]}
  /\ task' = [task EXCEPT ![w] = NoTask]
  /\ Goto(w, "test")
  /\ UNCHANGED <<pool, position, submission, owner, submitted, accepted, tardy>>
-----------------------------------------------------------------------------
(* shutdown() and waitForPendingTasks() *)

Shutdown ==
  /\ opc = "submit"
  /\ submission[Owner] = NoSubmission
  /\ startFlag' = FALSE
  /\ opc' = "notify"
  /\ UNCHANGED <<count, queue, popped, workers, submission, joining, history>>

NotifyAll ==
  /\ opc = "notify"
  /\ wpc' = [w \in Worker |-> IF w \in Waiting THEN "lock" ELSE wpc[w]]
  /\ opc' = "join"
  /\ UNCHANGED <<pool, position, task, submission, joining, history>>

\* Mutation: the first thread is not joined.
JoinFromOne ==
  /\ opc = "join"
  /\ joining < count
  /\ joining = 0 \/ wpc[joining + 1] = "exited"
  /\ joining' = joining + 1
  /\ UNCHANGED <<pool, workers, submission, opc, history>>

\* join() of the next thread returns; count_ is read again for every thread.
Join ==
  /\ opc = "join"
  /\ joining < count
  /\ wpc[joining + 1] = "exited"
  /\ joining' = joining + 1
  /\ UNCHANGED <<pool, workers, submission, opc, history>>

Joined ==
  /\ opc = "join"
  /\ joining >= count
  /\ opc' = "joined"
  /\ UNCHANGED <<pool, workers, submission, joining, history>>
-----------------------------------------------------------------------------
Run(w) == \/ TestFlag(w) \/ ReadEnd(w) \/ CompareEnds(w)
          \/ Take(w) \/ Block(w) \/ WakeSpuriously(w) \/ FinishTask(w)

OwnerStep == Shutdown \/ NotifyAll \/ Join \/ Joined

Next == \/ \E t \in Submitter, x \in Task, create \in BOOLEAN :
             Submit(t, x, create)
        \/ \E t \in Submitter : Push(t)
        \/ \E w \in Worker : Run(w)
        \/ OwnerStep

Spec == Init /\ [][Next]_vars

\* Threads are scheduled and get the mutex in the end (no one keeps it); tasks
\* return.  Nobody has to submit a task or to shut the pool down, and nothing
\* but a notification has to wake a thread.
Fairness == /\ \A t \in Submitter : WF_vars(Push(t))
            /\ \A w \in Worker :
                 /\ WF_vars(TestFlag(w) \/ ReadEnd(w) \/ CompareEnds(w))
                 /\ WF_vars(Take(w) \/ Block(w))
                 /\ WF_vars(FinishTask(w))
            /\ WF_vars(NotifyAll \/ Join \/ Joined)

FairSpec == Spec /\ Fairness
-----------------------------------------------------------------------------
WorkerLabel == {"absent", "test", "empty", "compare", "lock", "wait", "run",
                "exited"}

\* The values the variables take: a thread exists exactly when it is counted,
\* and has a task exactly when it runs one.
TypeOK ==
  /\ count \in 0..MaxCount
  /\ queue \in Seq(Task)
  /\ popped \in Nat
  /\ startFlag \in BOOLEAN
  /\ wpc \in [Worker -> WorkerLabel]
  /\ \A w \in Worker : wpc[w] = "absent" <=> w > count
  /\ position \in [Worker -> [of : {"none", "begin", "end"}, at : Nat]]
  /\ task \in [Worker -> Task \cup {NoTask}]
  /\ \A w \in Worker : wpc[w] = "run" <=> task[w] # NoTask
  /\ submission \in [Submitter -> [task : Task \cup {NoTask}, create : BOOLEAN]]
  /\ opc \in {"submit", "notify", "join", "joined"}
  /\ joining \in 0..MaxCount
  /\ submitted \subseteq Task /\ accepted \subseteq Task
  /\ tardy \subseteq Task /\ done \subseteq Task

\* No notification is lost (197, 309): while a thread waits, every queued task
\* has a thread of its own on its way to the queue.
NoLostWakeup ==
  Waiting # {} => Len(queue) <= Cardinality({w \in Worker : wpc[w] = "lock"})

\* Every task that was accepted is in the queue once, or with one worker, or
\* has been run: none is lost or run twice (189, 313-318), also when the pool
\* grows, shuts down or is empty at that moment.
TaskPlaces(x) ==
  Cardinality({i \in DOMAIN queue : queue[i] = x})
    + Cardinality({w \in Worker : task[w] = x})
    + (IF x \in done THEN 1 ELSE 0)

TaskRunOnce ==
  \A x \in Task : TaskPlaces(x) = IF x \in accepted THEN 1 ELSE 0

\* No pending task was forgotten when waitForPendingTasks() returns (306): all
\* that was accepted has been run, unless a thread that is not the pool's own
\* pushed it behind the shutdown.
PendingIsDone == opc = "joined" => accepted \ tardy \subseteq done

\* Once waitForPendingTasks() has returned no thread is left and no pending task
\* was forgotten.  (With fewer threads than there are External ones, what two of
\* these push behind the shutdown could still add a thread to the pool.)
JoinedMeansDone ==
  /\ opc = "joined" => \A w \in Worker : wpc[w] \in {"absent", "exited"}
  /\ PendingIsDone

\* The pool never has more threads than it was built with or than there were
\* tasks for (191-195).
GrowthBounded == count <= InitCount \/ count <= Cardinality(accepted)

\* The tasks and the threads of the pool.
PoolInv == TypeOK /\ TaskRunOnce /\ GrowthBounded

\* A task that was accepted is run in the end: no waiting thread sleeps through
\* it and no thread leaves the loop over it.
AcceptedIsRun == \A x \in Task : x \in accepted \ tardy ~> x \in done

\* What waitForPendingTasks() is for (206, 297): after the shutdown it waits for
\* the pending tasks and then returns.  A thread that waits for a task is woken
\* by notify_all, finds no task, and waits again: the flag is not in the
\* predicate, and its join() never returns.
WaitReturns == opc = "join" ~> opc = "joined"
=============================================================================
