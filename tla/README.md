# Verification of modern_cpp

The repository (`src/`) is a set of sixteen C++ files, each a self-contained
program around one component: four lock-free or thread-based message passers, a
thread pool, a timer, a logger, and re-implementations of parts of the standard
library.  There is no test suite; what the code promises is in its comments and in
the `main()` at the end of each file.  This directory holds TLA+ models of all
of these components, TLC configurations that check them on small instances, and
proofs about every component.  Numbers in parentheses are source lines.

## 1. Inventory

### Concurrent components

**MPMC_Circular_Queue** (`mpmc_circular_queue.cpp`).  State: a ring of cells,
each with an atomic `sequence_` and plain `data_`, and two atomic tickets,
`enqueue_index_` and `dequeue_index_`.  Operations: `enqueue` (25-52) and
`dequeue` (54-81), from any number of threads.  Hard: the sequence number is
checked (33) before the ticket is won (39), and the cell is written (48) before
it is published (49); between any two of these the other threads may do
anything, a whole lap included.  Correct when no two threads are in one cell's
plain data, when values come out once and in order, when `false` means full or
empty and nothing else, and when every call returns.

**CircularQueue** (`lock_free_circular_queue.cpp`).  State: `SIZE + 1` slots and
two atomic indices, each stored by one thread only.  Operations: `push`, `pop`,
`is_empty`, `is_full`; a program of two threads uses `push`, `pop` and
`is_empty` and ignores what the first two return.  Hard: each thread decides on
an index of the other that is old by the time it is used.  Correct when the
threads are never in one slot, when the queue is a FIFO, and when an answer of a
query stays good enough until the thread acts on it.

**ThreadPool** (`thread_pool.cpp`).  State: `queue_` under `mt_`, the vector of
threads and its size `count_`, the atomic `startFlag_`.  Operations:
`submitTask` in four forms (182-282), `run` in every worker (304-320),
`shutdown` (286-293) and `waitForPendingTasks` (295-301); the destructor calls
the last two.  Hard: the flag is tested outside of the mutex (185, 306), the
deque is looked at without it (306), running tasks submit tasks, the pool grows
(191-195).  Correct when no task is lost or run twice, no thread sleeps while a
task waits, and after the join all accepted tasks have been run.

**MessageProcessor** (`message_processor.cpp`).  State: `queue_` under `m_`,
`stop_`, the handler, a worker started by the first `registerHandler` through
`call_once`.  Operations: `postMessage` (134-139), `registerHandler` (146-156),
`stop` (161-165), `process` (172-205), the destructor (123-131).  Hard: `stop`
does not take the mutex; the handler runs without it and may post, register and
stop; several threads may register at once, and the creation of the worker may throw.
Correct when messages are handled once, in order, by the handler of the call that
started the one worker, and when `stop` stops.

**EventDispatcher** (`event_dispatcher.cpp`).  State: `dispatchedEvents_` under
`mt_`, the unguarded map of handlers, the runner's thread and flag, a thread per
event.  Operations: `registerEventHandler` (184-187), `dispatchEvent` (236-241),
`stop` (193-196), `run` (208-234), `handleEvent` (251-260), the destructor
(165-179).  Hard: the runner starts before its flag is initialised (204-205),
and the thread of an event refers to a local variable of the runner's loop
(228).  Correct when events are taken in order, one with a handler is handled
with its own data, and no thread outlives the dispatcher.

**TimerThread** (`timer_thread.cpp`).  State: a vector of timers under `mt_`, each
with its interval and the time of its last firing, the worker, a flag.
Operations: `registerCallback` (166-172), `start`, `run` (183-205), `isReady`
(222-240), `stop`, the destructor.  Hard: callbacks run with the mutex held; the
fire times are set without it (185); the predicate of the wait ignores the flag
(191); the elapsed time is a difference of a clock that may be set forward and back,
cut to 32 bits (230); the first call of a timer does not set the time its interval
counts from (222-226).  Correct when a one-shot timer fires once, a periodic one for
ever and not before its interval, and when the destructor returns.

**Logger** (`logger/`).  State: `filePtr`, a `MemoryMappedFile` (descriptor,
mapping, addresses, capacity) and a `SpinLock`; the files on the disk.
Operations: `setFile` (280), `log`, `write` (121), `newFile` (161), `extendFile`
(138), `commit` (192).  Hard: `open`, `mmap`, `mremap` and each `ftruncate` may fail, the
results of two `ftruncate` calls are ignored (147, 192), and
`setFile` does not take the lock.  Correct when no line is written outside of its
file, lines stay whole, none is lost without an error, and files are closed.

### Sequential components

- `shared_ptr.h`: the owners of an object and its count; an object lives as long as
  it has an owner and is freed once, through every constructor, assignment and `reset`,
  also when the owner is a member of an object that is freed.
- `variant.h`: the storage and the code of the type in it, through copies, moves,
  assignments and objects that throw; the code must tell the object.
- `any.h`: `any<SIZE>`, which keeps a value in itself, and `any<0>`, which shares
  it; a value is destroyed once and stays where it is until it is moved.
- `list.cpp`: a doubly linked list with a search from both ends; a sequence.
- `unordered_map.cpp`: a singly linked list with uninitialised links, and over it
  the buckets with rehash, both forms of erase, and iterators; a function from keys
  to values.
- `compile_time_int_to_string.cpp`: three conversions to digits; they should agree
  with decimal notation, zero included.
- `remove_continuous_duplicate_template_parameters.cpp`: a function on lists of
  types which the `static_assert`s of the file evaluate on two lists.

The `LOG` macro, the scope guard and the stream operators at the top of the
programs print and change no state of a component.  They are not modelled.

The components do not call each other.  The interactions are inside each:
threads that share a queue under a mutex and a condition variable, threads that
share atomics, callbacks (tasks, handlers, timers) that call back into the
component that runs them, and owners whose destructors join the threads.
`PROJECT.json` lists the components with their status, and the main hazards of
each at their lines with the properties that are about them.  Known and left out:
`start` called by two threads (174) in `TimerThread`; a `hardware_concurrency()` of
0 (164), a task without a future that throws (318), and the vector of threads
growing under a join (193, 298) in `ThreadPool`.

## 2. Modules

| module | models | on top of |
| --- | --- | --- |
| `BoundedQueue` | what a bounded FIFO promises | |
| `MPMCQueue` | `MPMC_Circular_Queue` | refines `BoundedQueue` |
| `MCMPMCQueue` | symmetry sets for TLC | `MPMCQueue` |
| `MPMCQueueProofs` | proofs | `MPMCQueue` |
| `SPSCQueue` | `CircularQueue` | refines `BoundedQueue` |
| `SPSCDriver` | the two loops of its program, and `main()` | `SPSCQueue` |
| `SPSCQueueProofs` | proofs about the queue and its program | `SPSCDriver` |
| `ThreadPool` | `ThreadPool` | |
| `ThreadPoolProofs` | proofs | `ThreadPool` |
| `MessageProcessor` | `MessageProcessor` | |
| `MessageProcessorProofs` | proofs | `MessageProcessor` |
| `EventDispatcher` | `EventDispatcher` | |
| `EventDispatcherProofs` | proofs | `EventDispatcher` |
| `TimerThread` | `TimerThread` and its clock | |
| `TimerThreadProofs` | proofs | `TimerThread` |
| `Logger` | `Logger`, `SpinLock` and `MemoryMappedFile` | |
| `LoggerProofs` | proofs | `Logger` |
| `List` | `List` of `list.cpp`, node by node | |
| `LinkedList` | `LinkedList` of `unordered_map.cpp`, node by node | |
| `UnorderedMap` | `UnorderedMap`, whose buckets are sequences | what `LinkedList` shows |
| `SharedPtr` | `shared_ptr` | |
| `Variant` | `variant` | |
| `Any` | `any<SIZE>` and `any<0>` | `std::shared_ptr`, external |
| `CompileTime` | the two files of templates | |
| `LibraryProofs` | proofs | the seven modules above |
| `MCLibrary` | the sequential parts side by side | the seven modules above |

Every module has one action per step that another thread can see, and `pc`-like
variables say what a thread does next.  A definition whose comment begins with
"Mutation:" is a plausible error in the definition below it; nothing uses it
except that each property is known to fail when it takes the place of the real
one.

**Memory.**  Steps interleave, each atomic access by itself.  The code asks for
less than sequential consistency in some places, and the models cover that in
part.  A relaxed load that returns an old value (28, 45, 57, 74 of the MPMC
queue) is covered as far as the old value is one of the same call: the step that
uses it may be as late as one likes, and a compare-exchange confirms it before
anything is changed.  The relaxed loads of the SPSC queue (44, 60) are of an index
that only the loading thread stores.  What is handed over is stored with release
and loaded with acquire.  Not covered: a store that becomes visible to others only
after the storing thread has gone on to the loads of its next call.

**`MPMCQueue`.**  `enqueue`: `EnqueueCall`, `EnqueueLoadIndex` (28, 45), the load
of the sequence number with its three outcomes `EnqueueCellFree` (33),
`EnqueueFull` (42) and `EnqueueBehind` (44), the compare-exchange `EnqueueWin` or
`EnqueueLose` (39; a weak one may fail for no reason), `EnqueueWrite` (48),
`EnqueuePublish` (49).  `dequeue` is the mirror image.  `Size` stands for
`QUEUE_SIZE`, a power of two of at least 2 (the `static_assert` at 16), so that `index &
mask` is `index % Size`.  The 64-bit tickets are natural numbers: they would
wrap after 2^64 calls.

**`SPSCQueue`.**  `PushCall`, the check `PushFull`/`PushHasRoom` (47), `PushWrite`
(49), `PushStore` (50); `PopCall`, `PopEmpty`/`PopHasItem` (62), `PopRead` (65),
`PopStore` (67); the two loads of a query are two actions (20: in either order).
The history variable `told` keeps the last answer a thread got.  `SPSCDriver`
conjoins the loop counters and the output of the program to these actions, and
keeps the order of the calls: a round of `pop()` asks `is_empty()` until it is
not, pops once, and shows a 0 when the pop failed.  `Items` rounds need the numbers up to
`Items` as values (`ItemsAssumption`), and nothing else of them.

**`ThreadPool`.**  What is done under `mt_` is one action: `Push` (187-198, with
the growth and the notification), `Take` and `Block` (308-316).  Outside of it:
`Submit` (the test at 185), `TestFlag`, and `ReadEnd` and `CompareEnds` for
`queue_.empty()`, which compares the two ends of a deque that others change.
`Shutdown`, `NotifyAll`, `Join` and `Joined` are the owner's.  A wait may end
without a notification (`WakeSpuriously`).  A task is a name; while it runs it
may submit others.  The forms of `submitTask` that return a future wrap the
function and call the first form.

**`MessageProcessor`.**  The mutex is explicit in one place: a worker whose
predicate was false is at "block", still holding it, until the condition
variable releases it.  `postMessage` needs the mutex, `stop` does not: `StopStore`
and `StopNotify` are two actions that may come in between.  `registerHandler` is a
call of each `Registrar`: it enters `call_once` (`EnterOnce`, external: one call at a
time, none after one that ended normally) or finds it done (`SkipOnce`), sets the
handler (149), starts the worker (150) and leaves.  `StartThrows` is the exception of
the thread's creation: the handler stays set and the next call starts over.

**`EventDispatcher`.**  `flag` may hold anything until `Construct`.  `event` is
the runner's local variable: built by `Take`, destroyed by `EndRound`, and read by
`HandleEvent` in another thread.  A dispatched event is a number, which stands for
its data.

**`TimerThread`.**  The worker holds the mutex from "walk" to the end of the walk;
`Register` needs it, and `RegisterInCallback` is a callback that waits for its own
thread ("stuck").  `ResetFireTimes` is the loop at 185, without the mutex: after a
registration at that moment (`raced`) any of the new times may be lost.
`LockAndWait` is the test of the predicate and the wait.  A timer's `prevFireTime_`
is kept as `elapsed`, its distance from now on the system clock.  `Tick` is time that
passes, `SetForward` and `SetBack` are the clock that is set: what has really passed
since `prevFireTime_` was set is kept in `waited`, and by how much the clock was set
forward since in `ahead`.  `Width` is 2^32.  An interval is 0 for `OneShot` timers and
`Interval` for the others.

**`Logger`.**  A file is a name and a part's number; on the disk it is a size and
the lines in it.  `log` holds the lock through three steps: the copy into the
mapping (`Write`), the update of the addresses (`Advance`), and what is done when
the line does not fit (`GrowByNewFile`, `GrowByExtending`).  `open`, `mmap`, `mremap` and
the `ftruncate` of a new or an extended file may fail there (`failing`), and so may the
one with which `commit()` shrinks a file that is closed (`fault`); `munmap` and `close`
are taken to succeed.  `SetFile` builds a new object and `StoreFile` destroys the old one,
both without the lock.  `causes` says what has gone wrong around the logger, so
that each property can name the cases it excepts.

**`List` and `LinkedList`** model nodes with their links and an operation as the
assignments it makes; the whole operation is one step, since one thread uses them.
In `List` the nodes of both lists are one memory, so that a node in two lists, or in
none, would be seen.  An operation takes a list with that memory (`ListOf`) and answers
with one.  `Ahead` and `Behind` are the walks over the two chains of links; `Compared` are
the rounds in which `__find()` looks at anything, one walker from each end; `Removed` is the
loop of `remove()` and `ListFilled` that of the constructors.  A list of `LinkedList` is a record with the nodes, `_head`, `_tail` and `_count`;
`Visited` is the loop over the links, one step further than there are nodes, so that a loop
in the links is seen.  `remove(data)` of the first node uses a pointer that was never set
(250): any value.

**`UnorderedMap`** uses what `LinkedList` shows, that a chain is a sequence, and that
`remove()` answers with the successor or with none.  `asked` is the function the map
should be.  `Rebuilt` and `Poured` are the two loops of `rehash()`, and `Loop` is a
loop over the map.  `misread` is set when `erase(key)` removes the first element of a bucket
and the pointer that `LinkedList` leaves unset (250) is read through.  The buckets are as many as the rehashes make them.

**`SharedPtr`.**  A holder is a variable or the member of an object, so that freeing
one object releases the next: `Releases` is what n calls of `releaseCurrent()` leave, each
made by the one before, and `Released` is where that ends.  A pointer that is
adopted while another count owns it is followed until the holders are destroyed.

**`Variant`** keeps the code and the type of the object in the storage apart, and
looks an operation up under the code the source uses: that of the variant that
is written (113, 121, 138, 147).  A stored object may throw.  The assignments lack a
`return`; the model does not follow what an optimizer makes of that.

**`Any`.**  A value is the memory it owns, so that a copy of the bytes is a second
owner of the same value.  `Steal` is the constructor from any value (223), which an
`any<0>` that is not const selects.  What the large variables own, through each other too,
is `Reached`, the smallest set that is closed under owning: a definition without recursion,
so that it can be reasoned about.

**`CompileTime`** has no steps: the conversions and `RemoveDuplicates` are recursive
functions, and every argument is an initial state.

**`MCLibrary`** chooses one of the seven sequential parts (`subject`) and lets its
operations run, in one run for all of them.  It extends the modules that the
proofs extend, so that their properties and assumptions are those of the proofs.

**`BoundedQueue`** has two actions, `Put` and `Take`.  A value is in the MPMC
queue from the compare-exchange of its producer to the one of its consumer, before it is
written and before it is read; in the SPSC queue from the store of the tail to
the read of the slot.

## 3. Runs

| run | instance | states | shows |
| --- | --- | --- | --- |
| `mpmc_safety` | 2 producers, 2 consumers, 2 cells, 2 values, tickets to 5 | 490,000 | no race on a cell; `TicketInv`; a FIFO; `false` only when full or empty |
| `mpmc_returns` | the same, 1 value, tickets to 3 | 37,000 | every call returns |
| `spsc_safety` | SIZE 2, 3 values | 340,000 | no race on a slot; answers stay true; a FIFO |
| `spsc_program` | SIZE 2, 5 rounds | 900 | shown in order, each once; the loops end |
| `pool` | 2 workers, 3 tasks, nested and outside submitters | 81,000 | no lost wakeup, no lost or repeated task, join means done, accepted tasks run |
| `pool_wait_hangs` | 1 worker, 2 tasks | violation | `waitForPendingTasks` hangs |
| `messages` | 3 posts, 2 handlers, 2 registering and 2 stopping threads | 10,500 | order, one worker with the first handler, wakeups, prompt stop |
| `dispatcher` | 2 events, 3 dispatches | 136,000 | order, no lost event, every thread joined, when the destructor returns |
| `dispatcher_data` | the same | violation | a handler gets other data |
| `timer` | 1 one-shot, 2 periodic timers, interval 2, the clock set once | 246,000 | fired once, not too soon, for ever; when the destructor returns |
| `logger` | 2 threads, 4 lines of 2 lengths, 2 files | 7,460,000 | what can damage a file; closed files without a gap, to size unless not shrunk; no lost line |
| `library` | see below | 36,000 | each sequential part, and its exceptions |

The invariants that have several parts are conjunctions of named ones: `PoolInv`
of the types, `TaskRunOnce` and `GrowthBounded`; `MessageInv` of the types,
`HandledInOrder` and `StopsPromptly`; `JoinInv` of `ThreadsAreKept` and
`DestroyedMeansJoined`; `RunnerInv` of the types, `HandledUnlessUnknown` and
`StopsPromptly`; `TimerInv` of the types and `OneShotsFireOnce`; `FileInv` of the
types, `FilesAreWhole` and `FilesAreClosed`; `TimersFire` of `RegisteredFires` and
`KeepsFiring`; `MapInv`, `ListInv`, `ChainInv` and `TemplateInv` likewise.

Why these bounds are enough for what they are meant to show:

- `mpmc_safety`: two cells and five tickets are two and a half laps, so a thread
  that went to sleep with a ticket or a sequence number of one lap wakes up in the next or the one
  after; two threads of each kind race for one ticket while two others hold the
  cells.  The proofs remove the bound.  `MaxTickets` is the only bound of the
  module, and producers that are in a call already may pass it by one each.
- `mpmc_returns`: three tickets fill the queue, leave one enqueue to find it full,
  and start the second lap.  Symmetry is not used where liveness is checked.
- `spsc_safety`: three slots, so that full, empty and in between differ; the state
  space is finite without a bound, and the indices wrap again and again.
- `spsc_program`: more rounds than room, so that pushes fail in some behaviours and
  in none in others.  In `main()` the queue has room for all.
- `pool`: with two workers and three tasks both may be busy, asleep, or one of
  each while a task is queued; a third or further worker is added by growth; every
  task can come from the owner, a running task or another thread, before, during and
  after the shutdown.
- `messages` and `dispatcher`: three items are the least for which one is handled, one is
  on its way and one is queued; the second handler is there to be refused, and the second
  registering thread to wait in `call_once` while the first one's thread fails or starts.
  `MaxPosts` and `MaxEvents` are the bounds.
- `timer`: an interval of 2 so that "too soon" and "late" differ, `Width` 8 so that a
  clock behind the last firing gives a duration longer than any interval, as with 2^32;
  `MaxElapsed` and `MaxJumps` are the bounds, and the clock waits for a timer that is
  `MaxElapsed` late.  The clock is set once, by up to an interval: forward by one half of
  it and by all of it, so that a call is early by both, and back behind the last call.  Two periodic timers, so that one is due while the other is not.
- `logger`: files of 2 bytes and lines of 1 and 3: a line that fits twice, one that
  fits into no file and needs two extensions of an empty one.  Two files, so that the second replaces the first, or is
  the same again.  `MaxLines` (4, so that a file can be filled, replaced and extended) and
  `MaxFiles` are the bounds; the proofs hold for any.
- `library`: four nodes for two lists (three for the chains), so that lists of odd and even
  length occur, and a removal at either end and in between; two and three buckets grow to six
  under four keys, two of which share a bucket; three variants of two types; two small
  and two large anys with two values each; three objects of a chain under two
  variables; lists of four elements; the numbers around each change of the number of digits.
  `MaxCount`, `MaxSize`, `MaxLength`, `Obj`, `SmallId` and `LargeId` are the bounds.

Deadlock is checked in both queues.  The other components end: the owner's
destructor is the last step, or hangs, which is what some properties are about;
and the sequential parts stop after undefined behaviour.

### Fairness

A thread that can go on is scheduled: weak fairness on the steps of `run`,
`process` and of a call in progress.  Nothing obliges anyone to call an
operation, to wake a thread spuriously, or to fail a weak compare-exchange for
ever.  Mutexes are not held while a thread is blocked elsewhere, and so weak
fairness of the step under the mutex is what a working mutex gives.  Tasks and handlers
return.  The MPMC queue needs strong fairness of a successful compare-exchange:
the algorithm is lock-free and not wait-free, one thread may lose for ever
against others, and `EveryCallReturns` says that losing is the only way not to
return.  In `TimerThread` the worker, a join that can return and the clock go on;
nothing else is fair.  `Logger` and the sequential parts have safety properties only,
and no fairness.

### Findings

Each has a run that shows it, and quotes the line of the code that says otherwise.

1. `pool_wait_hangs`: the predicate of the wait (310) ignores the flag.  A worker
   that waits when `shutdown` notifies goes back to waiting, and
   `waitForPendingTasks` never returns.
2. `dispatcher_data`: the lambda of an event's thread captures the loop's local
   variable by reference (228).

The other deviations from what an operation is for are built into properties that
hold, as the exceptions they name; so each of them says that there is no other among the
calls that are modelled (section 5 lists those that are not).

- `ThreadPool`: a busy pool does not grow.  A thread is added when more tasks are
  queued than there are threads (191), and tasks that run do not count, though
  `main()` expects a thread for a third task (353).  A task submitted by another
  thread may be queued after `shutdown` has returned, the flag being tested before
  the mutex is taken (185-187), and is then run or not (`tardy`); several of them may
  add a thread to a pool that has been joined.  `JoinedMeansDone` therefore is proved for
  no more outside threads than the pool was built with threads (`JoinedIsDone`), and its
  second part, `PendingIsDone`, for any number.
- `MessageProcessor`: `stop` notifies without the mutex (163-164), and between
  the test of the predicate and the wait it is not heard (`StopReachesWorker`).
- `EventDispatcher`: the runner is started by the initialiser of a member that is
  declared before the flag it tests (204-205), and may be gone before the first event
  (`GoneEarlyTookNothing`); `stop` notifies no one, so that the destructor of an idle
  dispatcher hangs (`DestructorEnds`).
- `TimerThread`: the destructor hangs when no timer was ever registered (191), and when a
  callback registers a timer (167, 197) (`StopReturns`); a clock that is set forward makes a call early by
  as much, a clock set back behind the last call fires a timer at once (230), and a late
  first call may be followed by the second at once, since it does not set
  `prevFireTime_` (222-226) (`NotTooSoon`).
- `Logger`: a line goes to memory that is not its file's when `setFile` overlaps a
  call of `log`, when the same file is set again, when `newFile` fails after the commit of
  the old file, or when `extendFile` ignores a failed `ftruncate` (`DamageHasCause`).
  `commit()` ignores it as well (192): a file that is closed then keeps the size it was
  mapped with, behind its lines, and nothing else goes wrong (`FileInv`).
- `List`: the search skips the middle element (338), and `insert` at the last
  position puts the element behind it (425) (`ListInv`).  `LinkedList` and
  `UnorderedMap`: the new element's iterator is that of its bucket's first (647), `_count`
  is not decreased (579), the loop over an emptied map does not end (462), and
  `erase(iterator)` skips the rest of a bucket (56, 593) (`ChainInv`, `MapInv`).  Both
  removals by value read through a pointer that was never set when the first element of the
  chain matches (250, 56); the models note it (`crashed`, `misread`) and stop there.
- `shared_ptr`: an assignment from inside the object it frees (72, 85), and a pointer taken
  twice (128) (`FreedOnlyOnce`).  `variant`: no copy is ever constructed (113, 121),
  and an assignment between types copies under the wrong type (138, 147)
  (`TellsTheTypeUntilMixed`).  `any`: a copy has the bytes (98), and a copy of an `any<0>` that is
  not const is a move (223) (`OwnedByOne`, `KeptUntilMoved`).
- `IntToStr`: 0 has no digits in two of the conversions (36, 116) (`TemplateInv`).

## 4. Proofs

All theorems hold for every value of the constants.  They rest on the
assumptions of the modules: for the MPMC queue `Size >= 2`, disjoint
producers and consumers, and `NoValue` not a value (that `Size` is a power of two
is not used: only `%` is); for the SPSC queue `Size >= 1`; for the logger a file size and
lengths of lines that are not 0; for `any`, `variant` and `shared_ptr` that variables, values and
marks differ; for `shared_ptr`, `LinkedList` and `List` that there are finitely many variables, objects
and nodes; for the map that keys are natural numbers and that it has a bucket; for the
conversions that an absolute value has 31 bits.  The bounds (`MaxTickets`, `MaxLines`,
`MaxCount`, ...) are any numbers.

**`MPMCQueueProofs`.**  `ExclusiveCellAccess` is not inductive: that two threads
do not share a cell depends on what the sequence numbers say.  `TicketInv` adds it:

- the indices are at most `Size` apart (`IndexOrder`);
- each ticket of the window of `Size` tickets from `dequeue_index` on has its cell in
  the state its sequence number says: published or being filled, free or being
  drained by the consumer of the lap before (`CellState`);
- a thread between its exchange and its store alone holds its ticket
  (`FillsOwnTicket`, `DrainsOwnTicket`);
- what was seen of a cell at line 33 or 62 still holds *if* the index has not
  moved since, that is, whenever the exchange succeeds (`CheckedCell`).

The last is the heart of the algorithm.  The proof has one lemma per action that
wins or hands over a cell, one for all that change neither indices nor sequence
numbers; their arithmetic is in a few lemmas on cells: tickets less than `Size` apart have
different cells, those `Size` apart the same.  From it follow `ExclusiveAccess`;
`EnqueueFullTheorem` and `DequeueEmptyTheorem` (a sequence number smaller than expected means
a full or an empty queue, whatever old index it was compared with); and
`QueueRefinement`, where the winning exchanges are `Put` and `Take` and all other
steps stutter, the write of a cell because the value was counted as queued already.

**`SPSCQueueProofs`.**  `RingInv` says that a check of the other thread's index
stays good enough, because that thread moves it in one direction only:
`PushHolds`, `PopHolds` for the calls, `QueriesHold` for the index a query has
loaded first, `CallsForget` for what a call has forgotten or written, and
`AnswersStay` itself.  From it follow `ExclusiveAccess`, `AnswersStayTrue` and
`FIFORefinement`; the latter through `Window`, the contents of the ring without
the remainders, and three lemmas on how it grows, shrinks and ignores a write at the tail.

The same module proves the program around the queue.  `ProgramUsesQueue`: its two loops
take only steps of `SPSCQueue`, so that all of the above holds in it.  `NumbersInOrder` is
not inductive, since a number is on its way between the push and the display:
`RisingInv` says that what was shown, what the consumer has read and what is queued are,
in this order, one rising sequence of numbers that were pushed.  A number of a failed
push leaves a gap in it.  That no 0 is ever shown needs `PopFinds`: pop() of the program
asks `is_empty()` first (101), and that answer is still true when `queue.pop()` loads the
indices, which is `AnswersStay` at work.

**`ThreadPoolProofs`.**  For any tasks, workers and submitters.  `PlaceInv` says
without counting where a task is (queued in one place, with one worker, or
done), `SubmitInv` that what is about to be pushed is nowhere yet; the counts of
`TaskRunOnce` follow (`PoolInvariant`).  `NoLostWakeup` is
inductive with them: a push adds one to the queue and one to the threads on their way
to it, a take removes one from both, and a thread waits only at an empty queue
(`WakeupsKept`).  `PendingTasksAreDone` is the delicate one: threads leave the loop
after they have compared two ends of the queue that they read at two moments (306).  `AttendInv`
gives every queued task a worker that will not leave over it: one that is yet to
test, or that has read an end of the queue behind the task.  A thread that leaves has
read the begin, and then the queue is empty now, or it has read an end before every
queued task, and then each of them has another worker: the one that pushed it
while it ran a task.  It needs a pool built with one thread at least.

`JoinedIsDone` adds that no worker is left after the joins.  A worker can only appear then
when a push makes the pool grow (191), and only outside threads push then.  Each of them
pushes at most one task behind the shutdown, the one whose flag test came before it
(`TardyInv`: the tardy tasks and the threads past the test are together no more than
the outside threads).  What is queued after the joins is tardy (`PendingIsDone`),
so that with the new task the queue is no longer than there are outside threads, hence no
longer than there are threads, which the pool never gives up (`GoneInv`): it does not
grow (`NothingGrows`).  The hypothesis `Cardinality(External) <= InitCount` is what the
code needs: with one outside thread more, the last of them may add a thread to the joined pool.

**`MessageProcessorProofs`.**  `HandledInOrder` is inductive with the types: the
messages handled, the one in hand and the queued ones are the numbers posted, in
order.  `LateInv` says where the worker is after a take behind the stop.
`FirstCallEffective` rests on `OnceInv`: one call at a time is inside `call_once`, none is
before the creation of its thread once there is a worker, and the flag and the worker
agree; none of its parts is inductive alone, nor are the types without it, since
a worker that is started must not be one that has a message in hand.

**`EventDispatcherProofs`.**  `QueueInv` (the queue holds the last events
dispatched), `KnownInv` (what had a handler has a thread), `KeptInv` and `StopInv`
are inductive together with the types; the three invariants of the run follow.

**`TimerThreadProofs`.**  `ClockInv` relates the clock of a timer to the time that has
passed: it is ahead by no more than it was set forward, unless a registration raced with
the loop at 185.  From it and the fact that a duration that is not negative survives the
cut to 32 bits, `FiresInTime`; both theorems for a clock that is set any number of times,
forward and back.

**`LoggerProofs`.**  None of the logger's three invariants is inductive: that a write
stays in its file depends on what the object knows of its mapping, and that on every earlier
call that failed.  `IInv` consists of

- `LockInv`: the thread that is in `log()` is the one that has the lock, and a copied line
  fits until the addresses are updated;
- `ObjectInv`: the objects that live are the one of `filePtr` and, during `setFile()`,
  the one about to be stored; `PartInv`: the part number of the next file is that of
  no file there is;
- `CalmInv`, as long as calls were at most refused, lines too long and files not shrunk: the mapping of a
  live object is that of a file at least as long as its capacity, the two live objects
  share no file, after growing there is room for the line (`MapInv`); the lines of its file end
  where the object thinks they do, or one line behind while its thread is between `Write` and
  `Advance` (`Reach`), no line is in two files, and each one is in a file, excused, or
  in the hand of the thread with the lock (`LineInv`);
- `OrderInv`, as long as calls were at most refused or files not shrunk (`Granted`): the files of the live objects are filled
  without a gap up to there, and open.

There is a lemma per action, for each of the calls that may fail; those on files
(`ResizedIs`, `CommittedIs`, `NewFileDiskIs`) say what `ftruncate`, `commit()` and
`newFile()` leave on the disk, and `FilledByOneMore` what a line at the end adds to a filled
file.  `DamageExplained` follows because a write is to memory outside of the file
only where `MapInv` does not hold, that is, after "overlap", "reuse" or "failed"; `LinesKept` from
`LineInv`; `FilesInOrder` is two parts of `IInv`: a file that is closed was filled when
`commit()` cut it to the length written, or left it as it was, which is no shorter.

**`LibraryProofs`.**  For `any`: `Owned`, what `OwnedByOne` says of a run without a misuse, is
inductive with the types.  The operations are of a few kinds (`OneChanges`, `OneTakes` and
`SwapStep`), with a lemma for each.  `ValuesStay` is an action property: besides the
types it needs a look at every operation on two variables: which of the two changes
(`ChangedIsGivenUp`), and that what a large variable owns is `Reached` and so is not given away
as new (`OwnedIsReached`).  For `variant`: `CodeTellsTheType` goes through every way in
which an operation sets the code and the storage, with no invariant but the types; they go apart only in the cases
that `MixedUp` names, and a lookup under the code of an empty variant finds nothing to build
(`GivenAValue`).

The other parts have loops, which are functions defined by recursion.  `Least` (every set
of natural numbers has a least element) gives `Induct`, for one set at a time, and
`Recursion`: a function whose value at a point is made from the value at a point of lower
rank exists.  With that every recursive function of the models is shown to satisfy its own definition
(the lemmas called `...Unfolds`), and what it computes follows by induction.

- `shared_ptr`: the invariant `Sound` says that every count is the number of the holders
  of its object.  It does not hold while a cascade of frees is under way: `Sound(s, D, X)` allows
  for the holders D that are gone and still point, and the objects X that have no owner
  yet.  One release (`OneReleased`) either ends the cascade or frees an object and leaves its
  member as D; an object is freed at most once, so the cascade ends within as many steps as there are
  objects (`AllReleased`).  `OwnersCounted` and `OnceFreed` follow operation by operation.
- The conversions: `ExplodedReads` shows that the digits of `explode()`, read as a number, are
  the number again; the other two conversions make the same digits (`FilledExplodes`: the
  loop of the constructor fills the array from behind).  An int has at most ten digits
  (`LengthOfInt`), so they fit.  `Runs` is what `RemoveDuplicates` leaves of a list from a position on.
- `LinkedList`: `IsChain(s, p)` says that the nodes of the sequence p are the nodes of the list,
  each once, each linked to the next.  Every operation turns a chain into a chain
  (`PushBackChain`, `RemoveChain`, ...), whatever `remove(data)` takes for the parent of the
  first node; the walk over a chain finds p (`NodesOfChain`), and so `ChainsAreWhole`.
- `UnorderedMap`: `InPlace` says that every key is in the bucket of its index, once.  The
  inner loop of `rehash()` adds the elements of one bucket (`PouredIs`), the outer one those of all
  (`RebuiltIs`), so that a rebuilt map has the same elements in the places of the new size.  The
  inductive invariant `MapIInv` adds `HoldsWhatWasAsked` and `SizeCountsErased`.  The
  iterators are ordered by bucket and position: each has the iterators `Before` it, and
  `increment()` goes to the one with one more before it (`Successor`), so that a loop meets each
  of them once (`LoopMeets`) and `erase(iterator)` answers with the next, but for its exceptions.

- `List`: `IsList(s, p)` says that the nodes p, each once, are linked to the next and to the
  one before, from `head_` to `tail_`, and that there are `length_` of them.  It is not
  inductive for one list alone: an operation on it must leave the nodes of the other as they
  are (`Frame`).  `AreLists` is the invariant: the nodes are those of two such sequences, with none in
  both.  The operations are a few assignments to links, and what each makes of a sequence is a
  lemma (`AddAtFrontIs`, `AddBetweenIs`, `TakenOutIs`, ...).  The walks find p and its
  reverse (`AheadIs`, `BehindIs`).  The walkers of `__find()` compare the first half of the
  nodes with the second (`ComparedIs`), so that only the middle of an odd number is left
  out (`FoundIs`); every round of `remove()` but the last takes one node out, so that
  there are no more rounds than nodes (`RemovedIs`).  The copy is filled by induction
  over the elements, with the list it copies in the frame (`FilledIsList`, `ListCopyStep`).

The types of the two queues and the inductive invariants `RingInv`, `ProgramInv`, `Sound`,
`MapIInv`, `AreLists`, those of the pool's shutdown and the logger's `IInv` are proved and not part of a run: the runs check
what they imply.

**Only model-checked**: liveness, which is out of the prover's reach
(`EveryCallReturns`, `EverythingShown`, `AcceptedIsRun`, `PostedIsHandled`,
`StopReachesWorker`, `DestructorEnds`, `DispatchedIsHandled`, `TimersFire`,
`StopReturns`).  Every invariant of the runs has a theorem.

## 5. What the models leave out

- Undefined behaviour beyond the choice of a value: the vector of threads growing
  under a join, the map of handlers read while it is written, a deque read while it
  is written (a read of an end gives the old or the new one), the vector of
  timers that moves under the loop at 185 (its writes are lost, or not).
- Wrap-around of the 64-bit tickets, and a timer left alone, or a clock set forward, for
  2^32 milliseconds or more, which the cut to 32 bits would make young again.
- Exceptions of a task without a future, which end the program, and of allocations.
- The futures themselves, `setAffinity`, printing; the log level, the console and the
  formatting of a line in `Logger`.
- Failures of `munmap`, `msync` and `close` in `Logger`.
- A use of an object that is being destroyed by anyone but its own threads.
- Arguments that are part of the variable they change, but for the assignment of an
  `any` from its own value (241) and the assignments of a `shared_ptr` from a member:
  `any`'s `emplace` from its own value (299-303) and its move from an `any` inside it
  (270), `variant`'s assignment and `emplace` from its own value (152-168), `List`'s
  `remove` with a reference to an element of the list (538).  Each of them
  destroys the argument first, or meanwhile, and reads it after.
- What a program does after a read through an uninitialised pointer: the models of the list and
  of the map stop there, and no property says that it does not happen, since it does.
- A property that the pool grows when its threads are busy: it does not (353), and
  `PoolInv` bounds its growth from above only.
- Iterators that a rehash invalidates: none is kept over a call.
- What does not compile or has no body: `pop_back` and `pop_front` of `List`, the move
  constructor of `LinkedList`; `sort` and `reverse`.
- What an optimizer makes of the assignments of `variant` that return nothing.

### Not modelled

The `LOG` macro, the scope guard and the stream operators: they print.  `main()` of
`MPMC_Circular_Queue` and of most programs only calls the operations in one order of
those that are modelled.  The console side of the logger prints under the same lock.

## 6. What could come next

Every component with state of its own has a module.  What is left is depth:

1. The pool's behaviour with more outside threads than workers: how many threads are
   left behind at most.
2. The loads of the MPMC queue under a weaker memory model.
