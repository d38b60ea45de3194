# Verification of MultithreadingBible

TLA+ models of the synchronisation components of this repository, TLC runs that
check them on small instances, and TLAPS proofs that hold for every instance.
The code is translated, not the documentation: where a comment promises more
than the code does, a run shows the difference.

    tlc -config MC_RecMutex.cfg RecMutex  # model-check one module
    tlapm RecMutex_proofs.tla             # check its proofs

`PROJECT.json` has, for each definition that models code, the lines it models;
for each property, a mutated definition under which TLC finds it violated; and
the list of hazards with the properties that watch them.

## 1. The system

The repository accompanies a course: there is no main program but a set of
components, most of them built from `pthread_mutex_t` and `pthread_cond_t`, with
one or two demonstration programs each. `ThreadSyncAdv/threadlib/threadlib.c`
(2091 lines) collects the larger ones. `ThreadSyncAdv/threadlib/CourseDev/`
holds earlier states of that file, and `gluethread/` (an intrusive list) occurs
ten times in two versions. `CRUD/LinkedList/` is the other list of the repository.

| Component | Source | State | Operations | Module |
|---|---|---|---|---|
| Recursive mutex | `recursive_mutex/` | owner, nesting count, waiter count | lock, unlock | RecMutex |
| Readers-writers lock | `rw_locks/` | reader/writer flag, lock count, writer, two waiter counts | rd_lock, wr_lock, unlock | RwLock |
| Monitor | `threadlib.c` 1006-1480 | resource status, users by kind, two priority wait queues, shutdown, deleted | request, release, shut down | Monitor |
| Wait queue | `threadlib.c` 551-765, `WaitQueues/` | list or count of waiters, cached application mutex | test-and-wait, signal, broadcast | WaitQueue; with priorities inside Monitor |
| Thread barrier | `ThreadBarrier/`, `threadlib.c` | count, open flag | wait, signal_all | Barrier |
| Thread pool | `threadlib.c` 56-300 | pool list, per thread: semaphore, argument, thread function | insert, get, dispatch, stages 1-3 | ThreadPool |
| Assembly line | `threadlib.c` 1590-2000, `Fifo_Queue.c` | circular slots, wait list, slot of each worker, ready count, line state | push, work, move, engine cycle | AsmLine |
| CRUD manager | `ThreadSafeCruds/CrudMgr.*` | per node: nine state counters, current operation; per manager: lists of nodes by state | request and release read/write/create/delete | CrudMgr |
| Event pair | `threadlib.c` 363-427 | three semaphores | request, wait, inform | EventPair |
| Staged line | `AssemblyLine/` | a queue and a worker thread per stage, destroy flag | enqueue, stage loop, destroy | StagedLine |
| Map-reduce | `CourseDev/section_thread_map_reduce/` | mappers, wait count, reducer, in-progress flag | start, mapper done, reduce, wait | MapReduce |
| Thread pausing | `ThreadPausing/`, `CourseDev/section_thread_pause/`, `MasterSlave/` | should_pause, flags or block_status, one condition variable | pause, resume, pause point | ThreadPause |
| Traffic light | `CourseDev/.../TrafficLightProblem/` | colour per face, car lists | wait for green, change | TrafficLight |
| Lock with bias | `customizable_rw_locks/` | as rw_locks and a preference | as rw_locks | BiasedLock |
| Lock as monitor, bridge | `rw_locks/monitor/` | counts, flags that keep a kind out | lock, unlock | TurnLock |
| Vaccination centre | `rw_locks/monitor/covidVaccination/` | places by kind, waiting lists | enter, exit | Vaccination |
| First monitor | `Monitors/` | wait and use lists, one condition variable per thread | request, release | FirstMonitor |
| Semaphore | `Semaphores/sema.c`, `semaphore_strict_counter.c` | permits | wait, post | Sema |
| Dining philosophers | `DiningPhilosopherProblem/` | spoons with mutex, condition variable, user | get, release | Philosophers |
| Producers, consumers | `ProducerConsumer/` | bounded queue | fill, drain | ProdCons |
| CRUD with reference counts | `CRUD/` | object lists, reference counts | create, read, update, delete | RefCrud |
| Notification chain | `ThreadBasics/NFC/` | routing table, subscriber lists | register, notify | NotifChain |
| Lists and queues | `gluethread/`, `Fifo_Queue.c`, `Queue.c` | pointers and indices | add, remove, rotate | LinkedList, Glthread; circular queues in AsmLine and ProdCons |
| Student list with locks | `ThreadSafeCruds/student_lst.c` | list and student locks | read, update, delete | not modelled |
| Event listeners, wrappers of Threadlib | - | sockets, thread handles | receive, create, join | not modelled |
| POSIX tutorials, exercises | `ThreadBasics/`, `Deadlock/`, `Atomic/`, ... | - | - | not modelled |

**How they interact.** Applications create threads through
`thread_create`/`thread_run` and call the components directly. The pool, the
monitor, the barrier, the wait queue and the line keep their threads in
glthread lists and park them on the condition variable of the `thread_t`. The
monitor is a client of two priority wait queues: it passes its test
(`monitor_is_resource_available`) as a callback and its mutex as the mutex to
wait with. The line calls a function of the application for each worker's
work, and its start waits in a wait queue until all workers are ready. CRUD manager and application
interact in both directions: the container changes between the grant of a
create or delete and its release.

**What is hard.** Everywhere the code between two acquisitions of a mutex is
short and the difficulties lie between them:

* a woken thread competes with newcomers for the mutex, finds the world changed,
  and must wait again without being counted or listed twice;
* whom to wake is decided from counters of the waiters, which include threads
  already woken: a signal to an awake thread is lost;
* flags and owners read after the mutex is given back (`is_deleted` in the
  monitor, `thread->semaphore` in the pool, an empty line that is still moving);
* waits in an `if` instead of a loop (barrier, pool, line, `sema.c`, first
  monitor), which a spurious wake-up gets past;
* two mutexes with a gap between them (CRUD manager, staged line, traffic light);
* shutdown and destruction while threads are on their way in.

**What makes each component correct**, and where the code falls short of it.
The larger components have an abstract specification or invariants, section 3.
Of the smaller ones:

* wait queue: a thread that found the old state is reached by the signal after
  the change. `wait_queue_v1.c` gives up the pointer to the application's mutex
  with the last waiter, and a signal that has already looked at it then locks a
  null pointer (84); its demonstration's predicate does not lock the mutex that
  the comment at 38-41 asks it to return with.
* traffic light: a car that finds red is woken when its light changes. The
  light changes under the mutex of its own face (`tr_light.c` 177), the cars
  test under that of the first (58), so only cars of the first direction are
  sure of it.
* map-reduce: the reducer runs once, after all mappers, the caller returns
  after it. The number of mappers in progress is not reset, so a second start
  of the same object meets its assert (556); `map_reduce_is_in_progress` (608)
  says no between the last mapper and the reducer.
* staged line: an object passes all stages in order. A line destroyed while
  objects are on their way may lose them: a worker that has been signalled is
  not counted before it runs, and a client may be past its check (`asl.c` 147-156, 199-218).
* pausing: a paused thread stops at its next pause point, a resumed one goes
  on. `thread_resume` of `thread_pause.c` (31-36) leaves should_pause set, and
  the thread never goes on.
* lock with bias: exclusion, asserts and no lost wake-up under each preference;
  a thread that must wait where the bias leaves no room for it aborts
  (`rw_locks.c` 36-60).
* lock as monitor, bridge: one door at least is open, a shut door has a
  reason, and neither kind is kept out where the other's limit is one.
* vaccination centre: no more citizens than places. Exit takes one off the
  list (`covidVaccMonitor.c` 125) who may have to wait again and is then on no
  list.
* first monitor: the list of users is meant to be the set of users; a woken
  thread is not put on it (`monitor.c` 138-146), which two readers are enough
  to turn into a writer beside a reader.
* semaphores: a permit belongs to the waiter that was signalled, the waits are
  not repeated (`sema.c` 48). The last wait of the odd counting thread has no
  post.
* philosophers: who eats has both spoons. Line 179 locks the left spoon's mutex
  with the right one's held: if all give up at once, all of them block.
* producers and consumers: the asserts at 88 and 124 of the solution.
* reference counts: an object is freed once, after its last user.
* notification: a subscriber has the last update, if the threads come one after
  the other, which main's sleeps of a second are to bring about. No lock is
  taken (`notif.c` 43 and 75).
* lists: links agree and calls do what they do to a sequence. The ordered
  insertion into a list of one node puts a greater value first.

## 2. Plan

Done, in this order: the two locks with their abstract specifications and
proofs; monitor; barrier with proofs; pool; CRUD manager; assembly line; then
the smaller components, each in a module of its own, and two runs that take
them together; then the proofs of monitor, pool, CRUD manager, assembly line, and of
all components of MC_Sync and MC_Data; last, what each call of the two lists
does to the sequence that the links make up.

Next, the most important first:

1. CrudMgr with a second request for each thread, when a larger run is
   affordable.
2. A staged line whose stages form a tree, `rt_delete` and the deletion from
   notification chains, should they get a caller.

## 3. The modules

Common conventions:

* The code between two acquisitions of the mutex that guards a structure is one
  action: no other thread reads or writes the structure meanwhile. Where code
  works without the mutex, or takes it twice, there is one action for each part.
* `pthread_cond_wait` puts a thread to sleep in the same action; a signal or
  broadcast makes it *woken*; a woken thread then competes for the mutex with
  everybody else. `SpuriousWakeup` wakes a sleeping thread without a signal, as
  POSIX allows, and no fairness is asked of it.
* The asserts of the code are not guards. Either they are an invariant
  (`AssertsHold`), or, where the code can make them fail, the failure is an
  outcome after which the model stops (`outcome`).
* Clients are most general within the rules of the component's own users: they
  unlock what they locked, and make up to `Rounds` requests. `Finished` is the
  state in which all of that is done; it stutters, so that TLC's deadlock check
  stays on and finds every other state in which nobody can move.
* Definitions named `X_Y` before a definition `X`, marked "Mutant", are the
  ways of getting X wrong with which the properties have been tried.

### RecLock, RecMutex
`RecMutex` is `rec_mutex.c`: `n`, `locking_thread`, `n_waited` are the fields;
`waiting`/`woken` are the threads in the condition variable; `held` and `rounds`
belong to the clients. `rec_mutex_lock` is LockFree, LockAgain, LockWait (its
three cases) and WakeAcquire, WakeWait (the loop), `rec_mutex_unlock` is
UnlockInner and UnlockOuter (no signal or one). `RecLock` is what it promises:
one owner that nests.

### ReadersWriters, RwLock
`RwLock` is `rw_locks/rw_locks.c` with reader and writer threads as in
`test_custom.c`, nested locks of one kind added. RdLock, RdWait, RdWakeAcquire
and their writer counterparts are the two lock functions, UnlockInner and
UnlockLast the unlock with its broadcasts. `ReadersWriters` is the abstract
lock, with a limit for each kind; Monitor implements it too.

### Monitor
The monitor and the two priority wait queues under it. Request is the shutdown
test of `monitor_request_access_permission`; Enter, Wait, WakeEnter and WakeWait
are `wait_queue_test_and_wait` with the monitor's test; Release is
`monitor_inform_resource_released` and Leave what follows it without the mutex.
The request is a void function, so a thread that is refused because of a shutdown
("refused") cannot know it: it uses the resource and releases it like any other,
and if no thread of its kind is counted, the release meets its assert
(ReleaseFails, "aborted"). Counts, asserts and exclusion are therefore claimed
up to the first refused request (`refused`); queues, limits and wake-ups for all
behaviours. Nothing that is compiled calls `monitor_shut_down`.
A queue holds its waiters, woken ones included, each with its own condition
variable, so that a signal to an awake head is lost, as in the code.

### CyclicBarrier, Barrier
BusyWait, Join, Close are the three ways through `thread_barrier_wait`; Pass and
PassLast the return from its wait. The wait is not in a loop, so who wakes a
thread without a reason lets it through: `disturbed`, chosen in Init, says
whether somebody does (spurious wake-ups, `thread_barrier_signal_all`). An undisturbed
barrier implements CyclicBarrier; a disturbed one keeps its count and its
chain of signals.

### ThreadPool
A worker goes through stage 1 (wait or start), 2 (work) and 3 (back into the
pool, post, park). Stage 3 is split where it reads `thread->semaphore` again,
because the blocked dispatcher clears that field without the mutex (Cleanup).
The pool's order is a comparison function of the application, so any thread may
be first. A dispatch that finds the pool empty drops its work; PoolThreadsIdle says
that all threads are busy then.

### CrudMgr
`counter[n][s]` is a node's count for each of the nine states; the bit of a state
in the node's mask is "count > 0". `curr_op` is the node's current operation.
Request and Resume are the loops of `crud_request_read`, `_write` and the first
half of `_delete`, under the node's mutex; CreateRequest, CreateResume,
DeleteWait, DeleteUnmark, DeleteNoOp and DeleteGrant run under the manager's. A
granted delete leaves pending_delete (232), enters no_op (272) and then
delete_in_progress (874) under the manager's mutex only, and another request can
look at the node in between: three actions. A request that is granted between
the last two has its node deleted in use. One that tests the flags one by one
while they change can find none of them: it meets the assert(0) at 457 or 632, or
the check at 832 (RequestAborts). Both are outcomes after which the model stops.
The releases are ReleaseData, ReleaseStructure and SignalNext.

### Pipeline, AsmLine
Items lie in the slots of a circular queue and the workers go round: each looks
at its slot, works, moves one down and reports (Look, Work, Remove, Move,
Report); only the report is under the mutex. The engine starts the cycles and
puts the next waiting item in front of the first worker. A client may push
whenever it likes: into an empty line whose workers are still moving, the push
can land behind the first worker or in the way of the next item. `hasty`, chosen
in Init, says whether clients do that. `Pipeline` is a line in which items pass
all stages in order and leave in the order in which they came.

### MC_Sync, MC_Data
The components that follow have small state spaces. Two modules instantiate them
side by side: `which` says which component runs, the others stay in an initial
state, and each has the fairness of its own specification. A property of such a
module is the conjunction of one kind of property of all its components, and a
mutant in one of them is enough to break it; where the components' name is in use
elsewhere it says which (SyncTypeOK, SyncNoLostWakeup, DataTypeOK). The two linked
lists of MC_Data are put side by side in a module of their own, Lists, which
MC_Data extends.

### In MC_Sync
* **Sema** (`sema.c`): a negative counter counts the sleepers. `program` is the
  hello world with a number of permits, or the two threads that count in turns;
  `disturbed` lets waits return without a signal, and the properties are then
  not promised.
* **EventPair** (`threadlib.c` 363-427): client, server and main thread with
  three POSIX semaphores around a shared memory without a lock.
* **ThreadPause**: three structures, chosen in Init: the handshake of
  `thread_pause.c` (the caller waits until the worker has stopped), the flags of
  `section_thread_pause` (it leaves a mark), and the block_status of
  `master_slave.c`, which main sets without the mutex of the slave.
* **WaitQueue**: `version` is `wait_queue_v1.c`, the queue of
  `section_thread_wait_queues` with one condition variable, or with a list of
  them. A signal looks at the pointer to the application's mutex before it
  locks, and again later: two actions, between which v1's last waiter may leave.
* **TrafficLight**: its client. `holder` is who has the mutex of each direction;
  operator and cars lock different ones in all directions but the first.
* **Monitor** again, this time under strict alternation with a thread of
  each kind.
* **BiasedLock** (`customizable_rw_locks`): rw_locks with limits, a preference,
  and asserts that end a thread, an outcome of the model ("aborted").
* **TurnLock** (`rw_locks/monitor`): `dont_allow` are the doors that are shut;
  the client is `bridge.c`. Both locks implement ReadersWriters, with their
  limits.
* **Vaccination**: current number and waiting list of each age; exit signals the
  first of the list and takes it off.
* **FirstMonitor** (`Monitors/monitor.c`): `clients` is who makes requests at
  all, so that it can be seen with one reader, where it excludes, and with two,
  where it does not.
* **Philosophers**: every spoon has a mutex, a condition variable and a user.
  The mutexes are state (`mutex`), because one is locked with another held.
* **Barrier**, described above.
* **ProdCons**: the circular queue with front, rear and count, and the one
  mutex that a thread holds for as many elements as the queue takes or has.

### In MC_Data
* **StagedLine** (`asl.c`): queue, worker and hand of each stage. `patient`,
  chosen in Init, is a main thread that destroys the line when it is empty. The
  cancellation of a worker takes effect where it waits or prints, with whatever
  it holds.
* **MapReduce**: the caller, the mapper threads and the reducer; a failing
  assert ends the model ("aborted"). `CleanupFns` are the parts for which a
  cleanup function is registered: none in `mr_demo.c`, and only these parts are
  cleared when the caller has read the result.
* **RefCrud** (`CRUD/`): readers, updaters, creator and deleter. An address can
  be allocated again after it was freed, so that a stale pointer would show.
* **NotifChain** (`NFC`): reading the head of a list and writing it are two
  actions, for no lock is taken. A subscriber looks up twice, once by itself and
  once in the function that adds the entry (LookUp, AddOrUpdate), and holds that
  it has created the entry even if the second look-up finds one. `spaced` says
  that the threads run one after the other.
* **RwLock**, described above.
* **LinkedList** and **Glthread**: nodes with their pointers as functions, every
  call an action; `content` is the sequence a list stands for, and
  `CallsCorrect` says what the call does to it.

## 4. The runs

| Run | Instance | States | Shows |
|---|---|---|---|
| rec_mutex | 3 threads, depth 2, 2 rounds | 735 | asserts, no lost wake-up, termination, implements RecLock |
| monitor | 3 readers (limit 2), 2 writers, shutdown | 85 869 | MonitorSound: exact queues, limits, no lost wake-up; requests granted unless a refused thread's release fails; up to the first refused request, exact status and counts, implements ReadersWriters |
| thread_pool | 2 workers, 2 dispatchers, one blocked | 25 260 | WorkDoneOnce: threads in the pool are idle, work is done once, the caller is blocked until then; DispatchServed: accepted work is done, calls return |
| crud_mgr | 2 readers, writer, 2 deleters, creator; 3 nodes | 118 190 | until an assert fails or a node is deleted in use: StatesExact; AccessExclusive: exclusion on a node, one structural change of all |
| asm_line | 3 workers, 3 items, one waits | 200 304 | nothing lost, implements Pipeline, items finish |
| waiting_threads | the modules in MC_Sync, bounds below; barrier: 4 threads, threshold 3, 3 rounds | 115 403 | who goes on does so by right, nobody sleeps for nothing, two locks implement ReadersWriters, everybody is served; the barrier's count is exact, it loses no wake-up, reopens, implements CyclicBarrier |
| shared_data | the modules in MC_Data, bounds below; RwLock: 3 threads, depth 2, 2 rounds | 165 755 | nothing is lost, links and objects in use are alive, list calls are right, work ends; the lock's asserts hold, its counters are exact, it loses no wake-up, implements ReadersWriters |

Five runs state what a comment or an assert of the code promises, and TLC finds it untrue:

* **monitor_freed** (FreedByLastThread; 2 readers, 1 writer). `is_deleted` is read without the
  mutex; a thread that asks meanwhile is inside when the monitor is freed, which
  the comment at `threadlib.c` 1387 excludes.
* **thread_pool_blocking** (SemaphoreKept; two blocked dispatchers). One clears the
  semaphore of a thread that the other has dispatched meanwhile, and the other is never
  posted.
* **crud_stuck** (NobodyForgotten; 1 reader, 2 writers). A woken reader waits again in favour
  of a pending writer that nobody has woken.

* **resume_lost** (ResumedRuns; 1 controller, 2 commands). `thread_resume` of `thread_pause.c`
  signals and leaves should_pause set, so that the resumed worker waits again; the
  assert at 61 expects it to be clear.
* **map_reduce_again** (StartsPass; 2 mappers). The assert at 556 of map-reduce fails when
  the same object is started again: mappers_in_progress is set seven lines after it.

One more disagreement shows when the
monitor has strict alternation and two readers or two writers (MC_Monitor.cfg
with limits 1 and 1): the thread that leaves wakes one of its own kind, which
may not enter, and the other kind sleeps beside a free resource. `threadlib.h`
351 asks only for the limits; with one thread of each kind, as MC_Sync has it,
nothing of this happens.

**Why these bounds are enough.** Three threads of a lock are a holder, a sleeper
and a newcomer, the three roles its code distinguishes; the second round lets
a thread come back while others still wake up, depth two separates the inner
from the last unlock. The barrier has one thread more than a group, so that one is
always early for the next group, and rounds for four groups. The monitor has a
reader more than its limit and two writers, so that each queue can hold a
waiting thread behind a woken one. The pool runs empty with two dispatchers and
two workers (a dispatch then drops its work, an early return of the code), and
three dispatches each use a thread again. The CRUD manager has two entries in
each state that can have two, a delete that waits for a delete and one that
waits for a create; its threads make one request each, which is the bound most
worth raising with more memory. In the line the wait list fills up, and three
workers are the smallest line with a worker that is neither first nor last.

In waiting_threads: five users of two permits, so that a post meets several
sleepers; the counting threads go to 7, past the point where the sequence of
waits and posts repeats; the event pair exchanges until the response exceeds
16, four or more requests. Two controllers race with four commands, enough for a pause and a
resume of each. Wait queues have three threads (two sleepers and one late) and three
rounds of the condition; the strictly alternating monitor has a thread of each
kind with three requests; two cars come from each of two directions, the one
whose mutex everybody locks and another. The locks have three readers of which two may be in, and
two writers of which one may, the first monitor chooses among them. Three
citizens meet one place of each age; four philosophers make a ring in which
neighbours and opposites differ. The queue of three has three
producers and three consumers, so that every fill wraps around its end.

In shared_data: three stages (first, middle, last) and three objects; four
mappers; three addresses for two roll numbers, so that freed memory is used
again; two subscribers with two destinations each and three updates, of a new and of a
known destination; three nodes, the least number with one that is neither
first nor last, three values to order and two keys so that there are equal ones.

**Fairness.** `FairSpec` asks that a thread that can run does run (weak
fairness of each thread's steps): the code relies on the scheduler for that and
nothing else. Clients are part of it where the component's users are: a thread that
holds a lock gives it back, and one that nests its locks does not nest and
un-nest for ever (strong fairness of the last unlock in RecMutex and RwLock; all
clients of the repository take and release a bounded number of locks).
Pushing to the line, shutting the monitor down, inserting threads in the pool and spurious wake-ups are
never required to happen. Requests are granted (monitor), locks obtained
(Termination) for clients with finitely many requests: readers prefer readers
in both, so an endless stream of readers keeps a writer out, and the code
promises no more. Properties of the CRUD manager are safety only, since its
threads can sleep for ever (crud_stuck). So are those of components whose code
lets threads wait for ever: philosophers, traffic light, first monitor, biased
lock. A controller that pauses, the operator of the lights, the user who enters
updates and threads that call the lists act when they like; a worker that comes
to its pause points again and again is the loop of the demonstrations. TurnsCome
is stated for a bridge whose other direction lets one vehicle on at a time;
two vehicles that overlap may keep it for ever. AllVaccinated is stated where there is
room for all, as for the citizens of main.

## 5. The proofs

The proofs assume only what the modules assume of their constants: the threads
are a finite set, bounds are natural numbers, (RecMutex) nesting depth and
number of threads fit into 16 bits, (Barrier) the threshold is at least two,
(CrudMgr) a thread makes requests of one kind, (AsmLine) there are two workers or more.
Of the components in MC_Sync: a thread asks for one kind of lock and the limits
are at least one; the threads of a program are not called what its fixed
threads are called ("main", "worker", "odd" and "even"), NULL is neither a
thread nor a number; producers are not consumers; the event pair exchanges at
least one request, the ring has a slot, and there are two philosophers or more.
Of those in MC_Data: objects, mappers, subscribers and nodes are finite sets that do not
hold the names of the fixed threads, of the list's head, or NULL; a line has a
stage, map-reduce a mapper, the chain a subscriber.
They are about `Spec`, without fairness, for every number of threads, depth and
number of rounds.

* **RecMutex_proofs.** The inductive invariant adds Ownership to the checked
  ones: the owner alone holds locks, as many as `n` says, and a thread in the
  wait loop holds none. Without it an unlock could find a caller that is not the
  owner. WakeupTheorem rests on WaitersTheorem: the unlock signals if
  `n_waited` is not zero, and a sleeper is counted. Refinement: every step of an
  owner is a step of the abstract lock, every other step leaves it alone.
* **Data_proofs, the readers-writers lock** (which comes first in that module). `n_locks` is
  shown to be the number of *tokens*, one for each lock that a thread holds, so that adding the depths of all threads becomes
  counting a set; the two waiter counters are the sizes of the two wait loops.
  From that follows that the unlock that brings `n_locks` to zero leaves no
  holder, and that its broadcasts reach every sleeper; then exclusion, the
  asserts, the counters and the refinement.
* **Sync_proofs, the barrier** (which comes first in that module). Two facts make the checked
  invariants inductive: a thread at the barrier has a call to return from (CallsLeft), and at an open barrier
  nobody is awake unless disturbed (NobodyEarly). The chain of signals
  does not break because the thread that closes the barrier leaves
  `threshold - 1 >= 1` threads behind and every one that passes, but the last,
  leaves one: either one is awake already or its signal wakes one. NobodyEarly is what
  maps a thread that passes to the abstract Pass, never to a thread that is still
  gathering. Count and wake-up are proved of disturbed barriers too.
* **Monitor_proofs.** For each kind, the priority wait queue lists exactly the
  waiting threads of the kind, each once (QueueExact), and the status names a kind
  that is counted; until a request is refused because of a shutdown, the counter is
  the number of threads of the kind inside, afterwards it is at most that
  (UsersCounted), because a refused thread's release takes one off or fails. That is
  inductive with strict alternation or without (BookkeepingHolds), and is all that
  the limits, and up to the first refused request the asserts and the refinement
  (Implements), need: what the monitor's test lets in, the abstract lock lets in.
  That no wake-up is lost, with refused threads or without (Sound), needs the queues: the last thread to leave wakes the first of its own
  queue, or finds it awake already, or wakes all of the other queue, so that
  nobody sleeps beside a free resource unless somebody is awake to take it. With
  strict alternation that is false as soon as there are two threads of one kind
  (section 4). SoundInTurns proves it of one thread of each kind: whoever
  sleeps beside a free resource is of the kind that had it last (TurnAwaited),
  so the other is not asleep, and its turn is next (`threadlib.c` 1575-1588 runs
  the monitor like that).
* **ThreadPool_proofs.** A piece of work is in one hand: with the dispatcher, with
  one thread, or done (WorkInHand). A semaphore in `thread->semaphore`, or one
  that is up, belongs to its owner's present call, and is posted after the work
  (SemaphoreIsCurrent). WorkIsDoneOnce follows for any number of blocked callers.
  What the code does wrong with two of them, Cleanup of a field that another call has set
  meanwhile, does not touch this; it breaks SemaphoreKept, which, like TypeOK (a
  post of a null semaphore), is proved of one blocking caller.
* **CrudMgr_proofs.** `Exact(n)`: each of the nine counters of a node is the sum
  of the threads' *shares*, which are read off where every thread is; a thread
  enters a state once or twice. Every action changes the share of its own thread
  and the counters by the same amounts (WeightMoves, Settles). Two more parts
  carry exclusion: what is in the access states excludes the rest (Excludes) and
  the current operation is that of whoever has access; of the creates and
  deletes, which the manager's mutex serialises, one is granted, and its node is in the
  container or is not as the operation says (ManagerOK). The latter is not seen
  from any single node. Between pending_delete and no_op a granted delete has no share at
  all: its node is the one that may be unused and not in no_op (CountersExact). Both
  hold until an assert fails or a node is deleted in use. A thread makes requests of one kind: an assumption on the
  constants (ThreadsAssumption), as in the threads of the test programs.
* **AsmLine_proofs.** The workers go round in *lock step*: `Slot(w)`, the slot that w
  works on in this cycle whether or not it has moved on already, is the w-th
  after that of the first worker (LockStep). So no two workers share a slot, and a step
  of the engine from one cycle to the next gives every worker the slot of the one
  before it (SlotsShift). With the counts (Conserved) this gives NothingLost, hasty
  clients or not. Without them, InOrder is inductive too: `came` is what is finished,
  then what is in the slots, then what waits (Divided); the later the worker of
  a slot, the earlier its item came (Ordered); an item has as many workers
  behind it as its slot says (Staged); and the last worker leaves its slot
  empty, which is where the first worker will be in the next cycle
  (LastSlotFree, FreeAtEnd), so that the engine's assert holds. Implements maps
  the unfinished part of `came` to the abstract queue: a worker goes on
  with item k when the item before it is at a later worker.
* **Sync_proofs, the components of MC_Sync.** There is a section for each. A
  step of MC_Sync is a step of the component that runs or leaves its variables
  alone, so that what is proved of the component's own specification holds in
  MC_Sync. SyncIsTyped and GoesByRight state SyncTypeOK and RightOfWay of all of them together,
  WaitersAreReached all of SyncNoLostWakeup but the alternating monitor,
  NoWakeupIsLost the whole with one reader and one writer at that monitor.
  * *Lock with a bias, lock that takes turns*: `n_locks` is the number of threads
    in, all of the kind that has the lock, and the counters of the waiting are
    exact (BiasedHolders, BiasedWaiters, TurnHolders, TurnWaiters); the checks of
    the test programs and the refinement follow. RoomTaken is what an unlock has to
    restore for NoLostWakeup: a thread of the kind that is in sleeps only when
    those in and those already woken fill the room, so one signal for each thread
    that leaves is enough. With a bias, nobody sleeps beside a free lock, because the
    bias lets only those wait whom the last unlock wakes, until an assert fails.
    With turns, a thread may sleep at a shut door, and the door has somebody
    awake of the other kind or in (DoorsReopen): such a thread does not fall
    asleep again, for its own door is open and nobody else is in.
  * *Wait queue*: the count is the number of waiting threads (QueueCounted), and every
    sleeper is in the list, once (QueueListed). The list may also hold threads
    that woke without a signal, which is what makes this inductive. The pointer to
    the mutex is there as long as somebody waits, and always in the versions that
    do not take it back (QueueMutex).
  * *Event pair*: the turn is at one of six places, and the shared memory holds the
    request or twice the request accordingly (PairTurn).
  * *Pause*: the marks of each structure say where the worker is (flags), what
    was said last (slave), or that it never runs on (handshake).
  * *Traffic light*: whoever has tested the light holds the mutex of the first
    direction (LightInv), so no car of that direction falls asleep at green.
  * *Philosophers*: who uses a spoon is at one of the places in the code where it
    has it, and who holds a mutex gives up or releases (DiningInv). When all are
    blocked, somebody gives up, and next to whoever gives up sits another who
    does, so all do (DiningRound, for any number of philosophers: BlockedInRingOnly).
  * *Ring*: the numbers consumed are 1, 2, 3 and so on; those produced and not consumed lie in
    the slots from front to rear in this order, and the one who fills or empties
    has the mutex (RingOrder, RingTurns). FirstInFirstOut and the asserts follow
    for any length of the ring.
  * *Semaphore*: of the hello world, a permit is left or used, and a negative counter is the
    number of sleepers (HelloInv): permits, sleepers and users add up to PERMIT_COUNT. Of the
    counting threads, the calls made go round in four steps, each with its values
    of the two semaphores (StrictRound).
  * *Vaccination centre*: the count of an age is the number of its citizens inside; for each
    empty place while somebody is listed and asleep, one more is awake on its way
    (CentreAge). Somebody asleep who is on no list is out of reach of this, as
    of the code.
  * *First monitor*: sleepers are listed, and while the resource is taken somebody is
    there to release it (FirstListed, FirstHeld). With one reader the status says who
    that is, and nobody shares (FirstAlone).
  * *Monitor with strict alternation*: the theorems of Monitor_proofs, instantiated.
* **Lists_proofs.** Sequences that are put together and taken apart, on which Data_proofs rests
  too; then the two lists, by themselves.
  * *Linked list*: the links from the head make up a sequence of `node_count` different
    nodes (Chain); adding and removing, at either end or in the middle, put one node
    in and take one out (LinkIn, LinkOut). While the list is reversed, the first i of its
    nodes are turned and the others are as before (TurnsBack).
  * *Glue*: the right links make up a Chain from the head, the left links lead
    back along it, and all other nodes have none (Linked). Every insertion
    is an AddNext behind some place, every removal takes out the k-th.
  * *What the calls do* (CallsDoTheirWork states CallsCorrect): `content` is defined by a walk
    along the links; it is shown to be the Chain read from its first place
    to its last (ContentIs for the data of the linked list, HangsBehind for the nodes of
    the glue). So a node linked in behind the k-th puts one place into the sequence
    there (Grows, GlueGrows), one linked out takes out that place (Shrinks, GlueShrinks), and
    turning all nodes turns the sequence (TurnedRound, Reverses). What the code finds
    by running along the links is then the least place with some value (IsFirst): the one
    to delete, or the one before which an ordered insertion keeps the order, of the
    data (KeepsOrder, but for a list of one node, section 1) or of the keys, equal ones in the
    order in which they came (KeepsKeys). The lemmas say so of List and Glue; Data_proofs
    takes them over to MC_Data, since a step of it is one of theirs or leaves them alone.
* **Data_proofs, the components of MC_Data.**
  * *Students*: the count of each is the number of threads that use it, and one
    more while it is on the list (CrudCounted), so that the last user, who frees
    it, is alone (LastUserFrees).
  * *Map-reduce*: the mappers in progress are those that have not ended, and the
    caller, the reducer and the semaphore are in step (CallerInStep, ReducerInStep).
  * *Staged line*: there is a sequence for each stage, what the line holds from there on
    (LineDivided), from `emitted` behind the last to `accepted` at the first; each
    worker's step moves one boundary. A worker in operation is one at the top
    of its loop or with an object in hand, also one that died over it
    (LineCounted). A client pushes one object once (PushedOnce), so when main has seen
    as many leave as there are clients, the lengths leave no room for any in the line
    (LineIsEmptied), and it stays empty while it is destroyed (LinePatient).
    Content, which is computed from the end of the line, is that sequence
    (LineInOrder).
  * *Notification chain*: nothing keeps the threads apart, so the links are no sequence while
    several threads insert. But there is an order in which the entries were
    written into the head of the table, and an entry leads, or will when it
    is linked, to one before it in that order (NfcOrder): the head that a thread has
    read was written before that thread writes its own. So a walk comes
    to an earlier entry with each step and ends (WalksEnd), though it may miss
    entries. With main's sleeps, one thread is at work at a time (NfcTurns) and the
    table is its entries from the last to the first but for the one that is being put in
    (NfcTable); nothing is updated before the subscribers are through, and they know what they
    registered for (NfcKnown). That there is room for each new entry is part of it: without
    sleeps, each thread creates one at most (NfcBegun); with them, one for each destination.
  * DataIsTyped, NothingIsLost, LinksStayAlive and CallsDoTheirWork put these and the lists
    together to state the safety properties that shared_data checks.

TLC has checked the strengthenings (Holders, Ownership, CallsLeft, NobodyEarly,
IInv of the modules that have one, BiasedInv, the parts of NfcInv) on small instances before they were proved.

Model-checked only: all liveness (Termination, RequestsGranted, Reopens,
DispatchServed, ItemsFinish, AllServed, Completes), which needs fairness. Every invariant,
action property and refinement of a passing run is stated by a theorem.
SyncNoLostWakeup is checked and proved with one thread of each kind at the alternating
monitor; with more it is false, as said.

## 6. What the models leave out

* Widths of counters, where no client reaches them: `n` of the recursive mutex
  wraps after 65 535 nested locks (an assumption bounds depth and threads),
  counters of the CRUD manager have 8 bits (256 readers of one node).
* `destroy` functions of the locks, which change no field; `rw_lock_init`
  leaves `n_locks` unset, and all users have static objects.
* A reader that asks for a write lock, or the reverse: it would wait for itself.
* A monitor with a limit of zero, which admits nobody of that kind (the
  demonstration at `threadlib.c` 1507, compiled out, passes two zeros and
  would come to a halt at once).
* A barrier with threshold one (nobody would open it again) and a line with one
  worker (`Tn` is never set); no caller has them.
* Spurious wake-ups of parked pool threads and of workers of the line. Their
  waits are not loops; a pool thread would repeat its last work and be in the
  pool twice, a worker would count itself twice in a cycle. Nothing useful is
  true afterwards, and this is a limit of the results on both.
* What a freed node or monitor contains. A look-up in the CRUD application's
  container and the request that follows are one step, though a deleter may free
  the node between them; the model stops when a node is deleted in use, or when
  the assert of a release (`CrudMgr.cpp` 913) fails, both of which it reaches.
  The properties of CrudMgr are about behaviours up to there.
* An idle monitor that marks itself deleted although nobody shut it down is in
  the model. So is `monitor_shut_down`, though its only caller is compiled out;
  what a refused thread does to the threads it is inside with is in the model up
  to the failing assert, but no exclusion is claimed after it.
* Tests of `crud_node_status` flags while a granted delete changes them are a data
  race in C; the model has its outcomes (some flags seen before, some after) as RequestAborts
  and as requests granted between the changes.
* Hazards for which `PROJECT.json` names no property are reached by the models, but no
  property forbids them, because the code lets them happen: the staged line destroyed
  with objects on their way (InOrder and CleanWhenEmpty end there), entries lost from the
  routing table when its threads overlap (TableExact and Notified are about threads one
  after the other), the citizen who is on no list (AllVaccinated is about
  centres with room for all), philosophers who all give up at once, the moment in
  which a running map-reduce is not reported, the null mutex of `wait_queue_v1.c`, cars
  of all directions but the first, hasty clients of the assembly line.
* Circular-queue indices of `Fifo_Queue.c` (front and rear stay together when
  its last element leaves, line 91): the line uses sequences.
* Comparison functions of an application for the monitor's queues: with the
  default one, which all callers in the repository use, a new waiter goes to the
  end. Statistics, printing and names are left out everywhere.
* Waits that return without a signal, where one is not repeated: Sema,
  FirstMonitor and ThreadPause have them (`disturbed`), but promise little then.
* `semaphore_hello_world.c` uses the semaphore of POSIX; Sema runs it with the
  operations of `sema.c`.
* What a cancelled worker of the staged line leaves locked: the model stops at
  the failing assert, or at the use of a stage that was freed.
* `rt_delete` and deletion from a notification chain, which nothing calls, and the
  third destination of each subscriber.
* Two of the four directions of the traffic light: each of the other three is
  like the second in the model. Lights change one by one and at any time.
* The counter student_object_count; list functions that print, search or only
  set a comparison function.
* `master_slave.c`: quitting and cancelling a slave.
* `student_lst.c`: it does not compile (its look-up functions take other
  parameters). Its delete unlocks the list before it takes the student off it (157-162).
* Event listeners, wrappers of `pthread_create` and the tutorials: nothing to
  interleave beyond one call and a join. Exercises with the solution left out are
  not modelled; the course sections repeat components of the last
  `threadlib.c`.
