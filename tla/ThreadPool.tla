----------------------------- MODULE ThreadPool -----------------------------
(***************************************************************************)
(* The thread pool of ThreadSyncAdv/threadlib/threadlib.c.  A dispatcher   *)
(* takes a thread from the pool, hands it a piece of work and starts or    *)
(* wakes it; the thread does the work (stage 2), puts itself back, posts   *)
(* the semaphore of a dispatcher that waits, and parks (stage 3).          *)
(*                                                                         *)
(* The pool's order is the application's comparison function: the first    *)
(* thread is any thread.  th_pool->mutex is held during stage 3, which is  *)
(* split where it reads thread->semaphore a second time, because the       *)
(* dispatcher clears that field without the mutex.  A parked thread is     *)
(* woken by its dispatcher only.                                           *)
(***************************************************************************)
EXTENDS Naturals, FiniteSets

CONSTANTS
    Workers,        \* the thread_t objects
    Dispatchers,    \* application threads that dispatch
    Blocking,       \* those that pass block_caller
    NULL,
    Rounds          \* bound: dispatches of one dispatcher

ASSUME SetsAssumption == Blocking \subseteq Dispatchers /\ NULL \notin Dispatchers \cup Workers
ASSUME BoundAssumption == Rounds \in Nat

\* The n-th dispatch of d.
Works == Dispatchers \X (1..Rounds)

VARIABLES
    pool,       \* the threads in pool_head
    wpc,        \* where each worker is
    semaphore,  \* thread->semaphore: the dispatcher it belongs to, or NULL
    work,       \* the work in thread->arg, or NULL
    dpc,        \* where each dispatcher is
    taken,      \* the thread each dispatcher has from the pool
    posted,     \* the dispatchers whose semaphore is up
    rounds,     \* dispatches each dispatcher has begun
    executed    \* how often each piece of work was done

worker == <<wpc, work, executed>>
dispatcher == <<dpc, taken, rounds>>
vars == <<pool, semaphore, posted, worker, dispatcher>>

WPCs == {
    "outside",  \* created, not in the pool yet
    "new",      \* in the pool, no POSIX thread yet
    "running",  \* in stage 2
    "stage3",   \* waits for th_pool->mutex
    "posting",  \* has the mutex, found a semaphore to post
    "parked"    \* in pthread_cond_wait
    }
DPCs == {
    "idle",
    "dispatch", \* has a thread from the pool
    "waiting",  \* in sem_wait
    "cleanup"   \* semaphore freed, thread->semaphore not yet cleared
    }

MutexFree == \A w \in Workers : wpc[w] # "posting"

Init ==
    /\ pool = {}
    /\ wpc = [w \in Workers |-> "outside"]
    /\ semaphore = [w \in Workers |-> NULL]
    /\ work = [w \in Workers |-> NULL]
    /\ dpc = [d \in Dispatchers |-> "idle"]
    /\ taken = [d \in Dispatchers |-> NULL]
    /\ posted = {}
    /\ rounds = [d \in Dispatchers |-> 0]
    /\ executed = [k \in Works |-> 0]

\* thread_pool_insert_new_thread
InsertNew(w) ==
    /\ MutexFree
    /\ wpc[w] = "outside"
    /\ wpc' = [wpc EXCEPT ![w] = "new"]
    /\ pool' = pool \cup {w}
    /\ UNCHANGED <<semaphore, work, posted, dispatcher, executed>>

-----------------------------------------------------------------------------
(* Stage 1, in the dispatcher *)

\* thread_pool_run_thread: a POSIX thread is created the first time, and later
\* the parked one is signalled.
RunThread(place) == IF place \in {"new", "parked"} THEN "running" ELSE place

\* thread_pool_get_thread, of the thread that is first.
TakeFromPool(d, w) ==
    /\ pool' = pool \ {w}
    /\ taken' = [taken EXCEPT ![d] = w]

\* Mutant: the thread is looked at, not taken out.
GetThread_Peek(d) ==
    /\ MutexFree
    /\ dpc[d] = "idle"
    /\ rounds[d] < Rounds
    /\ rounds' = [rounds EXCEPT ![d] = @ + 1]
    /\ \/ pool = {} /\ UNCHANGED <<dpc, taken>>
       \/ \E w \in pool :
             /\ taken' = [taken EXCEPT ![d] = w]
             /\ dpc' = [dpc EXCEPT ![d] = "dispatch"]
    /\ UNCHANGED <<pool, semaphore, posted, worker>>

\* Without a thread the dispatch returns, work undone.
GetThread(d) ==
    /\ MutexFree
    /\ dpc[d] = "idle"
    /\ rounds[d] < Rounds
    /\ rounds' = [rounds EXCEPT ![d] = @ + 1]
    /\ \/ /\ pool = {}
          /\ UNCHANGED <<pool, dpc, taken>>
       \/ \E w \in pool :
             /\ TakeFromPool(d, w)
             /\ dpc' = [dpc EXCEPT ![d] = "dispatch"]
    /\ UNCHANGED <<semaphore, posted, worker>>

\* The semaphore and the work are set, and the thread is created or signalled.
Fire(d) ==
    LET w == taken[d]
    IN  /\ dpc[d] = "dispatch"
        /\ semaphore' = [semaphore EXCEPT ![w] = IF d \in Blocking THEN d ELSE NULL]
        /\ work' = [work EXCEPT ![w] = <<d, rounds[d]>>]
        /\ wpc' = [wpc EXCEPT ![w] = RunThread(@)]
        /\ dpc' = [dpc EXCEPT ![d] = IF d \in Blocking THEN "waiting" ELSE "idle"]
        /\ UNCHANGED <<pool, posted, taken, rounds, executed>>

\* sem_wait returns; the semaphore is destroyed and freed.
SemWait(d) ==
    /\ dpc[d] = "waiting"
    /\ d \in posted
    /\ posted' = posted \ {d}
    /\ dpc' = [dpc EXCEPT ![d] = "cleanup"]
    /\ UNCHANGED <<pool, semaphore, worker, taken, rounds>>

\* thread->semaphore = NULL, without the mutex.
Cleanup(d) ==
    /\ dpc[d] = "cleanup"
    /\ semaphore' = [semaphore EXCEPT ![taken[d]] = NULL]
    /\ dpc' = [dpc EXCEPT ![d] = "idle"]
    /\ UNCHANGED <<pool, posted, worker, taken, rounds>>

-----------------------------------------------------------------------------
(* Stages 2 and 3, in the worker *)

Stage2(w) ==
    /\ wpc[w] = "running"
    /\ executed' = [executed EXCEPT ![work[w]] = @ + 1]
    /\ wpc' = [wpc EXCEPT ![w] = "stage3"]
    /\ UNCHANGED <<pool, semaphore, work, posted, dispatcher>>

\* Mutants: the semaphore is not tested; not posted.
Stage3_NoTest(w) ==
    /\ MutexFree
    /\ wpc[w] = "stage3"
    /\ pool' = pool \cup {w}
    /\ wpc' = [wpc EXCEPT ![w] = "posting"]
    /\ UNCHANGED <<semaphore, work, posted, dispatcher, executed>>
Stage3_NoPost(w) ==
    /\ MutexFree
    /\ wpc[w] = "stage3"
    /\ pool' = pool \cup {w}
    /\ wpc' = [wpc EXCEPT ![w] = "parked"]
    /\ UNCHANGED <<semaphore, work, posted, dispatcher, executed>>
\* Back in the pool; with no semaphore to post the thread parks at once.
Stage3(w) ==
    /\ MutexFree
    /\ wpc[w] = "stage3"
    /\ pool' = pool \cup {w}
    /\ wpc' = [wpc EXCEPT ![w] = IF semaphore[w] = NULL THEN "parked" ELSE "posting"]
    /\ UNCHANGED <<semaphore, work, posted, dispatcher, executed>>

\* sem_post(thread->semaphore), then the thread parks and gives the mutex back.
Stage3Post(w) ==
    /\ wpc[w] = "posting"
    /\ posted' = posted \cup {semaphore[w]}
    /\ wpc' = [wpc EXCEPT ![w] = "parked"]
    /\ UNCHANGED <<pool, semaphore, work, dispatcher, executed>>

-----------------------------------------------------------------------------

WorkerStep(w) == Stage2(w) \/ Stage3(w) \/ Stage3Post(w)
DispatcherStep(d) == GetThread(d) \/ Fire(d) \/ SemWait(d) \/ Cleanup(d)

Finished ==
    /\ \A d \in Dispatchers : dpc[d] = "idle" /\ rounds[d] = Rounds
    /\ \A w \in Workers : wpc[w] \in {"new", "parked"}
    /\ UNCHANGED vars

Next ==
    \/ \E w \in Workers : InsertNew(w)
    \/ \E w \in Workers : WorkerStep(w)
    \/ \E d \in Dispatchers : DispatcherStep(d)
    \/ Finished

Spec == Init /\ [][Next]_vars

\* Runnable threads are scheduled again, and work does not take for ever.
FairSpec ==
    /\ Spec
    /\ \A w \in Workers : WF_vars(WorkerStep(w))
    /\ \A d \in Dispatchers : WF_vars(DispatcherStep(d))

-----------------------------------------------------------------------------
(* Properties *)

\* Among the rest: no sem_post of a semaphore that is NULL by now.
TypeOK ==
    /\ pool \subseteq Workers
    /\ wpc \in [Workers -> WPCs]
    /\ semaphore \in [Workers -> Dispatchers \cup {NULL}]
    /\ work \in [Workers -> Works \cup {NULL}]
    /\ dpc \in [Dispatchers -> DPCs]
    /\ taken \in [Dispatchers -> Workers \cup {NULL}]
    /\ posted \subseteq Dispatchers
    /\ rounds \in [Dispatchers -> 0..Rounds]
    /\ executed \in [Works -> Nat]

\* The work d handed over with its last accepted dispatch.
Current(d) == <<d, rounds[d]>>

\* A thread is in the pool exactly when nobody uses it: a dispatcher that takes
\* it finds it ready to be created or asleep, so the wakeup is not lost; and a
\* dispatch that finds the pool empty, whose work is dropped, finds every
\* thread inserted so far with work in hand.
PoolThreadsIdle ==
    /\ \A w \in Workers : w \in pool => wpc[w] \in {"new", "posting", "parked"}
    /\ \A w \in Workers \ pool :
           \/ wpc[w] \in {"outside", "running", "stage3"}
           \/ \E d \in Dispatchers : dpc[d] = "dispatch" /\ taken[d] = w
    /\ \A d \in Dispatchers : dpc[d] = "dispatch" =>
           /\ taken[d] \notin pool
           /\ wpc[taken[d]] \in {"new", "parked"}
    /\ \A c, d \in Dispatchers :
           dpc[c] = "dispatch" /\ dpc[d] = "dispatch" /\ taken[c] = taken[d] => c = d

\* No work is done twice.
DoneOnce == \A k \in Works : executed[k] <= 1

\* A caller that asked to be blocked goes on only when its work is done.
BlockedUntilDone == \A d \in Dispatchers : dpc[d] = "cleanup" => executed[Current(d)] = 1

\* thread_pool_dispatch_thread hands an idle thread one piece of work, which is
\* done once, before a blocked caller goes on, however stage 3 and the next
\* dispatch of the same thread interleave.
WorkDoneOnce == PoolThreadsIdle /\ DoneOnce /\ BlockedUntilDone

\* "Set up the Zero semaphore if parent thread needs to be blocked until the
\* worker thread finishes the task": while a caller waits, its thread has its
\* semaphore, or has posted it.
SemaphoreKept ==
    \A d \in Dispatchers : dpc[d] = "waiting" => d \in posted \/ semaphore[taken[d]] = d

\* Every piece of work a thread was found for is done.
WorkGetsDone ==
    \A d \in Dispatchers : \A k \in 1..Rounds :
        (dpc[d] = "dispatch" /\ rounds[d] = k) ~> executed[<<d, k>>] = 1

\* Every call returns.
CallsReturn == \A d \in Dispatchers : dpc[d] # "idle" ~> dpc[d] = "idle"

\* Dispatched work is done and its caller, blocked or not, gets away again.
DispatchServed == WorkGetsDone /\ CallsReturn
=============================================================================
