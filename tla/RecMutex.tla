------------------------------ MODULE RecMutex ------------------------------
(***************************************************************************)
(* The recursive mutex of recursive_mutex/rec_mutex.c.                     *)
(*                                                                         *)
(* The code between two acquisitions of state_mutex is one action: nobody  *)
(* else reads or writes the structure meanwhile.  pthread_cond_wait puts   *)
(* the caller in "waiting"; a signal moves one waiter, and a spurious      *)
(* wakeup any waiter, to "woken"; a woken thread then competes for         *)
(* state_mutex with everybody else, newcomers included.  The assert()s of  *)
(* the code are the invariant AssertsHold.                                 *)
(***************************************************************************)
EXTENDS Naturals, FiniteSets

CONSTANTS
    Threads,    \* the threads sharing the mutex
    NoThread,   \* locking_thread = 0
    MaxDepth,   \* bound: locks one thread nests before it unlocks
    Rounds,     \* bound: outermost lock/unlock pairs of one thread
    CountMod    \* 2^16: n and n_waited are uint16_t

ASSUME ThreadsAssumption  == IsFiniteSet(Threads) /\ NoThread \notin Threads
ASSUME BoundsAssumption   == MaxDepth \in Nat \ {0} /\ Rounds \in Nat
ASSUME WidthAssumption    ==
    /\ CountMod \in Nat
    /\ MaxDepth < CountMod
    /\ Cardinality(Threads) < CountMod

VARIABLES
    n,              \* number of locks the owner holds
    locking_thread, \* the owner, or NoThread
    n_waited,       \* number of threads inside the wait loop
    waiting,        \* threads blocked in pthread_cond_wait(&cv)
    woken,          \* threads woken from cv, not yet back in the loop
    held,           \* locks each thread has taken and not given back
    rounds          \* outermost locks each thread may still ask for

vars == <<n, locking_thread, n_waited, waiting, woken, held, rounds>>

Init ==
    /\ n = 0
    /\ locking_thread = NoThread
    /\ n_waited = 0
    /\ waiting = {}
    /\ woken = {}
    /\ held = [t \in Threads |-> 0]
    /\ rounds = [t \in Threads |-> Rounds]

-----------------------------------------------------------------------------
(* rec_mutex_lock *)

\* A running thread that holds nothing may start a new round.
StartsRound(t) ==
    /\ t \notin waiting \cup woken
    /\ held[t] = 0
    /\ rounds[t] > 0
    /\ rounds' = [rounds EXCEPT ![t] = @ - 1]

\* The caller becomes the owner.
Take(t) ==
    /\ n' = 1
    /\ locking_thread' = t
    /\ held' = [held EXCEPT ![t] = @ + 1]

\* Mutant: the count is not looked at before the mutex is taken.
LockFree_Unchecked(t) ==
    /\ StartsRound(t)
    /\ Take(t)
    /\ UNCHANGED <<n_waited, waiting, woken>>

\* Case 1: the mutex is free.
LockFree(t) ==
    /\ StartsRound(t)
    /\ n = 0
    /\ Take(t)
    /\ UNCHANGED <<n_waited, waiting, woken>>

\* Case 2: the caller owns the mutex already.
LockAgain(t) ==
    /\ held[t] \in 1..(MaxDepth - 1)
    /\ n # 0
    /\ locking_thread = t
    /\ n' = (n + 1) % CountMod
    /\ held' = [held EXCEPT ![t] = @ + 1]
    /\ UNCHANGED <<locking_thread, n_waited, waiting, woken, rounds>>

\* Case 3: another thread owns the mutex, the caller enters the wait loop.
LockWait(t) ==
    /\ StartsRound(t)
    /\ n # 0
    /\ locking_thread \notin {t, NoThread}
    /\ n_waited' = (n_waited + 1) % CountMod
    /\ waiting' = waiting \cup {t}
    /\ UNCHANGED <<n, locking_thread, woken, held>>

\* Back from pthread_cond_wait, the loop's condition is false: take the lock.
WakeAcquire(t) ==
    /\ t \in woken
    /\ locking_thread \in {t, NoThread}
    /\ n_waited' = n_waited - 1
    /\ woken' = woken \ {t}
    /\ Take(t)
    /\ UNCHANGED <<waiting, rounds>>

\* Mutant: n_waited++ stands before the loop, not in it.
WakeWait_CountOnce(t) ==
    /\ t \in woken
    /\ locking_thread \notin {t, NoThread}
    /\ n_waited' = n_waited - 1
    /\ woken' = woken \ {t}
    /\ waiting' = waiting \cup {t}
    /\ UNCHANGED <<n, locking_thread, held, rounds>>

\* Back from pthread_cond_wait, but a newcomer owns the mutex: n_waited is
\* decremented and incremented, and the thread sleeps again.
WakeWait(t) ==
    /\ t \in woken
    /\ locking_thread \notin {t, NoThread}
    /\ woken' = woken \ {t}
    /\ waiting' = waiting \cup {t}
    /\ UNCHANGED <<n, locking_thread, n_waited, held, rounds>>

-----------------------------------------------------------------------------
(* pthread_cond_signal and spurious wakeups *)

Wake(t) ==
    /\ waiting' = waiting \ {t}
    /\ woken' = woken \cup {t}

Signal ==
    \/ waiting = {} /\ UNCHANGED <<waiting, woken>>
    \/ \E t \in waiting : Wake(t)

\* POSIX lets pthread_cond_wait return without a signal.
SpuriousWakeup(t) ==
    /\ t \in waiting
    /\ Wake(t)
    /\ UNCHANGED <<n, locking_thread, n_waited, held, rounds>>

-----------------------------------------------------------------------------
(* rec_mutex_unlock, called by a thread that has locked the mutex *)

\* Mutant: the count is not decremented.
UnlockInner_NoDecrement(t) ==
    /\ held[t] > 0
    /\ locking_thread = t
    /\ n > 1
    /\ held' = [held EXCEPT ![t] = @ - 1]
    /\ UNCHANGED <<n, locking_thread, n_waited, waiting, woken, rounds>>

\* The caller keeps the mutex: it has nested locks left.
UnlockInner(t) ==
    /\ held[t] > 0
    /\ locking_thread = t
    /\ n > 1
    /\ n' = n - 1
    /\ held' = [held EXCEPT ![t] = @ - 1]
    /\ UNCHANGED <<locking_thread, n_waited, waiting, woken, rounds>>

\* Mutants: the owner is not forgotten; off-by-one in the test of n_waited.
UnlockOuter_KeepOwner(t) ==
    /\ held[t] > 0
    /\ locking_thread = t
    /\ n = 1
    /\ n' = 0
    /\ IF n_waited > 0 THEN Signal ELSE UNCHANGED <<waiting, woken>>
    /\ held' = [held EXCEPT ![t] = @ - 1]
    /\ UNCHANGED <<locking_thread, n_waited, rounds>>
UnlockOuter_OffByOne(t) ==
    /\ held[t] > 0
    /\ locking_thread = t
    /\ n = 1
    /\ n' = 0
    /\ IF n_waited > 1 THEN Signal ELSE UNCHANGED <<waiting, woken>>
    /\ locking_thread' = NoThread
    /\ held' = [held EXCEPT ![t] = @ - 1]
    /\ UNCHANGED <<n_waited, rounds>>

\* The last lock is given back: signal a waiter, then forget the owner.
UnlockOuter(t) ==
    /\ held[t] > 0
    /\ locking_thread = t
    /\ n = 1
    /\ n' = 0
    /\ IF n_waited > 0 THEN Signal ELSE UNCHANGED <<waiting, woken>>
    /\ locking_thread' = NoThread
    /\ held' = [held EXCEPT ![t] = @ - 1]
    /\ UNCHANGED <<n_waited, rounds>>

-----------------------------------------------------------------------------

Done == \A t \in Threads : held[t] = 0 /\ rounds[t] = 0 /\ t \notin waiting \cup woken

Finished == Done /\ UNCHANGED vars

\* Everything a thread does of its own accord once it is scheduled.
Step(t) ==
    \/ LockFree(t) \/ LockAgain(t) \/ LockWait(t)
    \/ WakeAcquire(t) \/ WakeWait(t)
    \/ UnlockInner(t) \/ UnlockOuter(t)

Next ==
    \/ \E t \in Threads : Step(t)
    \/ \E t \in Threads : SpuriousWakeup(t)
    \/ Finished

Spec == Init /\ [][Next]_vars

\* A runnable thread is scheduled again; a thread does not nest and un-nest its
\* lock for ever, it leaves its critical section in the end.
Fairness == \A t \in Threads : WF_vars(Step(t)) /\ SF_vars(UnlockOuter(t))

FairSpec == Spec /\ Fairness

-----------------------------------------------------------------------------
(* Properties *)

TypeOK ==
    /\ n \in 0..MaxDepth
    /\ locking_thread \in Threads \cup {NoThread}
    /\ n_waited \in 0..Cardinality(Threads)
    /\ waiting \subseteq Threads
    /\ woken \subseteq Threads
    /\ held \in [Threads -> 0..MaxDepth]
    /\ rounds \in [Threads -> 0..Rounds]

\* Two threads are never between rec_mutex_lock and rec_mutex_unlock together,
\* whatever newcomers and woken threads do (rec_mutex_lock, cases 1 to 3).
MutualExclusion == \A t, u \in Threads : held[t] > 0 /\ held[u] > 0 => t = u

\* The asserts of rec_mutex_lock (free means no owner, a waiter that leaves
\* its loop finds the count at 0) and of rec_mutex_unlock (the caller owns a
\* locked mutex) hold whenever a thread can reach them.
AssertsHold ==
    /\ n = 0 => locking_thread = NoThread
    /\ \A t \in woken : locking_thread \in {t, NoThread} => n = 0 /\ locking_thread = NoThread
    /\ \A t \in Threads : held[t] > 0 => n > 0 /\ locking_thread = t

\* n_waited counts the threads in the wait loop, the woken ones included, so
\* that rec_mutex_destroy's assert on it fails while a waiter is still inside.
WaitersCounted == n_waited = Cardinality(waiting \cup woken)

\* A free mutex with sleepers has a woken thread that will look at it: the
\* one signal of rec_mutex_unlock is never lost to a barging newcomer.
NoLostWakeup == locking_thread = NoThread /\ waiting # {} => woken # {}

\* Every thread gets each lock it asks for and gives it back.
Termination == <>Done

\* The mutex implements the abstract recursive lock.
Abstract == INSTANCE RecLock
ImplementsRecLock == Abstract!Spec
=============================================================================
