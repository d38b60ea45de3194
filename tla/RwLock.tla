------------------------------- MODULE RwLock -------------------------------
(***************************************************************************)
(* The recursive readers-writers lock of rw_locks/rw_locks.c.              *)
(*                                                                         *)
(* One condition variable holds sleeping readers and writers; the last     *)
(* unlock wakes them all.  The code between two acquisitions of            *)
(* state_mutex is one action; the assert()s are the invariant AssertsHold. *)
(* A thread asks for read or write locks, nests locks of the kind it holds *)
(* and gives them all back: the lock has no upgrade and no downgrade (a    *)
(* thread that asks for the other kind waits for itself).                  *)
(***************************************************************************)
EXTENDS Naturals, FiniteSets

CONSTANTS
    LockThreads,    \* the threads sharing the lock
    NoThread,       \* writer_thread = 0
    MaxDepth,       \* bound: locks one thread nests
    Rounds          \* bound: outermost locks one thread asks for

ASSUME ThreadsAssumption == IsFiniteSet(LockThreads) /\ NoThread \notin LockThreads
ASSUME BoundsAssumption  == MaxDepth \in Nat \ {0} /\ Rounds \in Nat

VARIABLES
    n_locks,                \* locks held by all threads together
    n_reader_waiting,       \* readers inside the wait loop
    n_writer_waiting,       \* writers inside the wait loop
    is_locked_by_reader,
    is_locked_by_writer,
    writer_thread,          \* the writer, or NoThread
    asleep,                 \* threads blocked in pthread_cond_wait(&cv)
    woken,                  \* threads woken from cv, not yet back in the loop
    mode,                   \* what each thread asked for: "read", "write", "none"
    depth,                  \* locks each thread holds
    rounds                  \* outermost locks each thread may still ask for

lock == <<n_locks, is_locked_by_reader, is_locked_by_writer, writer_thread>>
waiters == <<n_reader_waiting, n_writer_waiting>>
client == <<mode, depth, rounds>>
vars == <<lock, waiters, asleep, woken, client>>

Init ==
    /\ n_locks = 0      \* not set by rw_lock_init: its users are static objects
    /\ n_reader_waiting = 0
    /\ n_writer_waiting = 0
    /\ is_locked_by_reader = FALSE
    /\ is_locked_by_writer = FALSE
    /\ writer_thread = NoThread
    /\ asleep = {}
    /\ woken = {}
    /\ mode = [t \in LockThreads |-> "none"]
    /\ depth = [t \in LockThreads |-> 0]
    /\ rounds = [t \in LockThreads |-> Rounds]

-----------------------------------------------------------------------------
(* The client: a thread starts a round as a reader or a writer, and gets a *)
(* lock.                                                                   *)

Asks(t, kind) ==
    /\ mode[t] = "none"
    /\ rounds[t] > 0
    /\ mode' = [mode EXCEPT ![t] = kind]
    /\ rounds' = [rounds EXCEPT ![t] = @ - 1]

Gets(t) == depth' = [depth EXCEPT ![t] = @ + 1]

NestsLock(t, kind) ==
    /\ mode[t] = kind
    /\ depth[t] \in 1..(MaxDepth - 1)
    /\ UNCHANGED <<mode, rounds>>

-----------------------------------------------------------------------------
(* rw_lock_rd_lock *)

\* Mutant: a reader joins whoever holds the lock.
RdLock_AnyHolder(t) ==
    /\ Asks(t, "read") \/ NestsLock(t, "read")
    /\ n_locks' = n_locks + 1
    /\ is_locked_by_reader' = TRUE
    /\ Gets(t)
    /\ UNCHANGED <<is_locked_by_writer, writer_thread, waiters, asleep, woken>>

\* Cases 1 and 2: the lock is free, or held by readers.
RdLock(t) ==
    /\ Asks(t, "read") \/ NestsLock(t, "read")
    /\ ~is_locked_by_writer
    /\ n_locks' = n_locks + 1
    /\ is_locked_by_reader' = TRUE
    /\ Gets(t)
    /\ UNCHANGED <<is_locked_by_writer, writer_thread, waiters, asleep, woken>>

\* Case 3: a writer holds the lock.
RdWait(t) ==
    /\ Asks(t, "read")
    /\ ~is_locked_by_reader
    /\ is_locked_by_writer
    /\ n_reader_waiting' = n_reader_waiting + 1
    /\ asleep' = asleep \cup {t}
    /\ UNCHANGED <<lock, n_writer_waiting, woken, depth>>

\* Mutant: n_locks++ only for the first reader.
RdWakeAcquire_FirstOnly(t) ==
    /\ t \in woken
    /\ mode[t] = "read"
    /\ ~is_locked_by_writer
    /\ n_reader_waiting' = n_reader_waiting - 1
    /\ is_locked_by_reader' = (is_locked_by_reader \/ n_locks = 0)
    /\ n_locks' = IF n_locks = 0 THEN 1 ELSE n_locks
    /\ woken' = woken \ {t}
    /\ Gets(t)
    /\ UNCHANGED <<is_locked_by_writer, writer_thread, n_writer_waiting, asleep, mode, rounds>>

\* Back from pthread_cond_wait, no writer holds the lock.
RdWakeAcquire(t) ==
    /\ t \in woken
    /\ mode[t] = "read"
    /\ ~is_locked_by_writer
    /\ n_reader_waiting' = n_reader_waiting - 1
    /\ is_locked_by_reader' = (is_locked_by_reader \/ n_locks = 0)
    /\ n_locks' = n_locks + 1
    /\ woken' = woken \ {t}
    /\ Gets(t)
    /\ UNCHANGED <<is_locked_by_writer, writer_thread, n_writer_waiting, asleep, mode, rounds>>

-----------------------------------------------------------------------------
(* rw_lock_wr_lock *)

\* Cases 1 and 2: the lock is free, or held by the caller as a writer.
WrLock(t) ==
    /\ \/ Asks(t, "write") /\ ~is_locked_by_reader /\ ~is_locked_by_writer
       \/ NestsLock(t, "write") /\ is_locked_by_writer /\ writer_thread = t
    /\ n_locks' = n_locks + 1
    /\ is_locked_by_writer' = TRUE
    /\ writer_thread' = t
    /\ Gets(t)
    /\ UNCHANGED <<is_locked_by_reader, waiters, asleep, woken>>

\* Case 3: readers or another writer hold the lock.
WrWait(t) ==
    /\ Asks(t, "write")
    /\ is_locked_by_reader \/ is_locked_by_writer
    /\ ~(is_locked_by_writer /\ writer_thread = t)
    /\ n_writer_waiting' = n_writer_waiting + 1
    /\ asleep' = asleep \cup {t}
    /\ UNCHANGED <<lock, n_reader_waiting, woken, depth>>

\* Back from pthread_cond_wait, the lock is free.
WrWakeAcquire(t) ==
    /\ t \in woken
    /\ mode[t] = "write"
    /\ ~is_locked_by_reader
    /\ ~is_locked_by_writer
    /\ n_writer_waiting' = n_writer_waiting - 1
    /\ is_locked_by_writer' = TRUE
    /\ n_locks' = n_locks + 1
    /\ writer_thread' = t
    /\ woken' = woken \ {t}
    /\ Gets(t)
    /\ UNCHANGED <<is_locked_by_reader, n_reader_waiting, asleep, mode, rounds>>

-----------------------------------------------------------------------------
(* The wait loops *)

\* Back from pthread_cond_wait, the lock is not available: the counter goes
\* down and up again, and the thread sleeps again.
WakeWait(t) ==
    /\ t \in woken
    /\ is_locked_by_writer \/ (mode[t] = "write" /\ is_locked_by_reader)
    /\ woken' = woken \ {t}
    /\ asleep' = asleep \cup {t}
    /\ UNCHANGED <<lock, waiters, client>>

\* POSIX lets pthread_cond_wait return without a signal.
SpuriousWakeup(t) ==
    /\ t \in asleep
    /\ asleep' = asleep \ {t}
    /\ woken' = woken \cup {t}
    /\ UNCHANGED <<lock, waiters, client>>

-----------------------------------------------------------------------------
(* rw_lock_unlock, called by a thread that holds the lock *)

GivesBack(t) ==
    /\ depth[t] > 0
    /\ depth' = [depth EXCEPT ![t] = @ - 1]
    /\ mode' = IF depth[t] = 1 THEN [mode EXCEPT ![t] = "none"] ELSE mode
    /\ UNCHANGED rounds

\* Other locks are left.
UnlockInner(t) ==
    /\ GivesBack(t)
    /\ n_locks > 1
    /\ n_locks' = n_locks - 1
    /\ UNCHANGED <<is_locked_by_reader, is_locked_by_writer, writer_thread, waiters, asleep, woken>>

\* Mutants: writer_thread is not reset; only sleeping readers are looked for.
UnlockLast_KeepWriter(t) ==
    /\ GivesBack(t)
    /\ n_locks = 1
    /\ n_locks' = 0
    /\ IF n_reader_waiting > 0 \/ n_writer_waiting > 0
       THEN woken' = woken \cup asleep /\ asleep' = {}
       ELSE UNCHANGED <<asleep, woken>>
    /\ IF is_locked_by_writer
       THEN is_locked_by_writer' = FALSE /\ UNCHANGED is_locked_by_reader
       ELSE is_locked_by_reader' = FALSE /\ UNCHANGED is_locked_by_writer
    /\ UNCHANGED <<writer_thread, waiters>>
UnlockLast_ReadersOnly(t) ==
    /\ GivesBack(t)
    /\ n_locks = 1
    /\ n_locks' = 0
    /\ IF n_reader_waiting > 0
       THEN woken' = woken \cup asleep /\ asleep' = {}
       ELSE UNCHANGED <<asleep, woken>>
    /\ is_locked_by_writer' = FALSE
    /\ is_locked_by_reader' = FALSE
    /\ writer_thread' = NoThread
    /\ UNCHANGED waiters

\* The last lock, of a writer (case 2) or of a reader (case 3), is given back.
UnlockLast(t) ==
    /\ GivesBack(t)
    /\ n_locks = 1
    /\ n_locks' = 0
    /\ IF n_reader_waiting > 0 \/ n_writer_waiting > 0
       THEN woken' = woken \cup asleep /\ asleep' = {}
       ELSE UNCHANGED <<asleep, woken>>
    /\ IF is_locked_by_writer
       THEN /\ is_locked_by_writer' = FALSE
            /\ writer_thread' = NoThread
            /\ UNCHANGED is_locked_by_reader
       ELSE /\ is_locked_by_reader' = FALSE
            /\ UNCHANGED <<is_locked_by_writer, writer_thread>>
    /\ UNCHANGED waiters

-----------------------------------------------------------------------------

Done == \A t \in LockThreads : mode[t] = "none" /\ rounds[t] = 0

Finished == Done /\ UNCHANGED vars

Step(t) ==
    \/ RdLock(t) \/ RdWait(t) \/ RdWakeAcquire(t)
    \/ WrLock(t) \/ WrWait(t) \/ WrWakeAcquire(t)
    \/ WakeWait(t) \/ UnlockInner(t) \/ UnlockLast(t)

Next ==
    \/ \E t \in LockThreads : Step(t)
    \/ \E t \in LockThreads : SpuriousWakeup(t)
    \/ Finished

Spec == Init /\ [][Next]_vars

\* A runnable thread is scheduled again, and leaves its critical section in
\* the end instead of nesting and un-nesting for ever.
Leaves(t) == depth[t] = 1 /\ (UnlockInner(t) \/ UnlockLast(t))
Fairness == \A t \in LockThreads : WF_vars(Step(t)) /\ SF_vars(Leaves(t))

FairSpec == Spec /\ Fairness

-----------------------------------------------------------------------------
(* Properties *)

\* One token per lock a thread holds.
Tokens == {k \in LockThreads \X (1..MaxDepth) : k[2] <= depth[k[1]]}

WaitLoop(kind) == {t \in asleep \cup woken : mode[t] = kind}

TypeOK ==
    /\ n_locks \in Nat
    /\ n_reader_waiting \in 0..Cardinality(LockThreads)
    /\ n_writer_waiting \in 0..Cardinality(LockThreads)
    /\ is_locked_by_reader \in BOOLEAN
    /\ is_locked_by_writer \in BOOLEAN
    /\ writer_thread \in LockThreads \cup {NoThread}
    /\ asleep \subseteq LockThreads
    /\ woken \subseteq LockThreads
    /\ mode \in [LockThreads -> {"none", "read", "write"}]
    /\ depth \in [LockThreads -> 0..MaxDepth]
    /\ rounds \in [LockThreads -> 0..Rounds]

\* cs_status_check of test_custom.c: readers alone, or one writer alone, are
\* between a lock and its unlock.
ReadersOrOneWriter ==
    \A t, u \in LockThreads :
        mode[t] = "write" /\ depth[t] > 0 /\ depth[u] > 0 => u = t

\* The asserts of the three functions: the flags, the owner and n_locks agree
\* whenever a thread takes state_mutex, and a holder may unlock.
AssertsHold ==
    /\ ~is_locked_by_reader /\ ~is_locked_by_writer => n_locks = 0
    /\ is_locked_by_reader \/ is_locked_by_writer => n_locks > 0
    /\ ~(is_locked_by_reader /\ is_locked_by_writer)
    /\ is_locked_by_writer <=> writer_thread # NoThread
    /\ \A t \in LockThreads :
           depth[t] > 0 => /\ n_locks > 0
                           /\ is_locked_by_writer => writer_thread = t
                           /\ is_locked_by_writer \/ is_locked_by_reader

\* n_locks counts the locks of all threads, nested ones included, so the lock
\* becomes free with the last unlock and not before.
LocksCounted == n_locks = Cardinality(Tokens)

\* The two counters are the threads inside the two wait loops, woken ones
\* included, as rw_lock_destroy's asserts take for granted.
WaitersCounted ==
    /\ n_reader_waiting = Cardinality(WaitLoop("read"))
    /\ n_writer_waiting = Cardinality(WaitLoop("write"))

\* Both together: what rw_lock_unlock and rw_lock_destroy take for granted.
CountersExact == LocksCounted /\ WaitersCounted

\* A thread sleeps only as long as the lock it asked for is not available.
NoLostWakeup ==
    \A t \in asleep : is_locked_by_writer \/ (mode[t] = "write" /\ is_locked_by_reader)

\* Every thread gets each lock it asks for and gives it back.
Termination == <>Done

\* The lock implements the abstract readers-writers lock with one writer.
Reading == [t \in LockThreads |-> IF mode[t] = "read" THEN depth[t] ELSE 0]
Writing == [t \in LockThreads |-> IF mode[t] = "write" THEN depth[t] ELSE 0]
Abstract == INSTANCE ReadersWriters WITH Threads <- LockThreads,
    MaxReaders <- Cardinality(LockThreads), MaxWriters <- 1,
    reading <- Reading, writing <- Writing
ImplementsReadersWriters == Abstract!Spec
=============================================================================
