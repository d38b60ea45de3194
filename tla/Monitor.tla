------------------------------ MODULE Monitor ------------------------------
(***************************************************************************)
(* The monitor of ThreadSyncAdv/threadlib/threadlib.c together with the    *)
(* two priority wait queues it is built on: reader and writer threads ask  *)
(* for a resource, wait in the queue of their kind, use the resource and   *)
(* tell the monitor that they are done.                                    *)
(*                                                                         *)
(* The code between two acquisitions of monitor_talk_mutex is one action.  *)
(* A queue holds the threads that wait, those already signalled included:  *)
(* a thread takes itself out when it runs again.  Every thread sleeps on   *)
(* its own condition variable, so a signal to the first of the queue is    *)
(* lost when that thread is awake already.  The monitor frees itself, and  *)
(* nothing is modelled of what happens to freed memory afterwards.         *)
(*                                                                         *)
(* A request that is refused because of a shutdown returns like one that   *)
(* is granted, for the function is void: the client uses the resource and  *)
(* releases it, until an assert of the release fails ("aborted").          *)
(***************************************************************************)
EXTENDS Naturals, Sequences, FiniteSets

CONSTANTS
    Readers,            \* threads created with THREAD_READER
    Writers,            \* threads created with THREAD_WRITER
    n_readers_max_limit,
    n_writers_max_limit,
    strict_alternation, \* monitor_set_strict_alternation_behavior was called
    ShutsDown,          \* some thread may call monitor_shut_down
    Rounds              \* bound: requests of one thread

Threads == Readers \cup Writers
Kinds == {"reader", "writer"}

ASSUME ThreadsAssumption == IsFiniteSet(Threads) /\ Readers \cap Writers = {}
ASSUME LimitsAssumption  ==
    /\ n_readers_max_limit \in Nat \ {0}
    /\ n_writers_max_limit \in Nat \ {0}
    \* asserted by monitor_set_strict_alternation_behavior
    /\ strict_alternation => n_readers_max_limit = 1 /\ n_writers_max_limit = 1
ASSUME ClientAssumption  ==
    strict_alternation \in BOOLEAN /\ ShutsDown \in BOOLEAN /\ Rounds \in Nat

VARIABLES
    resource_status,    \* "available", or the kind of thread that uses it
    n_curr,             \* n_curr_readers and n_curr_writers, by kind
    who_last,           \* who_accessed_cs_last: a kind, or "any"
    wait_q,             \* the threads of each priority_wait_queue_head
    thread_wait_count,  \* of each wait queue
    shutdown, is_deleted,
    freed,              \* the monitor's memory has been given back
    refused,            \* some request has been refused
    pc,                 \* where each thread is
    rounds              \* requests each thread may still make

resource == <<resource_status, n_curr, who_last>>
queues == <<wait_q, thread_wait_count>>
flags == <<shutdown, is_deleted, freed, refused>>
vars == <<resource, queues, flags, pc, rounds>>

PCs == {
    "idle",     \* outside the monitor's functions and the resource
    "checked",  \* past the shutdown test, monitor_talk_mutex given back
    "refused",  \* told nothing, uses the resource without permission
    "asleep",   \* in pthread_cond_wait
    "woken",    \* woken, waits for monitor_talk_mutex
    "inside",   \* has permission, uses the resource
    "leaving",  \* released, about to look at is_deleted without the mutex
    "aborted"   \* its release has met an assert, which ends the program
    }

kind(t) == IF t \in Readers THEN "reader" ELSE "writer"
other(k) == IF k = "reader" THEN "writer" ELSE "reader"
max_limit(k) == IF k = "reader" THEN n_readers_max_limit ELSE n_writers_max_limit

Goes(t, place) == pc' = [pc EXCEPT ![t] = place]

Init ==
    /\ resource_status = "available"
    /\ n_curr = [k \in Kinds |-> 0]
    /\ who_last = "any"
    /\ wait_q = [k \in Kinds |-> <<>>]
    /\ thread_wait_count = [k \in Kinds |-> 0]
    /\ shutdown = FALSE
    /\ is_deleted = FALSE
    /\ freed = FALSE
    /\ refused = FALSE
    /\ pc = [t \in Threads |-> "idle"]
    /\ rounds = [t \in Threads |-> Rounds]

-----------------------------------------------------------------------------
(* monitor_request_access_permission *)

\* The shutdown flag is read under monitor_talk_mutex, which is then unlocked.
Request(t) ==
    /\ pc[t] = "idle"
    /\ rounds[t] > 0
    /\ rounds' = [rounds EXCEPT ![t] = @ - 1]
    /\ Goes(t, IF shutdown THEN "refused" ELSE "checked")
    /\ refused' = (refused \/ shutdown)
    /\ UNCHANGED <<resource, queues, shutdown, is_deleted, freed>>

\* Mutant: one user too many.
Available_OffByOne(k) == resource_status \in {"available", k} /\ n_curr[k] <= max_limit(k)

\* monitor_is_resource_available
Available(k) ==
    \/ /\ resource_status = "available"
       /\ n_curr[k] < max_limit(k)
       /\ strict_alternation => who_last # k
    \/ /\ resource_status = k
       /\ n_curr[k] < max_limit(k)

\* Permission is granted: one more user, and monitor_set_resource_status.
Granted(t) ==
    /\ n_curr' = [n_curr EXCEPT ![kind(t)] = @ + 1]
    /\ resource_status' = kind(t)
    /\ who_last' = kind(t)
    /\ Goes(t, "inside")

\* wait_queue_test_and_wait, first test: the resource is available.
Enter(t) ==
    /\ pc[t] = "checked"
    /\ Available(kind(t))
    /\ Granted(t)
    /\ UNCHANGED <<queues, flags, rounds>>

\* The first test fails: one more waiter, at the end of the queue.
Wait(t) ==
    /\ pc[t] = "checked"
    /\ ~Available(kind(t))
    /\ wait_q' = [wait_q EXCEPT ![kind(t)] = Append(@, t)]
    /\ thread_wait_count' = [thread_wait_count EXCEPT ![kind(t)] = @ + 1]
    /\ Goes(t, "asleep")
    /\ UNCHANGED <<resource, flags, rounds>>

\* Mutant: a woken thread takes out the first of the queue.
Without_First(q, t) == Tail(q)

\* remove_glthread: the thread's own node, wherever it is in the queue.
Without(q, t) ==
    LET i == CHOOSE j \in DOMAIN q : q[j] = t
    IN  SubSeq(q, 1, i - 1) \o SubSeq(q, i + 1, Len(q))

\* A woken thread leaves the queue, tests again and has permission.
WakeEnter(t) ==
    /\ pc[t] = "woken"
    /\ Available(kind(t))
    /\ wait_q' = [wait_q EXCEPT ![kind(t)] = Without(@, t)]
    /\ thread_wait_count' = [thread_wait_count EXCEPT ![kind(t)] = @ - 1]
    /\ Granted(t)
    /\ UNCHANGED <<flags, rounds>>

\* Mutant: counted again each time it waits.
WakeWait_CountAgain(t) ==
    /\ pc[t] = "woken"
    /\ ~Available(kind(t))
    /\ wait_q' = [wait_q EXCEPT ![kind(t)] = Append(Without(@, t), t)]
    /\ thread_wait_count' = [thread_wait_count EXCEPT ![kind(t)] = @ + 1]
    /\ Goes(t, "asleep")
    /\ UNCHANGED <<resource, flags, rounds>>

\* A woken thread leaves the queue, tests again and joins the queue's end.
WakeWait(t) ==
    /\ pc[t] = "woken"
    /\ ~Available(kind(t))
    /\ wait_q' = [wait_q EXCEPT ![kind(t)] = Append(Without(@, t), t)]
    /\ Goes(t, "asleep")
    /\ UNCHANGED <<resource, thread_wait_count, flags, rounds>>

\* POSIX lets pthread_cond_wait return without a signal.
SpuriousWakeup(t) ==
    /\ pc[t] = "asleep"
    /\ Goes(t, "woken")
    /\ UNCHANGED <<resource, queues, flags, rounds>>

-----------------------------------------------------------------------------
(* monitor_inform_resource_released *)

\* wait_queue_signal: the first of the queue, if it is not awake already.
Signalled(k) == {u \in Threads : wait_q[k] # <<>> /\ u = Head(wait_q[k]) /\ pc[u] = "asleep"}

\* wait_queue_broadcast: all of the queue.
Broadcast(k) == {u \in Threads : kind(u) = k /\ pc[u] = "asleep"}

\* Mutant: the other kind is never woken.
WokenBy_OwnKind(k, left) == IF thread_wait_count[k] > 0 THEN Signalled(k) ELSE {}

\* Whom a leaving thread of kind k wakes when left of its kind stay inside:
\* one of its own kind, or else, if it was the last, all of the other kind.
WokenBy(k, left) ==
    IF thread_wait_count[k] > 0 THEN Signalled(k)
    ELSE IF left = 0 /\ thread_wait_count[other(k)] > 0 THEN Broadcast(other(k))
    ELSE {}

\* monitor_check_and_delete_monitor, once the resource is available.
NobodyWaits == \A k \in Kinds : thread_wait_count[k] = 0

\* A client releases what it uses, with permission or without.
Uses(t) == pc[t] \in {"inside", "refused"}

\* assert(n_curr_readers), assert(n_curr_writers): nobody is counted inside.
ReleaseFails(t) ==
    /\ Uses(t)
    /\ n_curr[kind(t)] = 0
    /\ Goes(t, "aborted")
    /\ UNCHANGED <<resource, queues, flags, rounds>>

Release(t) ==
    LET k == kind(t)
        left == n_curr[k] - 1
    IN  /\ Uses(t)
        /\ n_curr[k] > 0
        /\ n_curr' = [n_curr EXCEPT ![k] = left]
        /\ resource_status' = IF left = 0 THEN "available" ELSE resource_status
        /\ is_deleted' = (is_deleted \/ (left = 0 /\ NobodyWaits))
        /\ pc' = [u \in Threads |-> IF u = t THEN "leaving"
                                    ELSE IF u \in WokenBy(k, left) THEN "woken"
                                    ELSE pc[u]]
        /\ UNCHANGED <<who_last, queues, shutdown, freed, refused, rounds>>

\* Outside the mutex: is_deleted is read and, if set, the monitor is freed.
Leave(t) ==
    /\ pc[t] = "leaving"
    /\ freed' = is_deleted
    /\ Goes(t, "idle")
    /\ UNCHANGED <<resource, queues, shutdown, is_deleted, refused, rounds>>

-----------------------------------------------------------------------------

\* monitor_shut_down
ShutDown ==
    /\ ShutsDown
    /\ ~shutdown
    /\ shutdown' = TRUE
    /\ UNCHANGED <<resource, queues, is_deleted, freed, refused, pc, rounds>>

\* The asserts of monitor_sanity_check, made by a client with the resource.
monitor_sanity_check == \A k \in Kinds : n_curr[k] <= max_limit(k)

\* A client: requests, uses and releases, over and over.
Step(t) ==
    \/ Request(t) \/ Enter(t) \/ Wait(t) \/ WakeEnter(t) \/ WakeWait(t)
    \/ Release(t) \/ ReleaseFails(t) \/ Leave(t)

\* Until the monitor is freed under its clients, or an assert has failed.
Running == ~freed /\ \A t \in Threads : pc[t] # "aborted"

\* Threads wait legitimately for ever only for the other kind to take its turn.
Done == \A t \in Threads : pc[t] = "idle" /\ rounds[t] = 0
OwnTurnOver == strict_alternation /\ resource_status = "available"
    /\ \A t \in Threads : kind(t) # who_last => pc[t] = "idle" /\ rounds[t] = 0

Finished == (~Running \/ Done \/ OwnTurnOver) /\ UNCHANGED vars

Next ==
    \/ Running /\ \E t \in Threads : Step(t)
    \/ Running /\ \E t \in Threads : SpuriousWakeup(t)
    \/ Running /\ ShutDown
    \/ Finished

Spec == Init /\ [][Next]_vars

\* Every runnable thread is scheduled again; a client releases the resource.
FairSpec == Spec /\ \A t \in Threads : WF_vars(Running /\ Step(t))

-----------------------------------------------------------------------------
(* Properties *)

Users(k) == {t \in Threads : kind(t) = k /\ pc[t] = "inside"}
Waiters(k) == {t \in Threads : kind(t) = k /\ pc[t] \in {"asleep", "woken"}}

TypeOK ==
    /\ resource_status \in Kinds \cup {"available"}
    /\ n_curr \in [Kinds -> 0..Cardinality(Threads)]
    /\ who_last \in Kinds \cup {"any"}
    /\ wait_q \in [Kinds -> Seq(Threads)]
    /\ thread_wait_count \in [Kinds -> 0..Cardinality(Threads)]
    /\ shutdown \in BOOLEAN /\ is_deleted \in BOOLEAN /\ freed \in BOOLEAN
    /\ refused \in BOOLEAN
    /\ pc \in [Threads -> PCs]
    /\ rounds \in [Threads -> 0..Rounds]

\* Each queue holds exactly the threads that wait, once each, with its length
\* as its count: a woken thread that tests again takes only itself out, in
\* whatever order they run.  Status and counters agree; and until a request is
\* refused they describe the threads inside, so that no assert of
\* monitor_inform_resource_released fails.  Who was refused takes others off
\* the count from then on.
BookkeepingExact ==
    /\ \A k \in Kinds :
           /\ {wait_q[k][i] : i \in DOMAIN wait_q[k]} = Waiters(k)
           /\ Len(wait_q[k]) = Cardinality(Waiters(k))
           /\ thread_wait_count[k] = Len(wait_q[k])
           /\ resource_status = k <=> n_curr[k] > 0
           /\ n_curr[k] <= Cardinality(Users(k))
    /\ ~refused =>
           /\ \A k \in Kinds : n_curr[k] = Cardinality(Users(k))
           /\ \A t \in Threads : pc[t] # "aborted"

\* When nobody uses the resource and a sleeping thread could have it, some
\* thread has been woken to test again.
NoLostWakeup ==
    resource_status = "available" /\ (\E t \in Threads : pc[t] = "asleep" /\ Available(kind(t)))
        => \E t \in Threads : pc[t] = "woken"

\* Status, counters and queues tell the truth and keep to the limits, and whom
\* the last one to leave wakes (monitor_inform_resource_released) is enough for
\* all who sleep.
MonitorSound == monitor_sanity_check /\ BookkeepingExact /\ NoLostWakeup

\* Every request that is not refused is granted in the end, unless the monitor
\* is gone or the release of a thread that was refused has met an assert.
RequestsGranted ==
    \A t \in Threads :
        pc[t] \in {"checked", "asleep", "woken"} ~> (pc[t] = "inside" \/ ~Running)

\* Comment of monitor_inform_resource_released: only the last thread that
\* leaves sees is_deleted, there are no concurrent threads in the monitor.
FreedByLastThread ==
    freed => \A t \in Threads : pc[t] = "idle"

\* The monitor implements the abstract readers-writers lock with its limits, up
\* to the first request that it refuses: every step until then is a step of the
\* abstract lock, or none.
Reading == [t \in Threads |-> IF t \in Users("reader") THEN 1 ELSE 0]
Writing == [t \in Threads |-> IF t \in Users("writer") THEN 1 ELSE 0]
Abstract == INSTANCE ReadersWriters WITH
    MaxReaders <- n_readers_max_limit, MaxWriters <- n_writers_max_limit,
    reading <- Reading, writing <- Writing
ImplementsReadersWriters ==
    Abstract!Init /\ [][Abstract!Next \/ refused']_<<Reading, Writing>>
=============================================================================
