----------------------------- MODULE WaitQueue -----------------------------
(***************************************************************************)
(* The wait queue in three versions: WaitQueues/wait_queue_v1.c, and the   *)
(* one of CourseDev/section_thread_wait_queues/threadlib.c, plain or with  *)
(* the FIFO of condition variables.  Threads wait while a condition of the *)
(* application holds; the main thread sets the condition under the         *)
(* application's mutex and then signals or broadcasts.                     *)
(*                                                                         *)
(* A waiter holds the application's mutex from its test to its wait, which *)
(* is one action.  Before it locks, a signal looks without any lock at the *)
(* pointer to that mutex which the queue keeps; v1 takes the pointer back  *)
(* when nobody waits, so these are two actions.                            *)
(***************************************************************************)
EXTENDS Naturals, Sequences, FiniteSets

CONSTANTS
    Threads,        \* the waiting threads
    WqRounds        \* bound: conditions the main thread sets

VARIABLES
    version,            \* "v1", "plain" or "fifo"
    should_block,       \* the application's condition
    appln_mutex,        \* the queue keeps a pointer to the mutex
    thread_wait_count,
    fifo_thread_q,      \* the threads whose cv is in the list
    pc,                 \* where each thread and "main" is
    sets,               \* conditions main may still set
    told                \* main has broadcast since it opened

vars == <<version, should_block, appln_mutex, thread_wait_count, fifo_thread_q, pc, sets, told>>

PCs == {"start", "asleep", "woken", "ended"}
MainPCs == {"ready", "signal", "broadcast", "lock_signal", "lock_broadcast", "crashed"}

\* wait_queue_init
Init ==
    /\ version \in {"v1", "plain", "fifo"}
    /\ should_block = TRUE
    /\ appln_mutex = FALSE
    /\ thread_wait_count = 0
    /\ fifo_thread_q = <<>>
    /\ pc = [t \in Threads \cup {"main"} |-> IF t = "main" THEN "ready" ELSE "start"]
    /\ sets = WqRounds
    /\ told = FALSE

Running == pc["main"] # "crashed"
Goes(t, place) == pc' = [pc EXCEPT ![t] = place]

\* remove_glthread: the thread's own node, if it is in the list.
Without(q, t) ==
    IF \E i \in DOMAIN q : q[i] = t
    THEN LET i == CHOOSE j \in DOMAIN q : q[j] = t
         IN  SubSeq(q, 1, i - 1) \o SubSeq(q, i + 1, Len(q))
    ELSE q

-----------------------------------------------------------------------------
(* wait_queue_test_and_wait *)

\* v1: the last one takes the pointer back.
KeepsMutex(count) == version # "v1" \/ count > 0

\* The condition does not hold: the thread goes on.
TestPass(t) ==
    /\ Running /\ pc[t] = "start"
    /\ ~should_block
    /\ appln_mutex' = KeepsMutex(thread_wait_count)
    /\ Goes(t, "ended")
    /\ UNCHANGED <<version, should_block, thread_wait_count, fifo_thread_q, sets, told>>

TestBlock(t) ==
    /\ Running /\ pc[t] = "start"
    /\ should_block
    /\ appln_mutex' = TRUE
    /\ thread_wait_count' = thread_wait_count + 1
    /\ fifo_thread_q' = IF version = "fifo" THEN Append(fifo_thread_q, t) ELSE <<>>
    /\ Goes(t, "asleep")
    /\ UNCHANGED <<version, should_block, sets, told>>

\* A woken thread leaves the list, tests again and goes on.
WakePass(t) ==
    /\ Running /\ pc[t] = "woken"
    /\ ~should_block
    /\ thread_wait_count' = thread_wait_count - 1
    /\ appln_mutex' = KeepsMutex(thread_wait_count')
    /\ fifo_thread_q' = Without(fifo_thread_q, t)
    /\ Goes(t, "ended")
    /\ UNCHANGED <<version, should_block, sets, told>>

\* It tests again and waits at the end of the list.
WakeBlock(t) ==
    /\ Running /\ pc[t] = "woken"
    /\ should_block
    /\ fifo_thread_q' = IF version = "fifo" THEN Append(Without(fifo_thread_q, t), t) ELSE <<>>
    /\ Goes(t, "asleep")
    /\ UNCHANGED <<version, should_block, appln_mutex, thread_wait_count, sets, told>>

SpuriousWakeup(t) ==
    /\ pc[t] = "asleep"
    /\ Goes(t, "woken")
    /\ UNCHANGED <<version, should_block, appln_mutex, thread_wait_count, fifo_thread_q, sets, told>>

-----------------------------------------------------------------------------
(* The main thread *)

\* enable_barrier: the condition is set under the application's mutex.
SetCondition(block) ==
    /\ pc["main"] = "ready"
    /\ sets > 0
    /\ sets' = sets - 1
    /\ should_block' = block
    /\ told' = FALSE
    /\ \E call \in {"signal", "broadcast"} : Goes("main", call)
    /\ UNCHANGED <<version, appln_mutex, thread_wait_count, fifo_thread_q>>

\* wait_queue_signal, wait_queue_broadcast: nothing to do without the pointer.
LooksAtMutex(call, next) ==
    /\ pc["main"] = call
    /\ Goes("main", IF appln_mutex THEN next ELSE "ready")
    /\ told' = (call = "broadcast" /\ ~appln_mutex)
    /\ UNCHANGED <<version, should_block, appln_mutex, thread_wait_count, fifo_thread_q, sets>>

\* The pointer is read again to lock the mutex; v1 may have taken it back.
LocksNull ==
    /\ pc["main"] \in {"lock_signal", "lock_broadcast"}
    /\ ~appln_mutex
    /\ Goes("main", "crashed")
    /\ UNCHANGED <<version, should_block, appln_mutex, thread_wait_count, fifo_thread_q, sets, told>>

\* The threads one of which wait_queue_signal may wake.
Candidates ==
    IF version = "fifo"
    THEN {t \in Threads : fifo_thread_q # <<>> /\ t = Head(fifo_thread_q)}
    ELSE {t \in Threads : pc[t] = "asleep"}

\* In the FIFO the thread is taken out of the list, awake already or not.
Signal ==
    /\ pc["main"] = "lock_signal"
    /\ appln_mutex
    /\ fifo_thread_q' = IF fifo_thread_q = <<>> THEN <<>> ELSE Tail(fifo_thread_q)
    /\ \/ Candidates = {} /\ Goes("main", "ready")
       \/ \E t \in Candidates : pc' = [pc EXCEPT !["main"] = "ready", ![t] = "woken"]
    /\ UNCHANGED <<version, should_block, appln_mutex, thread_wait_count, sets, told>>

Broadcast ==
    /\ pc["main"] = "lock_broadcast"
    /\ appln_mutex
    /\ fifo_thread_q' = <<>>
    /\ told' = TRUE
    /\ pc' = [t \in DOMAIN pc |-> IF t = "main" THEN "ready"
                                  ELSE IF pc[t] = "asleep" THEN "woken" ELSE pc[t]]
    /\ UNCHANGED <<version, should_block, appln_mutex, thread_wait_count, sets>>

-----------------------------------------------------------------------------

Step(t) == TestPass(t) \/ TestBlock(t) \/ WakePass(t) \/ WakeBlock(t)
Main ==
    \/ \E block \in BOOLEAN : SetCondition(block)
    \/ LooksAtMutex("signal", "lock_signal")
    \/ LooksAtMutex("broadcast", "lock_broadcast")
    \/ LocksNull \/ Signal \/ Broadcast

\* Threads may wait for ever for a signal that main does not send.
Idle ==
    /\ \/ ~Running
       \/ pc["main"] = "ready" /\ sets = 0 /\ \A t \in Threads : pc[t] \in {"asleep", "ended"}
    /\ UNCHANGED vars

Next ==
    \/ \E t \in Threads : Step(t)
    \/ \E t \in Threads : SpuriousWakeup(t)
    \/ Main
    \/ Idle

Spec == Init /\ [][Next]_vars
FairSpec == Spec /\ WF_vars(Main) /\ \A t \in Threads : WF_vars(Step(t))

-----------------------------------------------------------------------------
(* Properties *)

TypeOK ==
    /\ version \in {"v1", "plain", "fifo"}
    /\ should_block \in BOOLEAN /\ appln_mutex \in BOOLEAN /\ told \in BOOLEAN
    /\ thread_wait_count \in 0..Cardinality(Threads)
    /\ fifo_thread_q \in Seq(Threads)
    /\ \A t \in Threads : pc[t] \in PCs
    /\ pc["main"] \in MainPCs
    /\ sets \in 0..WqRounds

\* The count is that of the threads that wait, woken ones included; the list
\* holds every thread that sleeps, once, though woken threads put themselves
\* back and signals take them out in any order.
QueueExact ==
    /\ thread_wait_count = Cardinality({t \in Threads : pc[t] \in {"asleep", "woken"}})
    /\ version = "fifo" =>
           /\ \A t \in Threads : pc[t] = "asleep" => \E i \in DOMAIN fifo_thread_q : fifo_thread_q[i] = t
           /\ \A i, j \in DOMAIN fifo_thread_q : i # j => fifo_thread_q[i] # fifo_thread_q[j]

\* Nobody sleeps on after a broadcast of an open queue, and whoever waits can
\* be reached: the queue has the pointer to the mutex.
NoLostWakeup ==
    /\ told /\ ~should_block => \A t \in Threads : pc[t] # "asleep"
    /\ thread_wait_count > 0 => appln_mutex

\* Only v1 may lock a pointer that is gone, when its last waiter leaves
\* between the two reads of a signal.
MutexThere == pc["main"] = "crashed" => version = "v1" /\ thread_wait_count = 0

\* A broadcast of an open queue releases every thread unless main goes on.
Released ==
    \A t \in Threads : told /\ ~should_block /\ pc[t] = "woken" ~> (pc[t] = "ended" \/ ~told \/ ~Running)
=============================================================================
