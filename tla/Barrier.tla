------------------------------- MODULE Barrier -------------------------------
(***************************************************************************)
(* The thread barrier of ThreadBarrier/threadbarrier.c, which is also that *)
(* of ThreadSyncAdv/threadlib/threadlib.c with thread_barrier_signal_all.  *)
(*                                                                         *)
(* The thread that completes a group closes the barrier and wakes one      *)
(* thread, each thread that passes wakes the next, and the last one opens  *)
(* the barrier again.  The code between two acquisitions of the mutex is   *)
(* one action.  The wait on cv is not in a loop, so whoever makes it       *)
(* return early lets a thread pass: such an environment is disturbed.      *)
(***************************************************************************)
EXTENDS Naturals, FiniteSets

CONSTANTS
    BarrierThreads, \* the threads that meet at the barrier
    threshold,      \* threshold_count
    Rounds          \* bound: barrier calls of one thread

ASSUME ThreadsAssumption == IsFiniteSet(BarrierThreads)
\* With a threshold of one nobody would open the barrier after its first use.
ASSUME ThresholdAssumption == threshold \in Nat \ {0, 1}
ASSUME BoundAssumption == Rounds \in Nat

VARIABLES
    disturbed,  \* whether somebody makes the wait on cv return early
    curr_wait_count,
    is_ready_again,
    pc,         \* where each thread is
    passed      \* barrier calls each thread has returned from

vars == <<disturbed, curr_wait_count, is_ready_again, pc, passed>>

PCs == {
    "idle",         \* outside the barrier
    "busy_asleep",  \* in pthread_cond_wait(&busy_cv)
    "busy_woken",   \* woken from it, waits for the mutex
    "asleep",       \* in pthread_cond_wait(&cv)
    "woken"         \* woken from it, waits for the mutex
    }

At(place) == {t \in BarrierThreads : pc[t] = place}

Init ==
    /\ disturbed \in BOOLEAN
    /\ curr_wait_count = 0
    /\ is_ready_again = TRUE
    /\ pc = [t \in BarrierThreads |-> "idle"]
    /\ passed = [t \in BarrierThreads |-> 0]

-----------------------------------------------------------------------------

Move(ts, place) == [t \in BarrierThreads |-> IF t \in ts THEN place ELSE pc[t]]

\* Mutant: no signal.
SignalAndReturn_NoSignal(t) == pc' = Move({t}, "idle")

\* pthread_cond_signal(&cv) and, in the same critical section, t returns.
SignalAndReturn(t) ==
    \/ /\ At("asleep") = {}
       /\ pc' = Move({t}, "idle")
    \/ \E u \in At("asleep") : pc' = [Move({t}, "idle") EXCEPT ![u] = "woken"]

Returns(t) == passed' = [passed EXCEPT ![t] = @ + 1]

Calls(t) == pc[t] = "idle" /\ passed[t] < Rounds

\* The threads of the last group have not all passed.
BusyWait(t) ==
    /\ Calls(t) \/ pc[t] = "busy_woken"
    /\ ~is_ready_again
    /\ pc' = Move({t}, "busy_asleep")
    /\ UNCHANGED <<curr_wait_count, is_ready_again, passed>>

Join(t) ==
    /\ Calls(t) \/ pc[t] = "busy_woken"
    /\ is_ready_again
    /\ curr_wait_count + 1 # threshold
    /\ curr_wait_count' = curr_wait_count + 1
    /\ pc' = Move({t}, "asleep")
    /\ UNCHANGED <<is_ready_again, passed>>

\* Mutants: the barrier stays open; the last one is counted as well.
Close_StaysOpen(t) ==
    /\ Calls(t) \/ pc[t] = "busy_woken"
    /\ is_ready_again
    /\ curr_wait_count + 1 = threshold
    /\ SignalAndReturn(t)
    /\ Returns(t)
    /\ UNCHANGED <<curr_wait_count, is_ready_again>>
Close_CountsItself(t) ==
    /\ Calls(t) \/ pc[t] = "busy_woken"
    /\ is_ready_again
    /\ curr_wait_count + 1 = threshold
    /\ curr_wait_count' = threshold
    /\ is_ready_again' = FALSE
    /\ SignalAndReturn(t)
    /\ Returns(t)

\* The last of the group closes the barrier and wakes one of the others.
Close(t) ==
    /\ Calls(t) \/ pc[t] = "busy_woken"
    /\ is_ready_again
    /\ curr_wait_count + 1 = threshold
    /\ is_ready_again' = FALSE
    /\ SignalAndReturn(t)
    /\ Returns(t)
    /\ UNCHANGED curr_wait_count

\* Back from pthread_cond_wait(&cv), others are still waiting.
Pass(t) ==
    /\ pc[t] = "woken"
    /\ curr_wait_count > 1
    /\ curr_wait_count' = curr_wait_count - 1
    /\ SignalAndReturn(t)
    /\ Returns(t)
    /\ UNCHANGED is_ready_again

\* Back from pthread_cond_wait(&cv), the last: the barrier opens again.
PassLast(t) ==
    /\ pc[t] = "woken"
    /\ curr_wait_count = 1
    /\ curr_wait_count' = 0
    /\ is_ready_again' = TRUE
    /\ pc' = [Move(At("busy_asleep"), "busy_woken") EXCEPT ![t] = "idle"]
    /\ Returns(t)

\* thread_barrier_signal_all, called by somebody outside the barrier.
SignalAll ==
    /\ disturbed
    /\ is_ready_again
    /\ curr_wait_count # 0
    /\ \E u \in At("asleep") : pc' = Move({u}, "woken")
    /\ UNCHANGED <<curr_wait_count, is_ready_again, passed>>

\* POSIX lets pthread_cond_wait return without a signal.
BusySpurious(t) ==
    /\ pc[t] = "busy_asleep"
    /\ pc' = Move({t}, "busy_woken")
    /\ UNCHANGED <<curr_wait_count, is_ready_again, passed>>
Spurious(t) ==
    /\ disturbed
    /\ pc[t] = "asleep"
    /\ pc' = Move({t}, "woken")
    /\ UNCHANGED <<curr_wait_count, is_ready_again, passed>>

-----------------------------------------------------------------------------

Step(t) == BusyWait(t) \/ Join(t) \/ Close(t) \/ Pass(t) \/ PassLast(t)

\* Too few threads are left to complete a group: the others wait for ever.
Finished ==
    /\ \A t \in BarrierThreads : pc[t] = "asleep" \/ (pc[t] = "idle" /\ passed[t] = Rounds)
    /\ Cardinality(At("asleep")) < threshold
    /\ UNCHANGED vars

Next ==
    \/ /\ UNCHANGED disturbed
       /\ \/ \E t \in BarrierThreads : Step(t)
          \/ \E t \in BarrierThreads : BusySpurious(t)
          \/ \E t \in BarrierThreads : Spurious(t)
          \/ SignalAll
    \/ Finished

Spec == Init /\ [][Next]_vars

\* Every runnable thread is scheduled again.
FairSpec == Spec /\ \A t \in BarrierThreads : WF_vars(UNCHANGED disturbed /\ Step(t))

-----------------------------------------------------------------------------
(* Properties *)

Inside == At("asleep") \cup At("woken")

TypeOK ==
    /\ disturbed \in BOOLEAN
    /\ curr_wait_count \in 0..threshold
    /\ is_ready_again \in BOOLEAN
    /\ pc \in [BarrierThreads -> PCs]
    /\ passed \in [BarrierThreads -> 0..Rounds]

\* curr_wait_count counts the threads at the barrier, woken ones included, and
\* a barrier that is open never has a full group, whatever wakes them.
CountMatches ==
    /\ curr_wait_count = Cardinality(Inside)
    /\ curr_wait_count < threshold

\* The chain of signals does not break: while the barrier is closed one of the
\* threads to pass is awake, and a thread sleeps on busy_cv only meanwhile.
NoLostWakeup ==
    /\ ~is_ready_again => At("woken") # {}
    /\ At("busy_asleep") # {} => ~is_ready_again

\* A closed barrier opens again.
Reopens == ~is_ready_again ~> is_ready_again

\* Undisturbed, the barrier implements the abstract one: nobody passes before
\* the group is complete, and a thread that calls again joins the next group.
Abstract == INSTANCE CyclicBarrier WITH Threads <- BarrierThreads,
    Parties <- threshold,
    waiting <- IF is_ready_again /\ ~disturbed THEN Inside ELSE {},
    released <- IF is_ready_again \/ disturbed THEN {} ELSE Inside
ImplementsCyclicBarrier == Abstract!Spec
=============================================================================
