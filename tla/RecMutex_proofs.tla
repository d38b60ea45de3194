--------------------------- MODULE RecMutex_proofs ---------------------------
(***************************************************************************)
(* Proofs about the recursive mutex, for any finite set of threads, any    *)
(* nesting depth and any number of rounds.                                 *)
(***************************************************************************)
EXTENDS RecMutex, FiniteSetTheorems, TLAPS

\* The count and the owner describe what the threads hold, and the owner is
\* not in the wait loop.
Ownership ==
    /\ locking_thread = NoThread <=> n = 0
    /\ \A t \in Threads : held[t] = IF t = locking_thread THEN n ELSE 0
    /\ locking_thread \notin waiting \cup woken
    /\ waiting \cap woken = {}

IInv == TypeOK /\ Ownership /\ WaitersCounted /\ NoLostWakeup

\* Counting the threads of the wait loop: it is a finite set, one more thread
\* counts one more, and there are never more than all of them.
LEMMA WaitLoopSize ==
    ASSUME NEW S \in SUBSET Threads
    PROVE  /\ IsFiniteSet(S)
           /\ Cardinality(S) \in Nat
           /\ Cardinality(Threads) \in Nat
           /\ Cardinality(S) <= Cardinality(Threads)
           /\ \A t \in Threads :
                  /\ t \notin S => Cardinality(S \cup {t}) = Cardinality(S) + 1
                  /\ t \in S => Cardinality(S \ {t}) = Cardinality(S) - 1
<1>1. IsFiniteSet(S) /\ Cardinality(S) <= Cardinality(Threads)
  BY ThreadsAssumption, FS_Subset
<1>2. Cardinality(S) \in Nat /\ Cardinality(Threads) \in Nat
  BY <1>1, ThreadsAssumption, FS_CardinalityType
<1>3. \A t \in Threads :
          /\ t \notin S => Cardinality(S \cup {t}) = Cardinality(S) + 1
          /\ t \in S => Cardinality(S \ {t}) = Cardinality(S) - 1
  BY <1>1, FS_AddElement, FS_RemoveElement
<1> QED BY <1>1, <1>2, <1>3

\* A uint16_t that stays below 2^16 does not wrap.
LEMMA NoWrap ==
    ASSUME NEW k \in Nat, k < CountMod
    PROVE  k % CountMod = k
BY WidthAssumption

LEMMA InitEstablishes == Init => IInv
<1> SUFFICES ASSUME Init PROVE IInv
  OBVIOUS
<1>1. Cardinality({}) = 0
  BY FS_EmptySet
<1>2. Cardinality(Threads) \in Nat
  BY WaitLoopSize
<1>3. TypeOK
  BY <1>2, BoundsAssumption, ThreadsAssumption DEF Init, TypeOK
<1>4. Ownership
  BY ThreadsAssumption DEF Init, Ownership
<1>5. WaitersCounted /\ NoLostWakeup
  BY <1>1 DEF Init, WaitersCounted, NoLostWakeup
<1> QED BY <1>3, <1>4, <1>5 DEF IInv

\* A thread that enters or leaves a wait loop or takes the mutex.
LEMMA LockKeeps ==
    ASSUME IInv, NEW t \in Threads,
           LockFree(t) \/ LockAgain(t) \/ LockWait(t)
    PROVE  IInv'
<1> USE ThreadsAssumption, BoundsAssumption DEF IInv, TypeOK, Ownership
<1>1. CASE LockFree(t)
  <2>1. TypeOK' /\ Ownership'
    BY <1>1, WaitLoopSize DEF LockFree, StartsRound, Take
  <2>2. WaitersCounted' /\ NoLostWakeup'
    BY <1>1 DEF LockFree, Take, WaitersCounted, NoLostWakeup
  <2> QED BY <2>1, <2>2
<1>2. CASE LockAgain(t)
  <2>1. held[t] = n /\ n + 1 \in 1..MaxDepth
    BY <1>2 DEF LockAgain
  <2>2. n' = n + 1
    BY <1>2, <2>1, NoWrap, WidthAssumption DEF LockAgain
  <2>3. TypeOK' /\ Ownership'
    BY <1>2, <2>1, <2>2 DEF LockAgain
  <2>4. WaitersCounted' /\ NoLostWakeup'
    BY <1>2 DEF LockAgain, WaitersCounted, NoLostWakeup
  <2> QED BY <2>3, <2>4
<1>3. CASE LockWait(t)
  <2>1. t \notin waiting \cup woken /\ waiting \cup woken \in SUBSET Threads
    BY <1>3 DEF LockWait, StartsRound
  <2>2. /\ Cardinality((waiting \cup woken) \cup {t}) = n_waited + 1
        /\ n_waited + 1 <= Cardinality(Threads)
        /\ Cardinality(Threads) \in Nat
    <3>1. /\ (waiting \cup woken) \cup {t} \in SUBSET Threads
          /\ Cardinality((waiting \cup woken) \cup {t}) = n_waited + 1
      BY <2>1, WaitLoopSize DEF WaitersCounted
    <3> QED BY <3>1, WaitLoopSize
  <2>3. n_waited' = n_waited + 1
    BY <1>3, <2>2, NoWrap, WidthAssumption DEF LockWait
  <2>4. (waiting \cup woken)' = (waiting \cup woken) \cup {t}
    BY <1>3 DEF LockWait
  <2>5. WaitersCounted'
    BY <2>2, <2>3, <2>4 DEF WaitersCounted
  <2>6. TypeOK' /\ Ownership' /\ NoLostWakeup'
    BY <1>3, <2>1, <2>2, <2>3 DEF LockWait, StartsRound, NoLostWakeup
  <2> QED BY <2>5, <2>6
<1> QED BY <1>1, <1>2, <1>3

LEMMA WakeKeeps ==
    ASSUME IInv, NEW t \in Threads,
           WakeAcquire(t) \/ WakeWait(t) \/ SpuriousWakeup(t)
    PROVE  IInv'
<1> USE ThreadsAssumption, BoundsAssumption DEF IInv, TypeOK, Ownership
<1>1. CASE WakeAcquire(t)
  <2>1. /\ t \in waiting \cup woken
        /\ waiting \cup woken \in SUBSET Threads
        /\ (waiting \cup woken)' = (waiting \cup woken) \ {t}
    BY <1>1 DEF WakeAcquire
  <2>2. Cardinality((waiting \cup woken)') = n_waited - 1 /\ n_waited - 1 \in Nat
    <3>1. (waiting \cup woken) \ {t} \in SUBSET Threads
      BY <2>1
    <3>2. Cardinality((waiting \cup woken) \ {t}) \in Nat
      BY <3>1, WaitLoopSize
    <3> QED BY <2>1, <3>2, WaitLoopSize DEF WaitersCounted
  <2>3. WaitersCounted' /\ NoLostWakeup'
    BY <1>1, <2>2 DEF WakeAcquire, Take, WaitersCounted, NoLostWakeup
  <2>4. locking_thread = NoThread /\ n = 0
    BY <1>1 DEF WakeAcquire
  <2>5. TypeOK' /\ Ownership'
    BY <1>1, <2>2, <2>4, WaitLoopSize DEF WakeAcquire, Take
  <2> QED BY <2>3, <2>5
<1>2. CASE WakeWait(t)
  <2>1. (waiting \cup woken)' = waiting \cup woken
    BY <1>2 DEF WakeWait
  <2> QED BY <1>2, <2>1 DEF WakeWait, WaitersCounted, NoLostWakeup
<1>3. CASE SpuriousWakeup(t)
  <2>1. (waiting \cup woken)' = waiting \cup woken
    BY <1>3 DEF SpuriousWakeup, Wake
  <2> QED BY <1>3, <2>1 DEF SpuriousWakeup, Wake, WaitersCounted, NoLostWakeup
<1> QED BY <1>1, <1>2, <1>3

\* The unlock that frees the mutex signals: n_waited is not 0 when somebody
\* sleeps, so the free mutex has a woken thread.
LEMMA UnlockKeeps ==
    ASSUME IInv, NEW t \in Threads,
           UnlockInner(t) \/ UnlockOuter(t)
    PROVE  IInv'
<1> USE ThreadsAssumption, BoundsAssumption DEF IInv, TypeOK, Ownership
<1>1. CASE UnlockInner(t)
  BY <1>1 DEF UnlockInner, WaitersCounted, NoLostWakeup
<1>2. CASE UnlockOuter(t)
  <2>1. /\ (waiting \cup woken)' = waiting \cup woken
        /\ waiting' \subseteq Threads /\ woken' \subseteq Threads
        /\ waiting' \cap woken' = {}
    BY <1>2 DEF UnlockOuter, Signal, Wake
  <2>2. TypeOK' /\ Ownership' /\ WaitersCounted'
    BY <1>2, <2>1 DEF UnlockOuter, WaitersCounted
  <2>3. NoLostWakeup'
    <3>1. CASE waiting = {}
      BY <1>2, <3>1 DEF UnlockOuter, Signal, NoLostWakeup
    <3>2. CASE waiting # {}
      <4>1. waiting \cup woken \in SUBSET Threads /\ waiting \cup woken # {}
        BY <3>2
      <4>2. n_waited > 0
        BY <4>1, WaitLoopSize, FS_EmptySet DEF WaitersCounted
      <4> QED BY <1>2, <3>2, <4>2 DEF UnlockOuter, Signal, Wake, NoLostWakeup
    <3> QED BY <3>1, <3>2
  <2> QED BY <2>2, <2>3
<1> QED BY <1>1, <1>2

LEMMA NextKeeps == IInv /\ [Next]_vars => IInv'
<1> SUFFICES ASSUME IInv, [Next]_vars PROVE IInv'
  OBVIOUS
<1>1. ASSUME NEW t \in Threads, Step(t) PROVE IInv'
  BY <1>1, LockKeeps, WakeKeeps, UnlockKeeps DEF Step
<1>2. ASSUME NEW t \in Threads, SpuriousWakeup(t) PROVE IInv'
  BY <1>2, WakeKeeps
<1>3. CASE UNCHANGED vars
  BY <1>3 DEF vars, IInv, TypeOK, Ownership, WaitersCounted, NoLostWakeup
<1> QED BY <1>1, <1>2, <1>3 DEF Next, Finished

LEMMA Invariance == Spec => []IInv
BY InitEstablishes, NextKeeps, PTL DEF Spec

-----------------------------------------------------------------------------

\* Every variable keeps its type: n and n_waited stay within their bounds.
THEOREM TypeCorrect == Spec => []TypeOK
<1>1. IInv => TypeOK
  BY DEF IInv
<1> QED BY <1>1, Invariance, PTL

\* At most one thread is between rec_mutex_lock and rec_mutex_unlock.
THEOREM MutexTheorem == Spec => []MutualExclusion
<1>1. IInv => MutualExclusion
  BY DEF IInv, Ownership, MutualExclusion
<1> QED BY <1>1, Invariance, PTL

\* No assert of rec_mutex_lock and rec_mutex_unlock can fail.
THEOREM AssertsTheorem == Spec => []AssertsHold
<1>1. IInv => AssertsHold
  BY ThreadsAssumption DEF IInv, TypeOK, Ownership, AssertsHold
<1> QED BY <1>1, Invariance, PTL

\* n_waited is the number of threads in the wait loop.
THEOREM WaitersTheorem == Spec => []WaitersCounted
<1>1. IInv => WaitersCounted
  BY DEF IInv
<1> QED BY <1>1, Invariance, PTL

\* A free mutex with sleepers always has a woken thread.
THEOREM WakeupTheorem == Spec => []NoLostWakeup
<1>1. IInv => NoLostWakeup
  BY DEF IInv
<1> QED BY <1>1, Invariance, PTL

\* Every behaviour of the mutex is one of the abstract recursive lock.
THEOREM Refinement == Spec => ImplementsRecLock
<1>1. Init => Abstract!Init
  BY DEF Init, Abstract!Init
<1>2. IInv /\ [Next]_vars => [Abstract!Next]_held
  <2> SUFFICES ASSUME IInv, [Next]_vars PROVE [Abstract!Next]_held
    OBVIOUS
  <2> USE ThreadsAssumption DEF IInv, TypeOK, Ownership
  <2>1. ASSUME NEW t \in Threads, LockFree(t) \/ LockAgain(t) \/ WakeAcquire(t)
        PROVE  Abstract!Acquire(t)
    BY <2>1 DEF LockFree, LockAgain, WakeAcquire, Take, Abstract!Acquire
  <2>2. ASSUME NEW t \in Threads, UnlockInner(t) \/ UnlockOuter(t)
        PROVE  Abstract!Release(t)
    BY <2>2 DEF UnlockInner, UnlockOuter, Abstract!Release
  <2>3. ASSUME NEW t \in Threads, LockWait(t) \/ WakeWait(t) \/ SpuriousWakeup(t)
        PROVE  UNCHANGED held
    BY <2>3 DEF LockWait, WakeWait, SpuriousWakeup
  <2>4. CASE UNCHANGED vars
    BY <2>4 DEF vars
  <2> QED BY <2>1, <2>2, <2>3, <2>4 DEF Next, Step, Finished, Abstract!Next
<1> QED BY <1>1, <1>2, Invariance, PTL DEF Spec, ImplementsRecLock, Abstract!Spec
=============================================================================
