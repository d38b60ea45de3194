----------------------------- MODULE Sync_proofs -----------------------------
(***************************************************************************)
(* Proofs about the barrier, for any finite set of threads, any threshold  *)
(* above one and any number of rounds, and about the components of         *)
(* MC_Sync, for any threads and any limits.                                *)
(*                                                                         *)
(* Each section takes one component.  It shows that the specification of   *)
(* MC_Sync runs that of the component, gives the inductive invariant       *)
(* (BiasedInv, TurnInv, QueueInv, ...) and what follows from it.  The      *)
(* counters that a component keeps of its threads are exact, and its       *)
(* lists hold whom it means to wake; a mutex or a semaphore says whose     *)
(* turn it is; where a place is free, as many are awake as may take it.    *)
(* The last section puts the components together.                          *)
(***************************************************************************)
EXTENDS MC_Sync, Integers, Sequences, FiniteSetTheorems,
        FunctionTheorems, SequenceTheorems, TLAPS

-----------------------------------------------------------------------------
(* The barrier *)

\* A thread at the barrier has a call to return from.
CallsLeft == \A t \in BarrierThreads : pc[t] # "idle" => passed[t] < Rounds

\* Undisturbed, nobody is awake at an open barrier.
NobodyEarly == is_ready_again /\ ~disturbed => At("woken") = {}

IInv == TypeOK /\ CountMatches /\ NoLostWakeup /\ CallsLeft /\ NobodyEarly

-----------------------------------------------------------------------------
(* Counting the threads at the barrier *)

LEMMA InsideSize ==
    /\ IsFiniteSet(Inside)
    /\ Cardinality(Inside) \in Nat
    /\ \A t \in BarrierThreads :
           /\ t \notin Inside => Cardinality(Inside \cup {t}) = Cardinality(Inside) + 1
           /\ t \in Inside => Cardinality(Inside \ {t}) = Cardinality(Inside) - 1
<1>1. Inside \subseteq BarrierThreads
  BY DEF Inside, At
<1>2. IsFiniteSet(Inside)
  BY <1>1, ThreadsAssumption, FS_Subset
<1> QED BY <1>2, FS_CardinalityType, FS_AddElement, FS_RemoveElement

\* Of at least two threads one is left when one goes.
LEMMA OneRemains ==
    ASSUME NEW t \in Inside, Cardinality(Inside) > 1
    PROVE  Inside \ {t} # {}
<1>1. t \in BarrierThreads
  BY DEF Inside, At
<1>2. Cardinality(Inside \ {t}) = Cardinality(Inside) - 1 /\ Cardinality(Inside) \in Nat
  BY <1>1, InsideSize
<1>3. Cardinality({}) = 0
  BY FS_EmptySet
<1> QED BY <1>2, <1>3

\* A thread that returns and signals: it is gone, the others are where they
\* were, and if a thread slept on cv one is awake now.
LEMMA SignalEffect ==
    ASSUME pc \in [BarrierThreads -> PCs], NEW t \in BarrierThreads, pc[t] # "asleep",
           SignalAndReturn(t)
    PROVE  /\ pc' \in [BarrierThreads -> PCs]
           /\ pc'[t] = "idle"
           /\ Inside' = Inside \ {t}
           /\ At("busy_asleep")' = At("busy_asleep") \ {t}
           /\ \A u \in BarrierThreads : pc'[u] # "idle" => pc[u] # "idle"
           /\ Inside \ {t} # {} => At("woken")' # {}
<1>1. CASE At("asleep") = {} /\ pc' = Move({t}, "idle")
  BY <1>1 DEF Move, At, Inside, PCs
<1>2. CASE \E u \in At("asleep") : pc' = [Move({t}, "idle") EXCEPT ![u] = "woken"]
  <2>1. PICK u \in At("asleep") : pc' = [Move({t}, "idle") EXCEPT ![u] = "woken"]
    BY <1>2
  <2>2. u # t
    BY DEF At
  <2> QED BY <2>1, <2>2 DEF Move, At, Inside, PCs
<1> QED BY <1>1, <1>2 DEF SignalAndReturn

-----------------------------------------------------------------------------
(* The invariant *)

LEMMA InitEstablishes == Init => IInv
<1> SUFFICES ASSUME Init PROVE IInv
  OBVIOUS
<1>1. Inside = {} /\ At("busy_asleep") = {}
  BY DEF Init, Inside, At
<1>2. Cardinality(Inside) = 0
  BY <1>1, FS_EmptySet
<1>3. TypeOK
  BY ThresholdAssumption, BoundAssumption DEF Init, TypeOK, PCs
<1>4. CountMatches
  BY <1>2, ThresholdAssumption DEF Init, CountMatches
<1> QED BY <1>1, <1>3, <1>4 DEF Init, IInv, NoLostWakeup, CallsLeft, NobodyEarly, Inside

\* A thread that goes to sleep on cv is one more at an open barrier.
LEMMA JoinKeeps ==
    ASSUME IInv, NEW t \in BarrierThreads, Join(t), UNCHANGED disturbed
    PROVE  IInv'
<1> USE ThresholdAssumption, BoundAssumption DEF IInv, TypeOK
<1>1. /\ t \notin Inside /\ Inside' = Inside \cup {t}
      /\ At("busy_asleep")' = At("busy_asleep") \ {t}
      /\ pc' \in [BarrierThreads -> PCs]
  BY DEF Join, Calls, Move, Inside, At, PCs
<1>2. Cardinality(Inside') = Cardinality(Inside) + 1
  BY <1>1, InsideSize
<1>3. CountMatches' /\ curr_wait_count' \in 0..threshold
  BY <1>2 DEF Join, CountMatches
<1>4. CallsLeft'
  BY DEF Join, Calls, Move, CallsLeft
<1>5. At("woken")' \subseteq At("woken")
  BY DEF Join, Move, At
<1> QED BY <1>1, <1>3, <1>4, <1>5 DEF Join, NoLostWakeup, NobodyEarly

\* The last of a group does not go to sleep; it leaves a thread awake.
LEMMA CloseKeeps ==
    ASSUME IInv, NEW t \in BarrierThreads, Close(t), UNCHANGED disturbed
    PROVE  IInv'
<1> USE ThresholdAssumption, BoundAssumption DEF IInv, TypeOK
<1>0. pc[t] # "asleep" /\ t \notin Inside /\ passed[t] < Rounds
  BY DEF Close, Calls, Inside, At, CallsLeft
<1>1. /\ Inside' = Inside
      /\ At("busy_asleep")' = At("busy_asleep") \ {t}
      /\ pc' \in [BarrierThreads -> PCs]
      /\ pc'[t] = "idle"
      /\ \A u \in BarrierThreads : pc'[u] # "idle" => pc[u] # "idle"
      /\ Inside # {} => At("woken")' # {}
  BY <1>0, SignalEffect DEF Close
<1>2. Inside # {}
  <2>1. Cardinality(Inside) # 0
    BY DEF Close, CountMatches
  <2> QED BY <2>1, FS_EmptySet
<1>3. CountMatches'
  BY <1>1 DEF Close, CountMatches
<1>4. NoLostWakeup'
  BY <1>1, <1>2 DEF Close, NoLostWakeup
<1>5. CallsLeft' /\ passed' \in [BarrierThreads -> 0..Rounds]
  BY <1>0, <1>1 DEF Close, Returns, CallsLeft
<1> QED BY <1>1, <1>3, <1>4, <1>5 DEF Close, NobodyEarly

\* A thread that passes and is not the last leaves a thread awake.
LEMMA PassKeeps ==
    ASSUME IInv, NEW t \in BarrierThreads, Pass(t), UNCHANGED disturbed
    PROVE  IInv'
<1> USE ThresholdAssumption, BoundAssumption DEF IInv, TypeOK
<1>0. pc[t] = "woken" /\ t \in Inside /\ passed[t] < Rounds
  BY DEF Pass, Inside, At, CallsLeft
<1>1. /\ Inside' = Inside \ {t}
      /\ At("busy_asleep")' = At("busy_asleep") \ {t}
      /\ pc' \in [BarrierThreads -> PCs]
      /\ pc'[t] = "idle"
      /\ \A u \in BarrierThreads : pc'[u] # "idle" => pc[u] # "idle"
      /\ Inside \ {t} # {} => At("woken")' # {}
  BY <1>0, SignalEffect DEF Pass
<1>2. Inside \ {t} # {}
  BY <1>0, OneRemains DEF Pass, CountMatches
<1>3. CountMatches' /\ curr_wait_count' \in 0..threshold
  BY <1>0, <1>1, InsideSize DEF Pass, CountMatches
<1>4. NoLostWakeup'
  BY <1>1, <1>2 DEF Pass, NoLostWakeup
<1>5. CallsLeft' /\ passed' \in [BarrierThreads -> 0..Rounds]
  BY <1>0, <1>1 DEF Pass, Returns, CallsLeft
<1>6. NobodyEarly'
  BY <1>0 DEF Pass, NobodyEarly, At
<1> QED BY <1>1, <1>3, <1>4, <1>5, <1>6 DEF Pass

\* The last one wakes all that wait for the barrier to open.
LEMMA PassLastKeeps ==
    ASSUME IInv, NEW t \in BarrierThreads, PassLast(t), UNCHANGED disturbed
    PROVE  IInv'
<1> USE ThresholdAssumption, BoundAssumption DEF IInv, TypeOK
<1>0. t \in Inside /\ passed[t] < Rounds
  BY DEF PassLast, Inside, At, CallsLeft
<1>1. Inside' = Inside \ {t}
  BY DEF PassLast, Move, Inside, At
<1>2. pc' \in [BarrierThreads -> PCs] /\ At("busy_asleep")' = {}
  BY DEF PassLast, Move, At, PCs
<1>3. CountMatches' /\ curr_wait_count' \in 0..threshold
  BY <1>0, <1>1, InsideSize DEF PassLast, CountMatches
<1>4. NoLostWakeup'
  BY <1>2 DEF PassLast, NoLostWakeup
<1>5. CallsLeft' /\ passed' \in [BarrierThreads -> 0..Rounds]
  BY <1>0 DEF PassLast, Move, At, Returns, CallsLeft
<1>6. Cardinality(Inside') = 0
  BY <1>0, <1>1, InsideSize DEF PassLast, CountMatches
<1>7. Inside' = {}
  <2>1. IsFiniteSet(Inside')
    BY <1>1, InsideSize, FS_RemoveElement
  <2> QED BY <1>6, <2>1, FS_EmptySet
<1>8. NobodyEarly'
  BY <1>7 DEF NobodyEarly, Inside
<1> QED BY <1>2, <1>3, <1>4, <1>5, <1>8 DEF PassLast

\* Sleeping on busy_cv and waking up early leave the count alone.
LEMMA SleepKeeps ==
    ASSUME IInv, NEW t \in BarrierThreads,
           BusyWait(t) \/ BusySpurious(t) \/ Spurious(t) \/ SignalAll,
           UNCHANGED disturbed
    PROVE  IInv'
<1> USE ThresholdAssumption, BoundAssumption DEF IInv, TypeOK
<1>1. /\ Inside' = Inside
      /\ At("woken") \subseteq At("woken")'
      /\ pc' \in [BarrierThreads -> PCs]
  BY DEF BusyWait, BusySpurious, Spurious, SignalAll, Calls, Move, Inside, At, PCs
<1>2. UNCHANGED <<curr_wait_count, is_ready_again, passed>>
  BY DEF BusyWait, BusySpurious, Spurious, SignalAll
<1>3. CountMatches'
  BY <1>1, <1>2 DEF CountMatches
<1>4. NoLostWakeup'
  <2>1. CASE BusyWait(t)
    BY <1>1, <2>1 DEF BusyWait, NoLostWakeup
  <2>2. CASE BusySpurious(t) \/ Spurious(t) \/ SignalAll
    <3>1. At("busy_asleep")' \subseteq At("busy_asleep")
      BY <2>2 DEF BusySpurious, Spurious, SignalAll, Move, At
    <3> QED BY <1>1, <1>2, <3>1 DEF NoLostWakeup
  <2> QED BY <2>1, <2>2
<1>5. CallsLeft'
  BY DEF BusyWait, BusySpurious, Spurious, SignalAll, Calls, Move, At, CallsLeft
<1>6. NobodyEarly'
  <2>1. CASE BusyWait(t) \/ BusySpurious(t)
    <3>1. At("woken")' \subseteq At("woken")
      BY <2>1 DEF BusyWait, BusySpurious, Move, At
    <3> QED BY <1>2, <3>1 DEF NobodyEarly
  <2>2. CASE Spurious(t) \/ SignalAll
    BY <2>2 DEF Spurious, SignalAll, NobodyEarly
  <2> QED BY <2>1, <2>2
<1> QED BY <1>1, <1>2, <1>3, <1>4, <1>5, <1>6

LEMMA NextKeeps == IInv /\ [Next]_vars => IInv'
<1> SUFFICES ASSUME IInv, [Next]_vars PROVE IInv'
  OBVIOUS
<1>1. ASSUME NEW t \in BarrierThreads, UNCHANGED disturbed, Step(t) PROVE IInv'
  BY <1>1, JoinKeeps, CloseKeeps, PassKeeps, PassLastKeeps, SleepKeeps DEF Step
<1>2. ASSUME NEW t \in BarrierThreads, UNCHANGED disturbed, BusySpurious(t) \/ Spurious(t)
      PROVE IInv'
  BY <1>2, SleepKeeps
<1>3. ASSUME UNCHANGED disturbed, SignalAll PROVE IInv'
  <2>1. PICK u \in BarrierThreads : u \in At("asleep")
    BY <1>3 DEF SignalAll, At
  <2> QED BY <1>3, <2>1, SleepKeeps
<1>4. CASE UNCHANGED vars
  BY <1>4 DEF vars, IInv, TypeOK, CountMatches, NoLostWakeup, CallsLeft, NobodyEarly,
     Inside, At
<1> QED BY <1>1, <1>2, <1>3, <1>4 DEF Next, Finished

LEMMA Invariance == Spec => []IInv
BY InitEstablishes, NextKeeps, PTL DEF Spec

-----------------------------------------------------------------------------

\* Every variable keeps its type.
THEOREM TypeCorrect == Spec => []TypeOK
<1>1. IInv => TypeOK
  BY DEF IInv
<1> QED BY <1>1, Invariance, PTL

\* curr_wait_count counts the threads at the barrier, whatever wakes them.
THEOREM CountTheorem == Spec => []CountMatches
<1>1. IInv => CountMatches
  BY DEF IInv
<1> QED BY <1>1, Invariance, PTL

\* The chain of signals that opens the barrier again never breaks.
THEOREM WakeupTheorem == Spec => []NoLostWakeup
<1>1. IInv => NoLostWakeup
  BY DEF IInv
<1> QED BY <1>1, Invariance, PTL

-----------------------------------------------------------------------------
(* Refinement of the abstract barrier *)

LEMMA SameCardinality ==
    ASSUME NEW S
    PROVE  Abstract!Cardinality(S) = Cardinality(S)
BY DEF Cardinality, Abstract!Cardinality

Waiting == IF is_ready_again /\ ~disturbed THEN Inside ELSE {}
Released == IF is_ready_again \/ disturbed THEN {} ELSE Inside

\* Every behaviour of an undisturbed barrier is one of the abstract barrier.
THEOREM Refinement == Spec => ImplementsCyclicBarrier
<1>1. Init => Abstract!Init
  <2>1. Init => Inside = {}
    BY DEF Init, Inside, At
  <2> QED BY <2>1 DEF Init, Abstract!Init
<1>2. IInv /\ [Next]_vars => [Abstract!Next]_<<Waiting, Released>>
  <2> SUFFICES ASSUME IInv, [Next]_vars PROVE [Abstract!Next]_<<Waiting, Released>>
    OBVIOUS
  <2> USE DEF IInv, TypeOK, Waiting, Released
  <2>1. CASE disturbed
    BY <2>1 DEF Next, Finished, vars
  <2>2. ASSUME ~disturbed, UNCHANGED disturbed, NEW t \in BarrierThreads, Join(t)
        PROVE  Abstract!Next
    <3>1. t \notin Inside /\ Inside' = Inside \cup {t}
      BY <2>2 DEF Join, Calls, Move, Inside, At
    <3>2. Abstract!Gather(t)
      BY <2>2, <3>1, SameCardinality, ThresholdAssumption DEF Join, CountMatches, Abstract!Gather
    <3> QED BY <3>2 DEF Abstract!Next
  <2>3. ASSUME ~disturbed, UNCHANGED disturbed, NEW t \in BarrierThreads, Close(t)
        PROVE  Abstract!Next
    <3>1. t \notin Inside /\ pc[t] # "asleep"
      BY <2>3 DEF Close, Calls, Inside, At
    <3>2. Inside' = Inside
      BY <2>3, <3>1, SignalEffect DEF Close
    <3>3. Abstract!Complete(t)
      BY <2>3, <3>1, <3>2, SameCardinality DEF Close, CountMatches, Abstract!Complete
    <3> QED BY <3>3 DEF Abstract!Next
  <2>4. ASSUME ~disturbed, UNCHANGED disturbed, NEW t \in BarrierThreads, Pass(t) \/ PassLast(t)
        PROVE  Abstract!Next
    <3>1. t \in Inside /\ pc[t] # "asleep" /\ ~is_ready_again
      BY <2>4 DEF Pass, PassLast, Inside, At, NobodyEarly
    <3>2. Inside' = Inside \ {t}
      BY <2>4, <3>1, SignalEffect DEF Pass, PassLast, Move, Inside, At
    <3>3. CASE Pass(t)
      BY <2>4, <3>1, <3>2, <3>3 DEF Pass, Abstract!Next, Abstract!Pass
    <3>4. CASE PassLast(t)
      <4>1. Cardinality(Inside') = 0 /\ IsFiniteSet(Inside')
        BY <3>1, <3>2, <3>4, InsideSize, FS_RemoveElement DEF PassLast, CountMatches
      <4>2. Inside' = {}
        BY <4>1, FS_EmptySet
      <4> QED BY <2>4, <3>1, <3>2, <3>4, <4>2 DEF PassLast, Abstract!Next, Abstract!Pass
    <3> QED BY <2>4, <3>3, <3>4
  <2>5. ASSUME ~disturbed, UNCHANGED disturbed, NEW t \in BarrierThreads,
               BusyWait(t) \/ BusySpurious(t) \/ Spurious(t)
        PROVE  UNCHANGED <<Waiting, Released>>
    <3>1. Inside' = Inside
      BY <2>5 DEF BusyWait, BusySpurious, Spurious, Calls, Move, Inside, At
    <3> QED BY <2>5, <3>1 DEF BusyWait, BusySpurious, Spurious
  <2>6. CASE UNCHANGED vars
    BY <2>6 DEF vars, Inside, At
  <2>7. CASE ~disturbed /\ SignalAll
    BY <2>7 DEF SignalAll
  <2> HIDE DEF Waiting, Released, IInv, TypeOK
  <2> QED BY <2>1, <2>2, <2>3, <2>4, <2>5, <2>6, <2>7 DEF Next, Finished, Step
<1> QED BY <1>1, <1>2, Invariance, PTL DEF Spec, ImplementsCyclicBarrier, Abstract!Spec, Waiting, Released

-----------------------------------------------------------------------------
(* Sets of threads, their sizes, and lists *)

LEMMA SubsetSize ==
    ASSUME NEW T, IsFiniteSet(T), NEW S \in SUBSET T
    PROVE  /\ IsFiniteSet(S)
           /\ Cardinality(S) \in 0..Cardinality(T)
           /\ Cardinality(S) \in Nat /\ Cardinality(T) \in Nat
           /\ S = {} <=> Cardinality(S) = 0
           /\ \A t \in T :
                  /\ t \notin S => Cardinality(S \cup {t}) = Cardinality(S) + 1
                  /\ t \in S => Cardinality(S \ {t}) = Cardinality(S) - 1
<1>1. IsFiniteSet(S) /\ Cardinality(S) <= Cardinality(T)
  BY FS_Subset
<1>2. Cardinality(S) \in Nat /\ Cardinality(T) \in Nat
  BY <1>1, FS_CardinalityType
<1>3. Cardinality(S) \in 0..Cardinality(T)
  BY <1>1, <1>2
<1>4. S = {} <=> Cardinality(S) = 0
  BY <1>1, FS_EmptySet
<1>5. ASSUME NEW t \in T
      PROVE  /\ t \notin S => Cardinality(S \cup {t}) = Cardinality(S) + 1
             /\ t \in S => Cardinality(S \ {t}) = Cardinality(S) - 1
  BY <1>1, FS_AddElement, FS_RemoveElement
<1> QED BY <1>1, <1>2, <1>3, <1>4, <1>5

Listed(q) == {q[i] : i \in DOMAIN q}
OnceEach(q) == \A i, j \in DOMAIN q : q[i] = q[j] => i = j

\* A list on which nobody is twice is as long as there are threads on it.
LEMMA ListSize ==
    ASSUME NEW S, NEW q \in Seq(S), OnceEach(q)
    PROVE  IsFiniteSet(Listed(q)) /\ Cardinality(Listed(q)) = Len(q) /\ Listed(q) \subseteq S
<1>1. Len(q) \in Nat /\ DOMAIN q = 1..Len(q) /\ q \in [1..Len(q) -> S]
  BY LenProperties
<1>2. q \in [1..Len(q) -> Listed(q)]
  BY <1>1 DEF Listed
<1>3. q \in Bijection(1..Len(q), Listed(q))
  BY <1>1, <1>2, Fun_IsBij DEF Listed, OnceEach
<1>4. ExistsBijection(1..Len(q), Listed(q))
  BY <1>3 DEF ExistsBijection
<1>5. Listed(q) \subseteq S
  BY <1>1 DEF Listed
<1> QED BY <1>1, <1>4, <1>5, FS_CountingElements, FS_NatBijection

\* The least-number principle.
LEMMA LeastNumber ==
    ASSUME NEW T, T \subseteq Nat, T # {}
    PROVE  \E x \in T : \A y \in T : x <= y
<1>1. PICK x \in T : \A y \in T : ~(<<y, x>> \in OpToRel(<, Nat))
  BY WFMin, NatLessThanWellFounded, Zenon
<1>2. \A y, z : <<y, z>> \in OpToRel(<, Nat) <=> (y \in Nat /\ z \in Nat /\ y < z)
  BY DEF OpToRel
<1>3. x \in Nat /\ \A y \in T : y \in Nat /\ ~(y < x)
  BY <1>1, <1>2
<1> QED BY <1>3

\* One that joins the end of a list it is not on.
LEMMA JoinsList ==
    ASSUME NEW S, NEW q \in Seq(S), OnceEach(q), NEW t \in S, t \notin Listed(q)
    PROVE  \E w : /\ w = Append(q, t)
                  /\ w \in Seq(S) /\ Len(w) = Len(q) + 1
                  /\ OnceEach(w) /\ Listed(w) = Listed(q) \cup {t}
<1>0. PICK w : w = Append(q, t)
  OBVIOUS
<1>1. /\ w \in Seq(S) /\ Len(w) = Len(q) + 1
      /\ \A i \in 1..Len(q) : w[i] = q[i]
      /\ w[Len(q) + 1] = t
  BY <1>0, AppendProperties
<1>2. Len(q) \in Nat /\ DOMAIN q = 1..Len(q) /\ DOMAIN w = 1..(Len(q) + 1)
  BY <1>1, LenProperties
<1>3. OnceEach(w)
  BY <1>1, <1>2 DEF OnceEach, Listed
<1>4. Listed(w) = Listed(q) \cup {t}
  <2>1. \A i \in DOMAIN w : w[i] \in Listed(q) \cup {t}
    BY <1>1, <1>2 DEF Listed
  <2>2. \A i \in DOMAIN q : i \in DOMAIN w /\ w[i] = q[i]
    BY <1>1, <1>2
  <2>3. Len(q) + 1 \in DOMAIN w
    BY <1>2
  <2> QED BY <1>1, <2>1, <2>2, <2>3 DEF Listed
<1> QED BY <1>0, <1>1, <1>3, <1>4

\* The first one leaves a list.
LEMMA LeavesFirst ==
    ASSUME NEW S, NEW q \in Seq(S), q # <<>>, OnceEach(q)
    PROVE  /\ Head(q) \in Listed(q)
           /\ \E w : /\ w = Tail(q)
                     /\ w \in Seq(S) /\ Len(w) = Len(q) - 1
                     /\ OnceEach(w) /\ Listed(w) = Listed(q) \ {Head(q)}
<1>0. PICK w : w = Tail(q)
  OBVIOUS
<1>1. /\ Head(q) = q[1] /\ w \in Seq(S) /\ Len(w) = Len(q) - 1
      /\ \A i \in 1..Len(w) : w[i] = q[i + 1]
  BY <1>0, HeadTailProperties
<1>2. /\ Len(q) \in Nat \ {0} /\ DOMAIN q = 1..Len(q) /\ DOMAIN w = 1..(Len(q) - 1)
      /\ \A i \in DOMAIN w : i + 1 \in DOMAIN q /\ i + 1 # 1
      /\ \A i \in DOMAIN q : i # 1 => i - 1 \in DOMAIN w /\ (i - 1) + 1 = i
      /\ 1 \in DOMAIN q
  BY <1>1, LenProperties, EmptySeq
<1>3. OnceEach(w)
  BY <1>1, <1>2 DEF OnceEach
<1>4. Listed(w) = Listed(q) \ {q[1]}
  <2>1. \A i \in DOMAIN w : w[i] \in Listed(q) \ {q[1]}
    BY <1>1, <1>2 DEF Listed, OnceEach
  <2>2. \A i \in DOMAIN q : i # 1 => w[i - 1] = q[i]
    BY <1>1, <1>2
  <2> QED BY <1>2, <2>1, <2>2 DEF Listed
<1>5. q[1] \in Listed(q)
  BY <1>2 DEF Listed
<1> QED BY <1>0, <1>1, <1>3, <1>4, <1>5

\* w is the list q without its place n.
LacksPlace(q, n, w) ==
    /\ Len(w) = Len(q) - 1
    /\ \A j \in 1..(Len(q) - 1) : w[j] = IF j < n THEN q[j] ELSE q[j + 1]

LEMMA PlaceLeft ==
    ASSUME NEW S, NEW q \in Seq(S), OnceEach(q), NEW n \in 1..Len(q),
           NEW w \in Seq(S), LacksPlace(q, n, w)
    PROVE  OnceEach(w) /\ Listed(w) = Listed(q) \ {q[n]}
<1>0. /\ Len(w) = Len(q) - 1
      /\ \A j \in 1..(Len(q) - 1) : w[j] = IF j < n THEN q[j] ELSE q[j + 1]
  BY DEF LacksPlace
<1>1. /\ Len(q) \in Nat /\ DOMAIN q = 1..Len(q) /\ DOMAIN w = 1..(Len(q) - 1)
  BY <1>0, LenProperties
<1>1a. \A i, j \in DOMAIN q : q[i] = q[j] => i = j
  BY DEF OnceEach
<1>1b. ASSUME NEW j \in DOMAIN w
       PROVE  /\ j < n => j \in DOMAIN q /\ j # n /\ w[j] = q[j]
              /\ ~(j < n) => j + 1 \in DOMAIN q /\ j + 1 # n /\ w[j] = q[j + 1]
  <2>1. w[j] = IF j < n THEN q[j] ELSE q[j + 1]
    BY <1>0, <1>1
  <2>2. /\ j < n => j \in DOMAIN q /\ j # n
        /\ ~(j < n) => j + 1 \in DOMAIN q /\ j + 1 # n
    BY <1>1
  <2> QED BY <2>1, <2>2
<1>2. OnceEach(w)
  <2>1. ASSUME NEW i \in DOMAIN w, NEW j \in DOMAIN w, w[i] = w[j] PROVE i = j
    <3>0. i \in Nat /\ j \in Nat /\ n \in Nat
      BY <1>1
    <3>1. CASE i < n /\ j < n
      BY <1>1a, <1>1b, <2>1, <3>1
    <3>2. CASE i < n /\ ~(j < n)
      <4>1. i = j + 1
        BY <1>1a, <1>1b, <2>1, <3>2
      <4> QED BY <3>0, <3>2, <4>1
    <3>3. CASE ~(i < n) /\ j < n
      <4>1. i + 1 = j
        BY <1>1a, <1>1b, <2>1, <3>3
      <4> QED BY <3>0, <3>3, <4>1
    <3>4. CASE ~(i < n) /\ ~(j < n)
      <4>1. i + 1 = j + 1
        BY <1>1a, <1>1b, <2>1, <3>4
      <4> QED BY <3>0, <4>1
    <3> QED BY <3>1, <3>2, <3>3, <3>4
  <2> QED BY <2>1 DEF OnceEach
<1>3. ASSUME NEW j \in DOMAIN w PROVE w[j] \in Listed(q) \ {q[n]}
  <2>0. n \in DOMAIN q
    BY <1>1
  <2>1. CASE j < n
    <3>1. j \in DOMAIN q /\ j # n /\ w[j] = q[j]
      BY <1>1b, <2>1
    <3> QED BY <1>1a, <2>0, <3>1 DEF Listed
  <2>2. CASE ~(j < n)
    <3>1. j + 1 \in DOMAIN q /\ j + 1 # n /\ w[j] = q[j + 1]
      BY <1>1b, <2>2
    <3> QED BY <1>1a, <2>0, <3>1 DEF Listed
  <2> QED BY <2>1, <2>2
<1>4. ASSUME NEW j \in DOMAIN q, q[j] # q[n]
      PROVE  q[j] \in Listed(w)
  <2>1. CASE j < n
    <3>1. j \in DOMAIN w /\ w[j] = q[j]
      BY <1>0, <1>1, <2>1
    <3> QED BY <3>1 DEF Listed
  <2>2. CASE j > n
    <3>1. j - 1 \in DOMAIN w /\ w[j - 1] = q[j]
      BY <1>0, <1>1, <2>2
    <3> QED BY <3>1 DEF Listed
  <2> QED BY <1>1, <1>4, <2>1, <2>2
<1> QED BY <1>2, <1>3, <1>4 DEF Listed

\* What is before a place and what is behind it.
LEMMA PartsOfList ==
    ASSUME NEW S, NEW q \in Seq(S), NEW n \in 1..Len(q)
    PROVE  /\ SubSeq(q, 1, n - 1) \in Seq(S) /\ Len(SubSeq(q, 1, n - 1)) = n - 1
           /\ \A j \in 1..(n - 1) : SubSeq(q, 1, n - 1)[j] = q[j]
           /\ SubSeq(q, n + 1, Len(q)) \in Seq(S)
           /\ Len(SubSeq(q, n + 1, Len(q))) = Len(q) - n
           /\ \A j \in 1..(Len(q) - n) : SubSeq(q, n + 1, Len(q))[j] = q[n + j]
<1>0. Len(q) \in Nat /\ n \in Nat \ {0} /\ n <= Len(q) /\ \A j \in 1..Len(q) : q[j] \in S
  BY LenProperties, ElementOfSeq
<1>1. /\ SubSeq(q, 1, n - 1) \in Seq(S) /\ Len(SubSeq(q, 1, n - 1)) = n - 1
      /\ \A j \in 1..(n - 1) : SubSeq(q, 1, n - 1)[j] = q[j]
  <2>1. \A j \in 1..(n - 1) : q[j] \in S
    BY <1>0
  <2> QED BY <1>0, <2>1, SubSeqProperties
<1>2. PICK b : b = SubSeq(q, n + 1, Len(q))
  OBVIOUS
<1>3. /\ b \in Seq(S)
      /\ Len(b) = IF n + 1 <= Len(q) THEN Len(q) - (n + 1) + 1 ELSE 0
      /\ \A j \in 1..(Len(q) - (n + 1) + 1) : b[j] = q[(n + 1) + j - 1]
  <2>1. \A j \in (n + 1)..Len(q) : q[j] \in S
    BY <1>0
  <2>2. n + 1 \in Int /\ Len(q) \in Int
    BY <1>0
  <2> QED BY <1>2, <2>1, <2>2, SubSeqProperties
<1>4. Len(b) = Len(q) - n
  <2>1. CASE n + 1 <= Len(q)
    BY <1>0, <1>3, <2>1
  <2>2. CASE ~(n + 1 <= Len(q))
    BY <1>0, <1>3, <2>2
  <2> QED BY <2>1, <2>2
<1>5. ASSUME NEW j \in 1..(Len(q) - n)
      PROVE  b[j] = q[n + j]
  <2>1. j \in 1..(Len(q) - (n + 1) + 1) /\ (n + 1) + j - 1 = n + j
    BY <1>0
  <2>2. b[j] = q[(n + 1) + j - 1]
    BY <1>3, <2>1
  <2> QED BY <2>1, <2>2
<1> QED BY <1>1, <1>2, <1>3, <1>4, <1>5

\* w is what is left of q, a list over S, without its place n.
IsLeft(w, q, n, S) ==
    /\ w = SubSeq(q, 1, n - 1) \o SubSeq(q, n + 1, Len(q))
    /\ w \in Seq(S) /\ Len(w) = Len(q) - 1
    /\ OnceEach(w) /\ Listed(w) = Listed(q) \ {q[n]}

\* One that takes itself out of a list leaves the others in their order.
LEMMA LeavesList ==
    ASSUME NEW S, NEW q \in Seq(S), OnceEach(q), NEW n \in DOMAIN q
    PROVE  \E w : IsLeft(w, q, n, S)
<1>0. Len(q) \in Nat /\ n \in 1..Len(q)
  BY LenProperties
<1>1. PICK f : f = SubSeq(q, 1, n - 1)
  OBVIOUS
<1>2. PICK b : b = SubSeq(q, n + 1, Len(q))
  OBVIOUS
<1>3. /\ f \in Seq(S) /\ Len(f) = n - 1
      /\ \A j \in 1..(n - 1) : f[j] = q[j]
  BY <1>0, <1>1, PartsOfList
<1>4. /\ b \in Seq(S) /\ Len(b) = Len(q) - n
      /\ \A j \in 1..(Len(q) - n) : b[j] = q[n + j]
  BY <1>0, <1>2, PartsOfList
<1>5. /\ f \o b \in Seq(S) /\ Len(f \o b) = Len(f) + Len(b)
      /\ \A j \in 1..(Len(f) + Len(b)) :
             (f \o b)[j] = IF j <= Len(f) THEN f[j] ELSE b[j - Len(f)]
  BY <1>3, <1>4, ConcatProperties
<1>6. PICK w : w = f \o b
  OBVIOUS
<1>7. /\ w \in Seq(S) /\ Len(w) = Len(q) - 1
      /\ \A j \in 1..(Len(q) - 1) : w[j] = IF j <= n - 1 THEN f[j] ELSE b[j - (n - 1)]
  <2>1. Len(f) + Len(b) = Len(q) - 1
    BY <1>0, <1>3, <1>4
  <2> QED BY <1>3, <1>5, <1>6, <2>1
<1>8. ASSUME NEW j \in 1..(Len(q) - 1)
      PROVE  w[j] = IF j < n THEN q[j] ELSE q[j + 1]
  <2>1. CASE j < n
    <3>1. j <= n - 1 /\ j \in 1..(n - 1)
      BY <1>0, <2>1
    <3> QED BY <1>3, <1>7, <2>1, <3>1
  <2>2. CASE ~(j < n)
    <3>1. ~(j <= n - 1) /\ j - (n - 1) \in 1..(Len(q) - n) /\ n + (j - (n - 1)) = j + 1
      BY <1>0, <2>2
    <3>2. b[j - (n - 1)] = q[n + (j - (n - 1))]
      BY <1>4, <3>1
    <3> QED BY <1>7, <2>2, <3>1, <3>2
  <2> QED BY <2>1, <2>2
<1>9. LacksPlace(q, n, w)
  BY <1>7, <1>8 DEF LacksPlace
<1>10. OnceEach(w) /\ Listed(w) = Listed(q) \ {q[n]}
  <2>1. w \in Seq(S) /\ n \in 1..Len(q)
    BY <1>0, <1>7
  <2> QED BY <1>9, <2>1, PlaceLeft
<1>11. IsLeft(w, q, n, S)
  BY <1>1, <1>2, <1>6, <1>7, <1>10, Zenon DEF IsLeft
<1> QED BY <1>11

LockKinds == {"reader", "writer"}
LockUsers == Readers \cup Writers

LEMMA GroupSize ==
    ASSUME NEW S \in SUBSET LockUsers
    PROVE  /\ Cardinality(S) \in 0..Cardinality(LockUsers)
           /\ Cardinality(S) \in Nat /\ Cardinality(LockUsers) \in Nat
           /\ S = {} <=> Cardinality(S) = 0
           /\ \A t \in LockUsers :
                  /\ t \notin S => Cardinality(S \cup {t}) = Cardinality(S) + 1
                  /\ t \in S => Cardinality(S \ {t}) = Cardinality(S) - 1
<1>1. IsFiniteSet(LockUsers)
  BY LockUsersAssumption, FS_Union DEF LockUsers
<1> QED BY <1>1, SubsetSize

LEMMA KindSize ==
    /\ \A S \in SUBSET Readers : Cardinality(S) \in 0..Cardinality(Readers)
    /\ \A S \in SUBSET Writers : Cardinality(S) \in 0..Cardinality(Writers)
    /\ Cardinality(Readers) \in Nat /\ Cardinality(Writers) \in Nat
BY LockUsersAssumption, SubsetSize

-----------------------------------------------------------------------------
(* The lock with a bias *)

LEMMA BiasedRuns == SyncSpec => Biased!Spec
<1>1. SyncInit => Biased!Init
  BY DEF SyncInit
<1>2. [SyncNext]_syncVars => [Biased!Next]_Biased!vars
  BY DEF SyncNext, syncVars, varsBiased, Biased!vars, OthersBarrier, OthersSem, OthersPair,
         OthersPause, OthersQueue, OthersLight, OthersStrict, OthersTurn, OthersCentre,
         OthersFirst, OthersDining, OthersRing
<1> QED BY <1>1, <1>2, PTL DEF SyncSpec, Biased!Spec

\* The threads that have the biased lock, wait for it, and were woken to try again.
BiasedIn == {t \in LockUsers : biased_lock_pc[t] = "in"}
BiasedWaits(k) ==
    {t \in LockUsers : biased_lock_pc[t] \in {"asleep", "woken"} /\ Biased!Kind(t) = k}
BiasedWoken(k) == {t \in LockUsers : biased_lock_pc[t] = "woken" /\ Biased!Kind(t) = k}

BiasedTyped ==
    /\ biasedness \in Biased!Biases
    /\ biased_lock_n_locks \in Nat
    /\ n_reader_waiting \in 0..Cardinality(Readers)
    /\ n_writer_waiting \in 0..Cardinality(Writers)
    /\ biased_lock_locked_by \in {"none", "reader", "writer"}
    /\ who_used_cs \in {"reader", "writer"}
    /\ biased_lock_pc \in [LockUsers -> {"out", "asleep", "woken", "in", "aborted"}]

\* n_locks is the number of threads in, which are of the kind that has the lock.
BiasedHolders ==
    /\ biased_lock_n_locks = Cardinality(BiasedIn)
    /\ biased_lock_locked_by = "none" <=> biased_lock_n_locks = 0
    /\ \A k \in LockKinds : biased_lock_locked_by = k =>
           /\ biased_lock_n_locks <= Biased!Limit(k)
           /\ \A t \in BiasedIn : Biased!Kind(t) = k

\* Only those wait whom the bias lets wait, and they are counted.
BiasedWaiters ==
    /\ \A t \in LockUsers : biased_lock_pc[t] \in {"asleep", "woken"} =>
           Biased!MayBlock(Biased!Kind(t))
    /\ \A k \in LockKinds :
           ~Biased!Aborted => Biased!Waiting(k) = Cardinality(BiasedWaits(k))

\* Nobody sleeps beside a free lock, and besides a thread of its own kind only
\* when those awake fill up the room.
BiasedRoomTaken ==
    \A t \in LockUsers : (biased_lock_pc[t] = "asleep" /\ ~Biased!Aborted) =>
        /\ biased_lock_locked_by # "none"
        /\ biased_lock_locked_by = Biased!Kind(t) =>
               biased_lock_n_locks + Cardinality(BiasedWoken(Biased!Kind(t)))
                   >= Biased!Limit(Biased!Kind(t))

BiasedInv ==
    /\ BiasedTyped /\ BiasedHolders /\ BiasedWaiters /\ BiasedRoomTaken
    /\ Biased!AbortsOnlyBiased

LEMMA BiasedKinds ==
    /\ Biased!Users = LockUsers
    /\ \A t \in LockUsers : Biased!Kind(t) \in LockKinds
    /\ \A k \in LockKinds :
           /\ Biased!Limit(k) \in Nat \ {0}
           /\ Biased!Other(k) \in LockKinds /\ Biased!Other(k) # k
           /\ \A j \in LockKinds : j = k \/ j = Biased!Other(k)
BY LockUsersAssumption
   DEF Biased!Users, LockUsers, Biased!Kind, LockKinds, Biased!Limit, Biased!Other

\* The counters of the waiting cannot pass the number of threads they count.
LEMMA BiasedWaitsSize ==
    ASSUME NEW f
    PROVE  /\ Cardinality({t \in LockUsers : f[t] \in {"asleep", "woken"}
                                 /\ Biased!Kind(t) = "reader"}) \in 0..Cardinality(Readers)
           /\ Cardinality({t \in LockUsers : f[t] \in {"asleep", "woken"}
                                 /\ Biased!Kind(t) = "writer"}) \in 0..Cardinality(Writers)
<1>1. {t \in LockUsers : f[t] \in {"asleep", "woken"} /\ Biased!Kind(t) = "reader"}
          \in SUBSET Readers
  BY DEF Biased!Kind
<1>2. {t \in LockUsers : f[t] \in {"asleep", "woken"} /\ Biased!Kind(t) = "writer"}
          \in SUBSET Writers
  BY DEF Biased!Kind, LockUsers
<1> QED BY <1>1, <1>2, KindSize

LEMMA BiasedStarts == Biased!Init => BiasedInv
<1> SUFFICES ASSUME Biased!Init PROVE BiasedInv
  OBVIOUS
<1>1. /\ BiasedIn = {} /\ Cardinality({}) = 0 /\ \A k \in LockKinds : BiasedWaits(k) = {}
      /\ \A t \in LockUsers : biased_lock_pc[t] = "out"
  BY BiasedKinds, FS_EmptySet DEF Biased!Init, BiasedIn, BiasedWaits
<1>2. Cardinality(Readers) \in Nat /\ Cardinality(Writers) \in Nat
  BY LockUsersAssumption, FS_CardinalityType
<1>3. BiasedTyped
  BY <1>2, BiasedKinds DEF Biased!Init, BiasedTyped
<1>4. BiasedHolders /\ BiasedWaiters /\ BiasedRoomTaken
  BY <1>1 DEF Biased!Init, BiasedHolders, BiasedWaiters, BiasedRoomTaken, Biased!Waiting,
              LockKinds
<1>5. Biased!AbortsOnlyBiased
  BY <1>1, BiasedKinds DEF Biased!AbortsOnlyBiased
<1> QED BY <1>3, <1>4, <1>5 DEF BiasedInv

\* A thread that gets the lock is counted in, and out of the waiting.
LEMMA BiasedEnters ==
    ASSUME BiasedInv, ~Biased!Aborted, NEW t \in LockUsers,
           biased_lock_pc[t] \in {"out", "woken"}, Biased!Enter(t)
    PROVE  BiasedInv'
<1> USE BiasedKinds
<1>0. BiasedTyped /\ BiasedHolders /\ BiasedWaiters /\ BiasedRoomTaken
  BY DEF BiasedInv
<1>k. PICK k \in LockKinds : k = Biased!Kind(t)
  OBVIOUS
<1>1. biased_lock_n_locks \in Nat /\ Biased!Limit(k) \in Nat
  BY <1>0 DEF BiasedTyped
<1>2. /\ biased_lock_pc' = [biased_lock_pc EXCEPT ![t] = "in"]
      /\ biasedness' = biasedness /\ who_used_cs' = who_used_cs
      /\ biased_lock_n_locks' = biased_lock_n_locks + 1
      /\ biased_lock_locked_by' = k
      /\ biased_lock_n_locks > 0 => biased_lock_locked_by = k
      /\ biased_lock_n_locks + 1 <= Biased!Limit(k)
  BY <1>0, <1>k, <1>1 DEF Biased!Enter, Biased!MustWait, BiasedHolders, BiasedTyped, LockKinds
<1>3. /\ \A u \in LockUsers : u # t => biased_lock_pc'[u] = biased_lock_pc[u]
      /\ biased_lock_pc'[t] = "in"
      /\ biased_lock_pc' \in [LockUsers -> {"out", "asleep", "woken", "in", "aborted"}]
  BY <1>0, <1>2 DEF BiasedTyped
<1>4. BiasedHolders'
  <2>1. BiasedIn' = BiasedIn \cup {t} /\ t \notin BiasedIn /\ BiasedIn \in SUBSET LockUsers
    BY <1>3 DEF BiasedIn
  <2>2. Cardinality(BiasedIn \cup {t}) = Cardinality(BiasedIn) + 1
    BY <2>1, GroupSize
  <2>3. \A u \in BiasedIn \cup {t} : Biased!Kind(u) = k
    <3>1. CASE biased_lock_n_locks > 0
      BY <1>0, <1>k, <1>1, <1>2, <3>1 DEF BiasedHolders
    <3>2. CASE biased_lock_n_locks = 0
      BY <1>0, <1>k, <2>1, <3>2, GroupSize DEF BiasedHolders
    <3> QED BY <1>1, <3>1, <3>2
  <2> QED BY <1>0, <1>1, <1>2, <2>1, <2>2, <2>3 DEF BiasedHolders, LockKinds
<1>5. /\ \A j \in LockKinds : j # k => BiasedWaits(j)' = BiasedWaits(j)
      /\ BiasedWaits(k)' = BiasedWaits(k) \ {t}
      /\ \A j \in LockKinds : BiasedWoken(j)' = BiasedWoken(j) \ {t}
      /\ \A j \in LockKinds : BiasedWaits(j) \in SUBSET LockUsers
      /\ \A j \in LockKinds : BiasedWoken(j) \in SUBSET LockUsers
  BY <1>k, <1>3 DEF BiasedWaits, BiasedWoken
<1>6. \A j \in LockKinds : Biased!Waiting(j)' = Cardinality(BiasedWaits(j))'
  <2>1. \A j \in LockKinds : Biased!Waiting(j) = Cardinality(BiasedWaits(j))
    BY <1>0 DEF BiasedWaiters
  <2>2. CASE biased_lock_pc[t] = "woken"
    <3>1. t \in BiasedWaits(k) /\ Biased!Waiting(k)' = Biased!Waiting(k) - 1
          /\ \A j \in LockKinds : j # k => Biased!Waiting(j)' = Biased!Waiting(j)
      BY <1>0, <1>k, <2>2 DEF BiasedWaits, Biased!Enter, Biased!Count, Biased!Waiting,
                              LockKinds, BiasedTyped
    <3> QED BY <1>1, <1>5, <2>1, <3>1, GroupSize
  <2>3. CASE biased_lock_pc[t] # "woken"
    <3>1. \A j \in LockKinds : Biased!Waiting(j)' = Biased!Waiting(j)
      BY <1>0, <2>3 DEF Biased!Enter, Biased!Count, Biased!Waiting, LockKinds, BiasedTyped
    <3>2. BiasedWaits(k) \ {t} = BiasedWaits(k)
      BY <2>3 DEF BiasedWaits
    <3> QED BY <1>5, <2>1, <3>1, <3>2
  <2> QED BY <2>2, <2>3
<1>7. BiasedWaiters'
  BY <1>0, <1>2, <1>3, <1>6 DEF BiasedWaiters, Biased!MayBlock
<1>8. BiasedTyped'
  <2>1. /\ n_reader_waiting' \in 0..Cardinality(Readers)
        /\ n_writer_waiting' \in 0..Cardinality(Writers)
    BY <1>6, BiasedWaitsSize DEF Biased!Waiting, LockKinds, BiasedWaits
  <2> QED BY <1>0, <1>1, <1>2, <1>3, <2>1 DEF BiasedTyped, LockKinds
<1>9. BiasedRoomTaken'
  <2> SUFFICES ASSUME NEW u \in LockUsers, biased_lock_pc'[u] = "asleep", Biased!Kind(u) = k
               PROVE  biased_lock_n_locks' + Cardinality(BiasedWoken(k))' >= Biased!Limit(k)
    BY <1>k, <1>2 DEF BiasedRoomTaken, LockKinds
  <2>1. biased_lock_pc[u] = "asleep"
    BY <1>3
  <2>2. biased_lock_locked_by = k
    BY <1>0, <1>1, <1>2, <2>1 DEF BiasedRoomTaken, BiasedHolders
  <2>3. biased_lock_n_locks + Cardinality(BiasedWoken(k)) >= Biased!Limit(k)
    BY <1>0, <2>1, <2>2 DEF BiasedRoomTaken
  <2>4. Cardinality(BiasedWoken(k) \ {t}) >= Cardinality(BiasedWoken(k)) - 1
        /\ Cardinality(BiasedWoken(k)) \in Nat /\ Cardinality(BiasedWoken(k) \ {t}) \in Nat
    <3>1. CASE t \in BiasedWoken(k)
      BY <1>1, <1>5, <3>1, GroupSize
    <3>2. CASE t \notin BiasedWoken(k)
      <4>1. BiasedWoken(k) \ {t} = BiasedWoken(k)
        BY <3>2
      <4>2. Cardinality(BiasedWoken(k)) \in Nat
        BY <1>5, GroupSize
      <4> QED BY <4>1, <4>2
    <3> QED BY <3>1, <3>2
  <2>5. Cardinality(BiasedWoken(k))' = Cardinality(BiasedWoken(k) \ {t})
    BY <1>5
  <2> QED BY <1>1, <1>2, <2>3, <2>4, <2>5
<1>10. Biased!AbortsOnlyBiased'
  BY <1>2, <1>3 DEF Biased!AbortsOnlyBiased, BiasedInv
<1> QED BY <1>4, <1>7, <1>8, <1>9, <1>10 DEF BiasedInv

\* A thread that falls asleep is counted once, however often it wakes and
\* falls asleep again.
LEMMA BiasedBlocks ==
    ASSUME BiasedInv, ~Biased!Aborted, NEW t \in LockUsers,
           biased_lock_pc[t] \in {"out", "woken"}, Biased!MayBlock(Biased!Kind(t)),
           Biased!Block(t)
    PROVE  BiasedInv'
<1> USE BiasedKinds
<1>0. BiasedTyped /\ BiasedHolders /\ BiasedWaiters /\ BiasedRoomTaken
  BY DEF BiasedInv
<1>k. PICK k \in LockKinds : k = Biased!Kind(t)
  OBVIOUS
<1>1. biased_lock_n_locks \in Nat /\ Biased!Limit(k) \in Nat \ {0}
  BY <1>0 DEF BiasedTyped
<1>2. /\ biased_lock_pc' = [biased_lock_pc EXCEPT ![t] = "asleep"]
      /\ biasedness' = biasedness /\ who_used_cs' = who_used_cs
      /\ biased_lock_n_locks' = biased_lock_n_locks
      /\ biased_lock_locked_by' = biased_lock_locked_by
      /\ biased_lock_locked_by = Biased!Other(k) \/ biased_lock_n_locks = Biased!Limit(k)
  BY <1>k DEF Biased!Block, Biased!MustWait, Biased!MayBlock
<1>3. /\ \A u \in LockUsers : u # t => biased_lock_pc'[u] = biased_lock_pc[u]
      /\ biased_lock_pc'[t] = "asleep"
      /\ biased_lock_pc' \in [LockUsers -> {"out", "asleep", "woken", "in", "aborted"}]
  BY <1>0, <1>2 DEF BiasedTyped
<1>4. BiasedHolders'
  <2>1. BiasedIn' = BiasedIn
    BY <1>3 DEF BiasedIn
  <2> QED BY <1>0, <1>2, <2>1 DEF BiasedHolders
<1>5. /\ \A j \in LockKinds : j # k => BiasedWaits(j)' = BiasedWaits(j)
      /\ BiasedWaits(k)' = BiasedWaits(k) \cup {t}
      /\ \A j \in LockKinds : j # k => BiasedWoken(j)' = BiasedWoken(j)
      /\ \A j \in LockKinds : BiasedWaits(j) \in SUBSET LockUsers
      /\ \A j \in LockKinds : BiasedWoken(j)' \in SUBSET LockUsers
      /\ biased_lock_pc[t] # "woken" => BiasedWoken(k)' = BiasedWoken(k)
  BY <1>k, <1>3 DEF BiasedWaits, BiasedWoken
<1>6. \A j \in LockKinds : Biased!Waiting(j)' = Cardinality(BiasedWaits(j))'
  <2>1. \A j \in LockKinds : Biased!Waiting(j) = Cardinality(BiasedWaits(j))
    BY <1>0 DEF BiasedWaiters
  <2>2. CASE biased_lock_pc[t] = "out"
    <3>1. t \notin BiasedWaits(k) /\ Biased!Waiting(k)' = Biased!Waiting(k) + 1
          /\ \A j \in LockKinds : j # k => Biased!Waiting(j)' = Biased!Waiting(j)
      BY <1>0, <1>k, <2>2 DEF BiasedWaits, Biased!Block, Biased!Count, Biased!Waiting,
                              LockKinds, BiasedTyped
    <3>2. Cardinality(BiasedWaits(k) \cup {t}) = Cardinality(BiasedWaits(k)) + 1
      BY <1>5, <3>1, GroupSize
    <3> QED BY <1>5, <2>1, <3>1, <3>2
  <2>3. CASE biased_lock_pc[t] = "woken"
    <3>1. \A j \in LockKinds : Biased!Waiting(j)' = Biased!Waiting(j)
      BY <1>0, <2>3 DEF Biased!Block, Biased!Count, Biased!Waiting, LockKinds, BiasedTyped
    <3>2. BiasedWaits(k) \cup {t} = BiasedWaits(k)
      BY <1>k, <2>3 DEF BiasedWaits
    <3> QED BY <1>5, <2>1, <3>1, <3>2
  <2> QED BY <2>2, <2>3
<1>7. BiasedWaiters'
  BY <1>0, <1>2, <1>3, <1>6 DEF BiasedWaiters, Biased!MayBlock
<1>8. BiasedTyped'
  <2>1. /\ n_reader_waiting' \in 0..Cardinality(Readers)
        /\ n_writer_waiting' \in 0..Cardinality(Writers)
    BY <1>6, BiasedWaitsSize DEF Biased!Waiting, LockKinds, BiasedWaits
  <2> QED BY <1>0, <1>2, <1>3, <2>1 DEF BiasedTyped
<1>9. BiasedRoomTaken'
  <2>1. biased_lock_locked_by # "none"
    BY <1>0, <1>1, <1>2 DEF BiasedHolders, LockKinds
  <2> SUFFICES ASSUME NEW u \in LockUsers, biased_lock_pc'[u] = "asleep",
                      biased_lock_locked_by = Biased!Kind(u)
               PROVE  biased_lock_n_locks + Cardinality(BiasedWoken(Biased!Kind(u)))'
                          >= Biased!Limit(Biased!Kind(u))
    BY <1>2, <2>1 DEF BiasedRoomTaken
  <2>2. CASE biased_lock_locked_by = k
    <3>1. biased_lock_n_locks = Biased!Limit(k)
      BY <1>2, <2>2
    <3>2. Cardinality(BiasedWoken(k))' \in Nat
      BY <1>5, GroupSize
    <3> QED BY <1>1, <2>2, <3>1, <3>2
  <2>3. CASE biased_lock_locked_by # k
    <3>1. u # t /\ biased_lock_pc[u] = "asleep"
      BY <1>k, <1>3, <2>3
    <3>2. biased_lock_n_locks + Cardinality(BiasedWoken(Biased!Kind(u)))
              >= Biased!Limit(Biased!Kind(u))
      BY <1>0, <3>1 DEF BiasedRoomTaken
    <3> QED BY <1>5, <2>3, <3>2
  <2> QED BY <2>2, <2>3
<1>10. Biased!AbortsOnlyBiased'
  BY <1>2, <1>3 DEF Biased!AbortsOnlyBiased, BiasedInv
<1> QED BY <1>4, <1>7, <1>8, <1>9, <1>10 DEF BiasedInv

\* An assert fails for a thread that the bias lets not wait, or that returns from
\* the wait of the bias to writers.
LEMMA BiasedAborts ==
    ASSUME BiasedInv, NEW t \in LockUsers, biased_lock_pc[t] \in {"out", "woken"},
           ~Biased!MayBlock(Biased!Kind(t)) \/ Biased!WokenInto(Biased!Kind(t)),
           Biased!Abort(t)
    PROVE  BiasedInv'
<1> USE BiasedKinds
<1>0. BiasedTyped /\ BiasedHolders /\ BiasedWaiters /\ BiasedRoomTaken
  BY DEF BiasedInv
<1>2. /\ biased_lock_pc' = [biased_lock_pc EXCEPT ![t] = "aborted"]
      /\ biasedness' = biasedness /\ who_used_cs' = who_used_cs
      /\ biased_lock_n_locks' = biased_lock_n_locks
      /\ biased_lock_locked_by' = biased_lock_locked_by
      /\ n_reader_waiting' = n_reader_waiting /\ n_writer_waiting' = n_writer_waiting
  BY DEF Biased!Abort
<1>3. /\ \A u \in LockUsers : u # t => biased_lock_pc'[u] = biased_lock_pc[u]
      /\ biased_lock_pc'[t] = "aborted"
      /\ biased_lock_pc' \in [LockUsers -> {"out", "asleep", "woken", "in", "aborted"}]
  BY <1>0, <1>2 DEF BiasedTyped
<1>4. BiasedTyped'
  BY <1>0, <1>2, <1>3 DEF BiasedTyped
<1>5. BiasedHolders'
  <2>1. BiasedIn' = BiasedIn
    BY <1>3 DEF BiasedIn
  <2> QED BY <1>0, <1>2, <2>1 DEF BiasedHolders
<1>6. Biased!Aborted'
  BY <1>3 DEF Biased!Aborted
<1>7. BiasedWaiters' /\ BiasedRoomTaken'
  BY <1>0, <1>2, <1>3, <1>6 DEF BiasedWaiters, BiasedRoomTaken, Biased!MayBlock
<1>8. Biased!AbortsOnlyBiased'
  <2>1. biasedness # "NEUTRAL" /\ (biasedness = "READERS" => t \in Writers)
    BY DEF Biased!MayBlock, Biased!WokenInto, Biased!Kind, LockUsers
  <2> QED BY <1>2, <1>3, <2>1 DEF Biased!AbortsOnlyBiased, BiasedInv
<1> QED BY <1>4, <1>5, <1>7, <1>8 DEF BiasedInv

\* A wait returns without a signal.
LEMMA BiasedWakes ==
    ASSUME BiasedInv, ~Biased!Aborted, NEW t \in LockUsers, Biased!SpuriousWakeup(t)
    PROVE  BiasedInv'
<1> USE BiasedKinds
<1>0. BiasedTyped /\ BiasedHolders /\ BiasedWaiters /\ BiasedRoomTaken
  BY DEF BiasedInv
<1>2. /\ biased_lock_pc' = [biased_lock_pc EXCEPT ![t] = "woken"]
      /\ biased_lock_pc[t] = "asleep"
      /\ biasedness' = biasedness /\ who_used_cs' = who_used_cs
      /\ biased_lock_n_locks' = biased_lock_n_locks
      /\ biased_lock_locked_by' = biased_lock_locked_by
      /\ n_reader_waiting' = n_reader_waiting /\ n_writer_waiting' = n_writer_waiting
  BY DEF Biased!SpuriousWakeup
<1>3. /\ \A u \in LockUsers : u # t => biased_lock_pc'[u] = biased_lock_pc[u]
      /\ biased_lock_pc'[t] = "woken"
      /\ biased_lock_pc' \in [LockUsers -> {"out", "asleep", "woken", "in", "aborted"}]
  BY <1>0, <1>2 DEF BiasedTyped
<1>4. BiasedTyped'
  BY <1>0, <1>2, <1>3 DEF BiasedTyped
<1>5. BiasedHolders'
  <2>1. BiasedIn' = BiasedIn
    BY <1>2, <1>3 DEF BiasedIn
  <2> QED BY <1>0, <1>2, <2>1 DEF BiasedHolders
<1>6. /\ \A j \in LockKinds : BiasedWaits(j)' = BiasedWaits(j)
      /\ \A j \in LockKinds : Biased!Waiting(j)' = Biased!Waiting(j)
  BY <1>2, <1>3 DEF BiasedWaits, Biased!Waiting
<1>7. BiasedWaiters'
  BY <1>0, <1>2, <1>3, <1>6 DEF BiasedWaiters, Biased!MayBlock
<1>8. BiasedRoomTaken'
  <2> SUFFICES ASSUME NEW u \in LockUsers, biased_lock_pc'[u] = "asleep", NEW k \in LockKinds,
                      k = Biased!Kind(u), biased_lock_locked_by = k
               PROVE  biased_lock_n_locks + Cardinality(BiasedWoken(k))' >= Biased!Limit(k)
    BY <1>0, <1>2, <1>3 DEF BiasedRoomTaken
  <2>1. biased_lock_n_locks + Cardinality(BiasedWoken(k)) >= Biased!Limit(k)
    BY <1>0, <1>3 DEF BiasedRoomTaken
  <2>2. /\ BiasedWoken(k)' \in {BiasedWoken(k), BiasedWoken(k) \cup {t}}
        /\ BiasedWoken(k) \in SUBSET LockUsers /\ t \notin BiasedWoken(k)
    BY <1>2, <1>3 DEF BiasedWoken
  <2>3. Cardinality(BiasedWoken(k) \cup {t}) = Cardinality(BiasedWoken(k)) + 1
        /\ Cardinality(BiasedWoken(k)) \in Nat
    BY <2>2, GroupSize
  <2>4. biased_lock_n_locks \in Nat /\ Biased!Limit(k) \in Nat
    BY <1>0 DEF BiasedTyped
  <2>5. CASE BiasedWoken(k)' = BiasedWoken(k)
    BY <2>1, <2>5
  <2>6. CASE BiasedWoken(k)' = BiasedWoken(k) \cup {t}
    BY <2>1, <2>3, <2>4, <2>6
  <2> QED BY <2>2, <2>5, <2>6
<1>9. Biased!AbortsOnlyBiased'
  BY <1>2, <1>3 DEF Biased!AbortsOnlyBiased, BiasedInv
<1> QED BY <1>4, <1>5, <1>7, <1>8, <1>9 DEF BiasedInv

\* Whoever unlocks wakes all that the room is for: the last one everybody who
\* may wait at all, another one somebody of the same kind.
LEMMA BiasedUnlocks ==
    ASSUME BiasedInv, ~Biased!Aborted, NEW t \in LockUsers, Biased!Unlock(t)
    PROVE  BiasedInv'
<1> USE BiasedKinds
<1>0. BiasedTyped /\ BiasedHolders /\ BiasedWaiters /\ BiasedRoomTaken
  BY DEF BiasedInv
<1>1. /\ t \in BiasedIn /\ BiasedIn \in SUBSET LockUsers /\ biased_lock_pc[t] = "in"
      /\ biased_lock_n_locks \in Nat \ {0}
      /\ Cardinality(BiasedIn \ {t}) = Cardinality(BiasedIn) - 1
  <2>1. t \in BiasedIn /\ BiasedIn \in SUBSET LockUsers /\ biased_lock_pc[t] = "in"
    BY DEF Biased!Unlock, BiasedIn
  <2> QED BY <1>0, <2>1, GroupSize DEF BiasedHolders
<1>k. PICK k \in LockKinds : k = biased_lock_locked_by
  BY <1>0, <1>1 DEF BiasedHolders, BiasedTyped, LockKinds
<1>2. PICK W \in Biased!Wakes(k) :
          /\ biased_lock_n_locks' = biased_lock_n_locks - 1
          /\ biased_lock_locked_by' = IF biased_lock_n_locks = 1 THEN "none" ELSE k
          /\ who_used_cs' = IF biased_lock_n_locks = 1 THEN k ELSE who_used_cs
          /\ biased_lock_pc' = [u \in LockUsers |-> IF u = t THEN "out"
                                   ELSE IF u \in W THEN "woken" ELSE biased_lock_pc[u]]
          /\ biasedness' = biasedness
          /\ n_reader_waiting' = n_reader_waiting /\ n_writer_waiting' = n_writer_waiting
  BY <1>1, <1>k DEF Biased!Unlock
<1>3. \A u \in W : u \in LockUsers /\ biased_lock_pc[u] = "asleep"
  BY DEF Biased!Wakes, Biased!LastWakes, Biased!Asleep, Biased!One
<1>4. /\ biased_lock_pc' \in [LockUsers -> {"out", "asleep", "woken", "in", "aborted"}]
      /\ biased_lock_pc'[t] = "out" /\ t \notin W
      /\ \A u \in W : biased_lock_pc'[u] = "woken"
      /\ \A u \in LockUsers : (u # t /\ u \notin W) => biased_lock_pc'[u] = biased_lock_pc[u]
  BY <1>0, <1>1, <1>2, <1>3 DEF BiasedTyped
<1>5. BiasedTyped'
  BY <1>0, <1>1, <1>2, <1>4 DEF BiasedTyped, LockKinds
<1>6. BiasedHolders'
  <2>1. BiasedIn' = BiasedIn \ {t}
    BY <1>3, <1>4 DEF BiasedIn
  <2>2. biased_lock_n_locks' = Cardinality(BiasedIn)'
    BY <1>0, <1>1, <1>2, <2>1 DEF BiasedHolders
  <2>3. biased_lock_n_locks <= Biased!Limit(k) /\ \A u \in BiasedIn : Biased!Kind(u) = k
    BY <1>0, <1>k DEF BiasedHolders
  <2>4. Biased!Limit(k) \in Nat
    OBVIOUS
  <2> QED BY <1>1, <1>2, <2>1, <2>2, <2>3, <2>4 DEF BiasedHolders, LockKinds
<1>7. BiasedWaiters'
  <2>1. /\ \A j \in LockKinds : BiasedWaits(j)' = BiasedWaits(j)
        /\ \A j \in LockKinds : Biased!Waiting(j)' = Biased!Waiting(j)
    BY <1>1, <1>2, <1>3, <1>4 DEF BiasedWaits, Biased!Waiting
  <2>2. \A u \in LockUsers : biased_lock_pc'[u] \in {"asleep", "woken"} =>
            biased_lock_pc[u] \in {"asleep", "woken"}
    BY <1>3, <1>4
  <2> QED BY <1>0, <1>2, <2>1, <2>2 DEF BiasedWaiters, Biased!MayBlock
<1>8. \A u \in LockUsers : biased_lock_pc'[u] = "asleep" =>
          /\ biased_lock_pc[u] = "asleep" /\ u \notin W
          /\ Biased!MayBlock(Biased!Kind(u)) /\ Biased!Waiting(Biased!Kind(u)) > 0
  <2> SUFFICES ASSUME NEW u \in LockUsers, biased_lock_pc'[u] = "asleep"
               PROVE  /\ biased_lock_pc[u] = "asleep" /\ u \notin W
                      /\ Biased!MayBlock(Biased!Kind(u))
                      /\ Biased!Waiting(Biased!Kind(u)) > 0
    OBVIOUS
  <2>1. biased_lock_pc[u] = "asleep" /\ u \notin W /\ Biased!MayBlock(Biased!Kind(u))
    BY <1>0, <1>4 DEF BiasedWaiters
  <2>2. u \in BiasedWaits(Biased!Kind(u)) /\ BiasedWaits(Biased!Kind(u)) \in SUBSET LockUsers
    BY <2>1 DEF BiasedWaits
  <2>3. Cardinality(BiasedWaits(Biased!Kind(u))) > 0
    BY <2>2, GroupSize
  <2> QED BY <1>0, <2>1, <2>3 DEF BiasedWaiters
<1>9. BiasedRoomTaken'
  <2>1. CASE biased_lock_n_locks = 1
    <3> SUFFICES ASSUME NEW u \in LockUsers, biased_lock_pc'[u] = "asleep"
                 PROVE  FALSE
      BY DEF BiasedRoomTaken
    <3>1. W = Biased!LastWakes(k)
      BY <2>1 DEF Biased!Wakes
    <3>2. biased_lock_pc[u] = "asleep" /\ u \notin W
          /\ Biased!MayBlock(Biased!Kind(u)) /\ Biased!Waiting(Biased!Kind(u)) > 0
      BY <1>8
    <3>3. u \in Biased!Asleep("reader") \/ u \in Biased!Asleep("writer")
      BY <3>2 DEF Biased!Asleep, LockKinds
    <3>4. CASE biasedness = "NEUTRAL"
      BY <3>1, <3>2, <3>3, <3>4 DEF Biased!LastWakes
    <3>5. CASE biasedness = "READERS"
      BY <3>1, <3>2, <3>5 DEF Biased!LastWakes, Biased!MayBlock, Biased!Asleep
    <3>6. CASE biasedness = "WRITERS"
      BY <3>1, <3>2, <3>6 DEF Biased!LastWakes, Biased!MayBlock, Biased!Asleep, LockKinds
    <3>7. CASE biasedness = "OPPOSITE"
      BY <3>2, <3>7 DEF Biased!MayBlock
    <3> QED BY <1>0, <3>4, <3>5, <3>6, <3>7 DEF BiasedTyped, Biased!Biases
  <2>2. CASE biased_lock_n_locks # 1
    <3> SUFFICES ASSUME NEW u \in LockUsers, biased_lock_pc'[u] = "asleep",
                        Biased!Kind(u) = k
                 PROVE  biased_lock_n_locks - 1 + Cardinality(BiasedWoken(k))'
                            >= Biased!Limit(k)
      BY <1>2, <2>2 DEF BiasedRoomTaken, LockKinds
    <3>1. biased_lock_pc[u] = "asleep" /\ u \notin W /\ Biased!Waiting(k) > 0
      BY <1>8
    <3>2. u \in Biased!Asleep(k)
      BY <3>1 DEF Biased!Asleep
    <3>3. PICK w \in Biased!Asleep(k) : W = {w}
      BY <2>2, <3>1, <3>2 DEF Biased!Wakes, Biased!One, LockKinds
    <3>4. /\ BiasedWoken(k)' = BiasedWoken(k) \cup {w} /\ w \notin BiasedWoken(k)
          /\ BiasedWoken(k) \in SUBSET LockUsers /\ w \in LockUsers
      BY <1>1, <1>4, <3>3 DEF BiasedWoken, Biased!Asleep
    <3>5. Cardinality(BiasedWoken(k) \cup {w}) = Cardinality(BiasedWoken(k)) + 1
          /\ Cardinality(BiasedWoken(k)) \in Nat
      BY <3>4, GroupSize
    <3>6. biased_lock_n_locks + Cardinality(BiasedWoken(k)) >= Biased!Limit(k)
      BY <1>0, <1>k, <3>1 DEF BiasedRoomTaken
    <3>7. Cardinality(BiasedWoken(k))' = Cardinality(BiasedWoken(k)) + 1
          /\ Biased!Limit(k) \in Nat
      BY <3>4, <3>5
    <3> QED BY <1>1, <3>5, <3>6, <3>7
  <2> QED BY <2>1, <2>2
<1>10. Biased!AbortsOnlyBiased'
  <2>1. \A u \in LockUsers : biased_lock_pc'[u] = "aborted" => biased_lock_pc[u] = "aborted"
    BY <1>4
  <2> QED BY <1>2, <2>1 DEF Biased!AbortsOnlyBiased, BiasedInv
<1> QED BY <1>5, <1>6, <1>7, <1>9, <1>10 DEF BiasedInv

LEMMA BiasedStutters ==
    ASSUME BiasedInv, UNCHANGED varsBiased
    PROVE  BiasedInv'
BY DEF varsBiased, BiasedInv, BiasedTyped, BiasedHolders, BiasedWaiters, BiasedRoomTaken,
       BiasedIn, BiasedWaits, BiasedWoken, Biased!AbortsOnlyBiased, Biased!Aborted,
       Biased!Waiting, Biased!MayBlock

LEMMA BiasedKeeps == BiasedInv /\ [Biased!Next]_Biased!vars => BiasedInv'
<1> SUFFICES ASSUME BiasedInv, [Biased!Next]_Biased!vars PROVE BiasedInv'
  OBVIOUS
<1>1. ASSUME NEW t \in LockUsers, Biased!Step(t) PROVE BiasedInv'
  <2>1. ~Biased!Aborted
    BY <1>1 DEF Biased!Step
  <2>2. CASE Biased!Unlock(t)
    BY <2>1, <2>2, BiasedUnlocks
  <2>3. CASE Biased!Lock(t)
    <3>1. biased_lock_pc[t] \in {"out", "woken"}
      BY <2>3 DEF Biased!Lock
    <3>2. CASE Biased!WokenInto(Biased!Kind(t)) /\ Biased!Abort(t)
      BY <3>1, <3>2, BiasedAborts
    <3>3. CASE Biased!Enter(t)
      BY <2>1, <3>1, <3>3, BiasedEnters
    <3>4. CASE Biased!Block(t)
      <4>1. CASE Biased!MayBlock(Biased!Kind(t))
        BY <2>1, <3>1, <3>4, <4>1, BiasedBlocks
      <4>2. CASE ~Biased!MayBlock(Biased!Kind(t))
        <5>1. Biased!Abort(t)
          BY <3>4, <4>2 DEF Biased!Block
        <5> QED BY <3>1, <4>2, <5>1, BiasedAborts
      <4> QED BY <4>1, <4>2
    <3> QED BY <2>3, <3>2, <3>3, <3>4 DEF Biased!Lock
  <2> QED BY <1>1, <2>2, <2>3 DEF Biased!Step
<1>2. ASSUME NEW t \in LockUsers, ~Biased!Aborted, Biased!SpuriousWakeup(t) PROVE BiasedInv'
  BY <1>2, BiasedWakes
<1>3. CASE UNCHANGED Biased!vars
  BY <1>3, BiasedStutters DEF Biased!vars, varsBiased
<1> QED BY <1>1, <1>2, <1>3, BiasedKinds DEF Biased!Next

LEMMA BiasedAlways == Biased!Spec => []BiasedInv
BY BiasedStarts, BiasedKeeps, PTL DEF Biased!Spec

LEMMA BiasedSameCardinality ==
    \A S : /\ Biased!Cardinality(S) = Cardinality(S)
           /\ Biased!RW!Cardinality(S) = Cardinality(S)
BY DEF Cardinality, Biased!Cardinality, Biased!RW!Cardinality

\* What the invariant says of those inside: one kind, within its limit.
LEMMA BiasedInside ==
    ASSUME BiasedInv
    PROVE  \E k \in LockKinds :
               /\ Biased!Inside(Biased!Other(k)) = {}
               /\ Biased!Inside(k) = BiasedIn
               /\ Cardinality(BiasedIn) <= Biased!Limit(k)
               /\ BiasedIn # {} => k = biased_lock_locked_by
<1> USE BiasedKinds
<1>0. BiasedTyped /\ BiasedHolders
  BY DEF BiasedInv
<1>1. BiasedIn \in SUBSET LockUsers /\ Cardinality(BiasedIn) \in Nat
  BY GroupSize DEF BiasedIn
<1>2. CASE BiasedIn = {}
  <2>1. Cardinality(BiasedIn) = 0
    BY <1>1, <1>2, GroupSize
  <2>2. Biased!Limit("reader") \in Nat /\ "reader" \in LockKinds
    BY DEF LockKinds
  <2>3. \A k \in LockKinds : Biased!Inside(k) = {}
    BY <1>2 DEF BiasedIn, Biased!Inside
  <2> QED BY <1>2, <2>1, <2>2, <2>3
<1>3. CASE BiasedIn # {}
  <2>1. PICK k \in LockKinds : k = biased_lock_locked_by
    BY <1>0, <1>1, <1>3, GroupSize DEF BiasedHolders, BiasedTyped, LockKinds
  <2>2. \A t \in BiasedIn : Biased!Kind(t) = k
    BY <1>0, <2>1 DEF BiasedHolders
  <2>3. Biased!Inside(Biased!Other(k)) = {} /\ Biased!Inside(k) = BiasedIn
    BY <2>2 DEF Biased!Inside, BiasedIn
  <2> QED BY <1>0, <2>1, <2>3 DEF BiasedHolders
<1> QED BY <1>2, <1>3

\* The lock with a bias keeps its types.
THEOREM BiasedTypeCorrect == SyncSpec => []Biased!TypeOK
<1>1. BiasedInv => Biased!TypeOK
  <2>1. BiasedIn \in SUBSET LockUsers
    BY DEF BiasedIn
  <2> QED BY <2>1, GroupSize, BiasedKinds, BiasedSameCardinality
          DEF BiasedInv, BiasedTyped, BiasedHolders, Biased!TypeOK
<1> QED BY <1>1, BiasedRuns, BiasedAlways, PTL

\* cs_status_check of customizable_rw_locks holds whenever it is evaluated, and
\* a thread that meets an assert does so for the bias.
THEOREM BiasedRightOfWay == SyncSpec => [](Biased!ChecksHold /\ Biased!AbortsOnlyBiased)
<1>1. BiasedInv => Biased!ChecksHold
  <2> SUFFICES ASSUME BiasedInv PROVE Biased!ChecksHold
    OBVIOUS
  <2>1. PICK k \in LockKinds : /\ Biased!Inside(Biased!Other(k)) = {}
                               /\ Biased!Inside(k) = BiasedIn
                               /\ Cardinality(BiasedIn) <= Biased!Limit(k)
    BY BiasedInside
  <2> QED BY <2>1, BiasedSameCardinality
          DEF Biased!ChecksHold, Biased!cs_status_check, LockKinds, Biased!Other, Biased!Limit
<1>2. BiasedInv => Biased!AbortsOnlyBiased
  BY DEF BiasedInv
<1> QED BY <1>1, <1>2, BiasedRuns, BiasedAlways, PTL

\* Whatever the bias, an unlock wakes the thread that its room is for.
THEOREM BiasedWakeup == SyncSpec => []Biased!NoLostWakeup
<1>1. BiasedInv => Biased!NoLostWakeup
  <2> SUFFICES ASSUME BiasedInv, ~Biased!Aborted, NEW t \in LockUsers,
                      biased_lock_pc[t] = "asleep", ~Biased!MustWait(Biased!Kind(t))
               PROVE  \E u \in LockUsers :
                          biased_lock_pc[u] = "woken" /\ Biased!Kind(u) = Biased!Kind(t)
    BY BiasedKinds DEF Biased!NoLostWakeup
  <2>k. PICK k \in LockKinds : k = Biased!Kind(t)
    BY BiasedKinds
  <2>1. /\ biased_lock_locked_by = k /\ biased_lock_n_locks < Biased!Limit(k)
        /\ biased_lock_n_locks \in Nat /\ Biased!Limit(k) \in Nat
    BY <2>k, BiasedKinds DEF BiasedInv, BiasedRoomTaken, BiasedHolders, BiasedTyped,
                             Biased!MustWait, LockKinds
  <2>2. biased_lock_n_locks + Cardinality(BiasedWoken(k)) >= Biased!Limit(k)
    BY <2>k, <2>1 DEF BiasedInv, BiasedRoomTaken
  <2>3. BiasedWoken(k) \in SUBSET LockUsers
    BY DEF BiasedWoken
  <2>4. BiasedWoken(k) # {}
    <3>1. ASSUME Cardinality(BiasedWoken(k)) = 0 PROVE FALSE
      BY <2>1, <2>2, <3>1
    <3> QED BY <2>3, <3>1, GroupSize
  <2> QED BY <2>k, <2>4 DEF BiasedWoken
<1> QED BY <1>1, BiasedRuns, BiasedAlways, PTL

\* A lock is an entry of the abstract lock, an unlock an exit, and nothing else
\* is a step of it.
LEMMA BiasedRefines == Biased!Spec => Biased!RW!Spec
<1> USE BiasedKinds
<1>1. Biased!Init => Biased!RW!Init
  BY DEF Biased!Init, Biased!RW!Init, Biased!reading, Biased!writing
<1>2. BiasedInv /\ [Biased!Next]_Biased!vars =>
          [Biased!RW!Next]_<<Biased!reading, Biased!writing>>
  <2> SUFFICES ASSUME BiasedInv, [Biased!Next]_Biased!vars
               PROVE  Biased!RW!Next \/ UNCHANGED <<Biased!reading, Biased!writing>>
    OBVIOUS
  <2>0. /\ biased_lock_pc \in [LockUsers -> {"out", "asleep", "woken", "in", "aborted"}]
        /\ BiasedIn \in SUBSET LockUsers /\ Cardinality(BiasedIn) \in Nat
        /\ biased_lock_n_locks = Cardinality(BiasedIn)
    BY GroupSize DEF BiasedInv, BiasedTyped, BiasedHolders, BiasedIn
  <2>1. ASSUME NEW t \in LockUsers, biased_lock_pc[t] \in {"out", "woken"}, Biased!Enter(t)
        PROVE  Biased!RW!Next
    <3>k. PICK k \in LockKinds : k = Biased!Kind(t)
      OBVIOUS
    <3>1. biased_lock_pc' = [biased_lock_pc EXCEPT ![t] = "in"]
          /\ biased_lock_locked_by # Biased!Other(k)
          /\ biased_lock_n_locks # Biased!Limit(k)
      BY <2>1, <3>k DEF Biased!Enter, Biased!MustWait
    <3>2. PICK j \in LockKinds : /\ Biased!Inside(Biased!Other(j)) = {}
                                 /\ Biased!Inside(j) = BiasedIn
                                 /\ Cardinality(BiasedIn) <= Biased!Limit(j)
                                 /\ BiasedIn # {} => j = biased_lock_locked_by
      BY BiasedInside
    <3>3. Biased!Inside(Biased!Other(k)) = {} /\ Biased!Inside(k) = BiasedIn
          /\ Cardinality(BiasedIn) < Biased!Limit(k)
      <4>1. CASE BiasedIn = {}
        <5>1. Cardinality(BiasedIn) = 0
          BY <2>0, <4>1, GroupSize
        <5>2. \A i \in LockKinds : Biased!Inside(i) = {}
          BY <4>1 DEF BiasedIn, Biased!Inside
        <5>3. Biased!Limit(k) \in Nat \ {0}
          OBVIOUS
        <5> QED BY <4>1, <5>1, <5>2, <5>3
      <4>2. CASE BiasedIn # {}
        <5>1. j = k
          BY <3>1, <3>2, <4>2
        <5>2. Biased!Limit(k) \in Nat
          OBVIOUS
        <5> QED BY <2>0, <3>1, <3>2, <5>1, <5>2
      <4> QED BY <4>1, <4>2
    <3>4. CASE t \in Readers
      <4>1. k = "reader"
        BY <3>k, <3>4 DEF Biased!Kind
      <4>2. /\ Biased!reading' = [Biased!reading EXCEPT ![t] = @ + 1]
            /\ UNCHANGED Biased!writing
        <5>1. /\ Biased!reading'[t] = Biased!reading[t] + 1 /\ UNCHANGED Biased!writing
              /\ \A u \in LockUsers \ {t} : Biased!reading'[u] = Biased!reading[u]
          BY <2>0, <2>1, <3>1, <3>4, LockUsersAssumption DEF Biased!reading, Biased!writing
        <5>2. /\ Biased!reading = [u \in LockUsers |-> Biased!reading[u]]
              /\ Biased!reading' = [u \in LockUsers |-> Biased!reading'[u]]
          BY DEF Biased!reading
        <5> QED BY <5>1, <5>2
      <4>3. /\ Biased!RW!Inside(Biased!writing) = Biased!Inside("writer")
            /\ Biased!RW!Inside(Biased!reading) = Biased!Inside("reader")
        BY LockUsersAssumption
           DEF Biased!RW!Inside, Biased!Inside, Biased!reading, Biased!writing, LockUsers,
               Biased!Kind
      <4>4. Biased!RW!EnterRead(t)
        BY <3>3, <4>1, <4>2, <4>3, BiasedSameCardinality
           DEF Biased!RW!EnterRead, Biased!Other, Biased!Limit
      <4> QED BY <4>4 DEF Biased!RW!Next
    <3>5. CASE t \notin Readers
      <4>1. k = "writer" /\ t \in Writers
        BY <3>k, <3>5 DEF Biased!Kind, LockUsers
      <4>2. /\ Biased!writing' = [Biased!writing EXCEPT ![t] = @ + 1]
            /\ UNCHANGED Biased!reading
        <5>1. /\ Biased!writing'[t] = Biased!writing[t] + 1 /\ UNCHANGED Biased!reading
              /\ \A u \in LockUsers \ {t} : Biased!writing'[u] = Biased!writing[u]
          BY <2>0, <2>1, <3>1, <3>5, <4>1 DEF Biased!reading, Biased!writing
        <5>2. /\ Biased!writing = [u \in LockUsers |-> Biased!writing[u]]
              /\ Biased!writing' = [u \in LockUsers |-> Biased!writing'[u]]
          BY DEF Biased!writing
        <5> QED BY <5>1, <5>2
      <4>3. /\ Biased!RW!Inside(Biased!writing) = Biased!Inside("writer")
            /\ Biased!RW!Inside(Biased!reading) = Biased!Inside("reader")
        BY LockUsersAssumption
           DEF Biased!RW!Inside, Biased!Inside, Biased!reading, Biased!writing, LockUsers,
               Biased!Kind
      <4>4. Biased!RW!EnterWrite(t)
        BY <3>3, <4>1, <4>2, <4>3, BiasedSameCardinality
           DEF Biased!RW!EnterWrite, Biased!Other, Biased!Limit
      <4> QED BY <4>4 DEF Biased!RW!Next
    <3> QED BY <3>4, <3>5
  <2>2. ASSUME NEW t \in LockUsers, Biased!Unlock(t)
        PROVE  Biased!RW!Next
    <3>1. /\ biased_lock_pc[t] = "in" /\ biased_lock_n_locks # 0
          /\ \E W \in Biased!Wakes(biased_lock_locked_by) :
                biased_lock_pc' = [u \in LockUsers |-> IF u = t THEN "out"
                                   ELSE IF u \in W THEN "woken" ELSE biased_lock_pc[u]]
      <4>1. biased_lock_pc[t] = "in" /\ t \in BiasedIn
        BY <2>2 DEF Biased!Unlock, BiasedIn
      <4>2. biased_lock_n_locks # 0
        BY <2>0, <4>1, GroupSize
      <4> QED BY <2>2, <4>1, <4>2 DEF Biased!Unlock
    <3>2. PICK W \in Biased!Wakes(biased_lock_locked_by) :
                biased_lock_pc' = [u \in LockUsers |-> IF u = t THEN "out"
                                   ELSE IF u \in W THEN "woken" ELSE biased_lock_pc[u]]
      BY <3>1
    <3>3. \A u \in W : biased_lock_pc[u] = "asleep"
      BY DEF Biased!Wakes, Biased!LastWakes, Biased!Asleep, Biased!One
    <3>4. \A u \in LockUsers : biased_lock_pc'[u] = "in" <=> biased_lock_pc[u] = "in" /\ u # t
      BY <3>2, <3>3
    <3>5. CASE t \in Readers
      <4>1. /\ Biased!reading' = [Biased!reading EXCEPT ![t] = @ - 1]
            /\ UNCHANGED Biased!writing /\ Biased!reading[t] > 0
        <5>1. /\ Biased!reading'[t] = Biased!reading[t] - 1 /\ UNCHANGED Biased!writing
              /\ \A u \in LockUsers \ {t} : Biased!reading'[u] = Biased!reading[u]
              /\ Biased!reading[t] > 0
          BY <3>1, <3>4, <3>5, LockUsersAssumption DEF Biased!reading, Biased!writing
        <5>2. /\ Biased!reading = [u \in LockUsers |-> Biased!reading[u]]
              /\ Biased!reading' = [u \in LockUsers |-> Biased!reading'[u]]
          BY DEF Biased!reading
        <5> QED BY <5>1, <5>2
      <4> QED BY <4>1 DEF Biased!RW!Next, Biased!RW!Leave
    <3>6. CASE t \notin Readers
      <4>1. /\ Biased!writing' = [Biased!writing EXCEPT ![t] = @ - 1]
            /\ UNCHANGED Biased!reading /\ Biased!writing[t] > 0
        <5>1. /\ Biased!writing'[t] = Biased!writing[t] - 1 /\ UNCHANGED Biased!reading
              /\ \A u \in LockUsers \ {t} : Biased!writing'[u] = Biased!writing[u]
              /\ Biased!writing[t] > 0
          <6>1. t \in Writers
            BY <3>6 DEF LockUsers
          <6> QED BY <3>1, <3>4, <3>6, <6>1 DEF Biased!reading, Biased!writing
        <5>2. /\ Biased!writing = [u \in LockUsers |-> Biased!writing[u]]
              /\ Biased!writing' = [u \in LockUsers |-> Biased!writing'[u]]
          BY DEF Biased!writing
        <5> QED BY <5>1, <5>2
      <4> QED BY <4>1 DEF Biased!RW!Next, Biased!RW!Leave
    <3> QED BY <3>5, <3>6
  <2>3. ASSUME NEW t \in LockUsers, NEW c \in {"asleep", "woken", "aborted"},
               biased_lock_pc[t] # "in", biased_lock_pc' = [biased_lock_pc EXCEPT ![t] = c]
        PROVE  UNCHANGED <<Biased!reading, Biased!writing>>
    BY <2>0, <2>3 DEF Biased!reading, Biased!writing
  <2>4. ASSUME NEW t \in LockUsers, Biased!Lock(t)
        PROVE  Biased!RW!Next \/ UNCHANGED <<Biased!reading, Biased!writing>>
    <3>1. biased_lock_pc[t] \in {"out", "woken"}
      BY <2>4 DEF Biased!Lock
    <3>2. CASE Biased!Enter(t)
      BY <2>1, <3>1, <3>2
    <3>3. CASE Biased!Abort(t) \/ Biased!Block(t)
      <4>1. \/ biased_lock_pc' = [biased_lock_pc EXCEPT ![t] = "aborted"]
            \/ biased_lock_pc' = [biased_lock_pc EXCEPT ![t] = "asleep"]
        BY <3>3 DEF Biased!Abort, Biased!Block
      <4> QED BY <2>3, <3>1, <4>1
    <3> QED BY <2>4, <3>2, <3>3 DEF Biased!Lock
  <2>5. ASSUME NEW t \in LockUsers, Biased!SpuriousWakeup(t)
        PROVE  UNCHANGED <<Biased!reading, Biased!writing>>
    BY <2>3, <2>5 DEF Biased!SpuriousWakeup
  <2>6. CASE UNCHANGED Biased!vars
    BY <2>6 DEF Biased!vars, Biased!reading, Biased!writing
  <2> QED BY <2>2, <2>4, <2>5, <2>6 DEF Biased!Next, Biased!Step
<1> QED BY <1>1, <1>2, BiasedAlways, PTL DEF Biased!Spec, Biased!RW!Spec

-----------------------------------------------------------------------------
(* The lock that takes turns *)

LEMMA TurnRuns == SyncSpec => Turn!Spec
<1>1. SyncInit => Turn!Init
  BY DEF SyncInit
<1>2. [SyncNext]_syncVars => [Turn!Next]_Turn!vars
  BY DEF SyncNext, syncVars, varsTurn, Turn!vars, OthersBarrier, OthersSem, OthersPair,
         OthersPause, OthersQueue, OthersLight, OthersStrict, OthersBiased, OthersCentre,
         OthersFirst, OthersDining, OthersRing
<1> QED BY <1>1, <1>2, PTL DEF SyncSpec, Turn!Spec

\* The threads that have the turn lock, wait for it, and were woken to try again.
TurnIn == {t \in LockUsers : turn_lock_pc[t] \in {"locked", "on"}}
TurnWaits(k) ==
    {t \in LockUsers : turn_lock_pc[t] \in {"asleep", "woken"} /\ Turn!Kind(t) = k}
TurnWoken(k) == {t \in LockUsers : turn_lock_pc[t] = "woken" /\ Turn!Kind(t) = k}

\* No assert of the lock fails.
TurnTyped ==
    /\ limit \in [reader : 1..MaxReaders, writer : 1..MaxWriters]
    /\ turn_lock_n_locks \in Nat
    /\ turn_lock_locked_by \in {"none", "reader", "writer"}
    /\ dont_allow \subseteq LockKinds
    /\ waiting \in [LockKinds -> Nat]
    /\ turn_lock_pc \in [LockUsers -> {"out", "asleep", "woken", "locked", "on"}]

\* n_locks is the number of threads in, which are of the kind that has the lock.
TurnHolders ==
    /\ turn_lock_n_locks = Cardinality(TurnIn)
    /\ turn_lock_locked_by = "none" <=> turn_lock_n_locks = 0
    /\ \A k \in LockKinds : turn_lock_locked_by = k =>
           turn_lock_n_locks <= limit[k] /\ \A t \in TurnIn : Turn!Kind(t) = k

\* The waiting are counted.
TurnWaiters == \A k \in LockKinds : waiting[k] = Cardinality(TurnWaits(k))

\* The door is closed to a kind that is not in, and for a reason.
TurnDoors == Turn!DoorsReopen /\ \A k \in dont_allow : turn_lock_locked_by # k

\* A thread sleeps at a closed door, while the other kind is in, or when those
\* awake of its own kind fill up the room.
TurnRoomTaken ==
    \A t \in LockUsers : turn_lock_pc[t] = "asleep" =>
        \/ turn_lock_locked_by = Turn!Other(Turn!Kind(t))
        \/ Turn!Kind(t) \in dont_allow
        \/ /\ turn_lock_locked_by = Turn!Kind(t)
           /\ turn_lock_n_locks + Cardinality(TurnWoken(Turn!Kind(t)))
                  >= limit[Turn!Kind(t)]

TurnInv == TurnTyped /\ TurnHolders /\ TurnWaiters /\ TurnDoors /\ TurnRoomTaken

LEMMA TurnKinds ==
    /\ Turn!Users = LockUsers /\ Turn!Kinds = LockKinds
    /\ \A t \in LockUsers : Turn!Kind(t) \in LockKinds
    /\ \A k \in LockKinds :
           /\ Turn!Other(k) \in LockKinds /\ Turn!Other(k) # k
           /\ Turn!Other(Turn!Other(k)) = k
           /\ \A j \in LockKinds : j = k \/ j = Turn!Other(k)
BY DEF Turn!Users, Turn!Kinds, LockUsers, Turn!Kind, LockKinds, Turn!Other

LEMMA TurnLimits ==
    ASSUME TurnTyped
    PROVE  \A k \in LockKinds : limit[k] \in Nat \ {0}
BY LockUsersAssumption DEF TurnTyped, LockKinds

LEMMA TurnStarts == Turn!Init => TurnInv
<1> SUFFICES ASSUME Turn!Init PROVE TurnInv
  OBVIOUS
<1> USE TurnKinds
<1>1. /\ TurnIn = {} /\ Cardinality({}) = 0 /\ \A k \in LockKinds : TurnWaits(k) = {}
      /\ \A t \in LockUsers : turn_lock_pc[t] = "out"
  BY FS_EmptySet DEF Turn!Init, TurnIn, TurnWaits
<1>2. TurnTyped
  BY DEF Turn!Init, TurnTyped
<1>3. TurnHolders /\ TurnWaiters /\ TurnDoors /\ TurnRoomTaken
  BY <1>1 DEF Turn!Init, TurnHolders, TurnWaiters, TurnDoors, Turn!DoorsReopen, TurnRoomTaken,
              LockKinds
<1> QED BY <1>2, <1>3 DEF TurnInv

\* A thread that gets the lock is counted in, and out of the waiting.
LEMMA TurnEnters ==
    ASSUME TurnInv, NEW t \in LockUsers, turn_lock_pc[t] \in {"out", "woken"},
           Turn!Enter(t)
    PROVE  /\ TurnInv' /\ turn_lock_pc' = [turn_lock_pc EXCEPT ![t] = "locked"]
           /\ ~Turn!MustWait(Turn!Kind(t))
<1> USE TurnKinds
<1>0. TurnTyped /\ TurnHolders /\ TurnWaiters /\ TurnDoors /\ TurnRoomTaken
  BY DEF TurnInv
<1>k. PICK k \in LockKinds : k = Turn!Kind(t)
  OBVIOUS
<1>1. turn_lock_n_locks \in Nat /\ limit[k] \in Nat \ {0}
  BY <1>0, TurnLimits DEF TurnTyped
<1>2. ~Turn!MustWait(k)
  <2>1. turn_lock_locked_by = "none" /\ k \notin dont_allow => ~Turn!MustWait(k)
    BY <1>0, <1>1 DEF Turn!MustWait, TurnHolders, LockKinds
  <2> QED BY <1>k, <2>1, <1>0 DEF Turn!Enter, TurnHolders
<1>3. /\ turn_lock_pc' = [turn_lock_pc EXCEPT ![t] = "locked"]
      /\ limit' = limit /\ dont_allow' = dont_allow
      /\ turn_lock_n_locks' = turn_lock_n_locks + 1
      /\ turn_lock_locked_by' = IF turn_lock_n_locks = 0 THEN k ELSE turn_lock_locked_by
      /\ waiting' = [waiting EXCEPT ![k] = IF turn_lock_pc[t] = "woken" THEN @ - 1 ELSE @]
  BY <1>0, <1>k DEF Turn!Enter, TurnHolders
<1>4. /\ turn_lock_locked_by' = k /\ k \notin dont_allow
      /\ turn_lock_n_locks > 0 => turn_lock_locked_by = k
      /\ turn_lock_n_locks + 1 <= limit[k]
  BY <1>0, <1>1, <1>2, <1>3 DEF Turn!MustWait, TurnHolders, TurnTyped, LockKinds
<1>5. /\ \A u \in LockUsers : u # t => turn_lock_pc'[u] = turn_lock_pc[u]
      /\ turn_lock_pc'[t] = "locked"
      /\ turn_lock_pc' \in [LockUsers -> {"out", "asleep", "woken", "locked", "on"}]
  BY <1>0, <1>3 DEF TurnTyped
<1>6. TurnHolders'
  <2>1. TurnIn' = TurnIn \cup {t} /\ t \notin TurnIn /\ TurnIn \in SUBSET LockUsers
    BY <1>5 DEF TurnIn
  <2>2. Cardinality(TurnIn \cup {t}) = Cardinality(TurnIn) + 1
    BY <2>1, GroupSize
  <2>3. \A u \in TurnIn \cup {t} : Turn!Kind(u) = k
    <3>1. CASE turn_lock_n_locks > 0
      BY <1>0, <1>k, <1>4, <3>1 DEF TurnHolders
    <3>2. CASE turn_lock_n_locks = 0
      BY <1>0, <1>k, <2>1, <3>2, GroupSize DEF TurnHolders
    <3> QED BY <1>1, <3>1, <3>2
  <2> QED BY <1>0, <1>1, <1>3, <1>4, <2>1, <2>2, <2>3 DEF TurnHolders, LockKinds
<1>7. /\ \A j \in LockKinds : j # k => TurnWaits(j)' = TurnWaits(j)
      /\ TurnWaits(k)' = TurnWaits(k) \ {t}
      /\ \A j \in LockKinds : TurnWoken(j)' = TurnWoken(j) \ {t}
      /\ \A j \in LockKinds : TurnWaits(j) \in SUBSET LockUsers
      /\ \A j \in LockKinds : TurnWoken(j) \in SUBSET LockUsers
  BY <1>k, <1>5 DEF TurnWaits, TurnWoken
<1>8. TurnWaiters' /\ waiting' \in [LockKinds -> Nat]
  <2>0. /\ waiting \in [LockKinds -> Nat]
        /\ \A j \in LockKinds : waiting[j] = Cardinality(TurnWaits(j))
    BY <1>0 DEF TurnTyped, TurnWaiters
  <2>1. CASE turn_lock_pc[t] = "woken"
    <3>1. t \in TurnWaits(k)
      BY <1>k, <2>1 DEF TurnWaits
    <3>2. Cardinality(TurnWaits(k) \ {t}) = waiting[k] - 1
          /\ Cardinality(TurnWaits(k) \ {t}) \in Nat
      BY <1>7, <2>0, <3>1, GroupSize
    <3> QED BY <1>3, <1>7, <2>0, <2>1, <3>2 DEF TurnWaiters
  <2>2. CASE turn_lock_pc[t] # "woken"
    <3>1. TurnWaits(k) \ {t} = TurnWaits(k)
      BY <2>2 DEF TurnWaits
    <3> QED BY <1>3, <1>7, <2>0, <2>2, <3>1 DEF TurnWaiters
  <2> QED BY <2>1, <2>2
<1>9. TurnTyped'
  BY <1>0, <1>3, <1>4, <1>5, <1>8 DEF TurnTyped, LockKinds
<1>10. TurnDoors'
  <2>1. \A j \in dont_allow : j = Turn!Other(k)
    BY <1>0, <1>4 DEF TurnTyped
  <2> QED BY <1>3, <1>4, <2>1 DEF TurnDoors, Turn!DoorsReopen
<1>11. TurnRoomTaken'
  <2> SUFFICES ASSUME NEW u \in LockUsers, turn_lock_pc'[u] = "asleep", Turn!Kind(u) = k
               PROVE  turn_lock_n_locks' + Cardinality(TurnWoken(k))' >= limit'[k]
    BY <1>k, <1>4 DEF TurnRoomTaken
  <2>1. turn_lock_pc[u] = "asleep"
    BY <1>5
  <2>2. turn_lock_n_locks + Cardinality(TurnWoken(k)) >= limit[k]
    BY <1>0, <1>2, <2>1 DEF TurnRoomTaken, Turn!MustWait
  <2>3. Cardinality(TurnWoken(k) \ {t}) >= Cardinality(TurnWoken(k)) - 1
        /\ Cardinality(TurnWoken(k)) \in Nat /\ Cardinality(TurnWoken(k) \ {t}) \in Nat
    <3>1. CASE t \in TurnWoken(k)
      BY <1>7, <3>1, GroupSize
    <3>2. CASE t \notin TurnWoken(k)
      <4>1. TurnWoken(k) \ {t} = TurnWoken(k)
        BY <3>2
      <4>2. Cardinality(TurnWoken(k)) \in Nat
        BY <1>7, GroupSize
      <4> QED BY <4>1, <4>2
    <3> QED BY <3>1, <3>2
  <2>4. Cardinality(TurnWoken(k))' = Cardinality(TurnWoken(k) \ {t})
    BY <1>7
  <2> QED BY <1>1, <1>3, <2>2, <2>3, <2>4
<1> QED BY <1>k, <1>2, <1>3, <1>6, <1>8, <1>9, <1>10, <1>11 DEF TurnInv

\* A thread that falls asleep is counted once; whoever is on the way in past the
\* other kind's closed door does not fall asleep.
LEMMA TurnBlocks ==
    ASSUME TurnInv, NEW t \in LockUsers, turn_lock_pc[t] \in {"out", "woken"},
           Turn!Block(t)
    PROVE  TurnInv'
<1> USE TurnKinds
<1>0. TurnTyped /\ TurnHolders /\ TurnWaiters /\ TurnDoors /\ TurnRoomTaken
  BY DEF TurnInv
<1>k. PICK k \in LockKinds : k = Turn!Kind(t)
  OBVIOUS
<1>1. turn_lock_n_locks \in Nat /\ limit[k] \in Nat \ {0}
  BY <1>0, TurnLimits DEF TurnTyped
<1>2. /\ turn_lock_pc' = [turn_lock_pc EXCEPT ![t] = "asleep"]
      /\ limit' = limit /\ dont_allow' = dont_allow
      /\ turn_lock_n_locks' = turn_lock_n_locks
      /\ turn_lock_locked_by' = turn_lock_locked_by
      /\ waiting' = [waiting EXCEPT ![k] = IF turn_lock_pc[t] = "woken" THEN @ ELSE @ + 1]
      /\ Turn!MustWait(k)
  BY <1>k DEF Turn!Block
<1>3. turn_lock_locked_by = Turn!Other(k) \/ k \in dont_allow
      \/ (turn_lock_locked_by = k /\ turn_lock_n_locks = limit[k])
  BY <1>0, <1>1, <1>2 DEF Turn!MustWait, TurnHolders, TurnTyped, LockKinds
<1>5. /\ \A u \in LockUsers : u # t => turn_lock_pc'[u] = turn_lock_pc[u]
      /\ turn_lock_pc'[t] = "asleep"
      /\ turn_lock_pc' \in [LockUsers -> {"out", "asleep", "woken", "locked", "on"}]
  BY <1>0, <1>2 DEF TurnTyped
<1>6. TurnHolders'
  <2>1. TurnIn' = TurnIn
    BY <1>5 DEF TurnIn
  <2> QED BY <1>0, <1>2, <2>1 DEF TurnHolders
<1>7. /\ \A j \in LockKinds : j # k => TurnWaits(j)' = TurnWaits(j)
      /\ TurnWaits(k)' = TurnWaits(k) \cup {t}
      /\ \A j \in LockKinds : j # k => TurnWoken(j)' = TurnWoken(j)
      /\ \A j \in LockKinds : TurnWaits(j) \in SUBSET LockUsers
      /\ \A j \in LockKinds : TurnWoken(j)' \in SUBSET LockUsers
  BY <1>k, <1>5 DEF TurnWaits, TurnWoken
<1>8. TurnWaiters' /\ waiting' \in [LockKinds -> Nat]
  <2>0. /\ waiting \in [LockKinds -> Nat]
        /\ \A j \in LockKinds : waiting[j] = Cardinality(TurnWaits(j))
    BY <1>0 DEF TurnTyped, TurnWaiters
  <2>1. CASE turn_lock_pc[t] = "out"
    <3>1. t \notin TurnWaits(k)
      BY <2>1 DEF TurnWaits
    <3>2. Cardinality(TurnWaits(k) \cup {t}) = waiting[k] + 1
      BY <1>7, <2>0, <3>1, GroupSize
    <3>3. waiting' = [waiting EXCEPT ![k] = waiting[k] + 1] /\ waiting[k] + 1 \in Nat
      BY <1>2, <2>0, <2>1
    <3>4. waiting' \in [LockKinds -> Nat] /\ waiting'[k] = waiting[k] + 1
          /\ \A j \in LockKinds : j # k => waiting'[j] = waiting[j]
      BY <2>0, <3>3
    <3>5. \A j \in LockKinds : waiting'[j] = Cardinality(TurnWaits(j))'
      BY <1>7, <2>0, <3>2, <3>4
    <3> QED BY <3>4, <3>5 DEF TurnWaiters
  <2>2. CASE turn_lock_pc[t] = "woken"
    <3>1. TurnWaits(k) \cup {t} = TurnWaits(k)
      BY <1>k, <2>2 DEF TurnWaits
    <3>2. waiting' = waiting
      <4>1. PICK v : v = waiting
        OBVIOUS
      <4>2. waiting' = [v EXCEPT ![k] = v[k]]
        BY <1>2, <2>2, <4>1, Zenon
      <4>3. v \in [LockKinds -> Nat]
        BY <2>0, <4>1
      <4>4. [v EXCEPT ![k] = v[k]] = v
        BY <4>3
      <4> QED BY <4>1, <4>2, <4>4
    <3>3. \A j \in LockKinds : TurnWaits(j)' = TurnWaits(j)
      BY <1>7, <3>1
    <3>4. \A j \in LockKinds : waiting'[j] = Cardinality(TurnWaits(j))'
      BY <2>0, <3>2, <3>3
    <3> QED BY <2>0, <3>2, <3>4 DEF TurnWaiters
  <2> QED BY <2>1, <2>2
<1>9. TurnTyped'
  BY <1>0, <1>2, <1>5, <1>8 DEF TurnTyped
<1>10. TurnDoors'
  <2> SUFFICES ASSUME NEW j \in dont_allow, turn_lock_locked_by # Turn!Other(j)
               PROVE  \E u \in LockUsers :
                          turn_lock_pc'[u] = "woken" /\ Turn!Kind(u) = Turn!Other(j)
    BY <1>0, <1>2 DEF TurnDoors, Turn!DoorsReopen
  <2>1. /\ j \in LockKinds /\ turn_lock_locked_by # j /\ Turn!Other(j) \notin dont_allow
        /\ \E u \in LockUsers : turn_lock_pc[u] = "woken" /\ Turn!Kind(u) = Turn!Other(j)
    <3>1. j \in LockKinds
      BY <1>0 DEF TurnTyped
    <3>2. dont_allow = LockKinds \/ Turn!Other(j) \notin dont_allow
      BY <1>0, <3>1 DEF TurnTyped
    <3> QED BY <1>0, <3>1, <3>2 DEF TurnDoors, Turn!DoorsReopen
  <2>2. k = j
    <3>1. ASSUME k = Turn!Other(j) PROVE FALSE
      BY <1>3, <2>1, <3>1
    <3> QED BY <2>1, <3>1
  <2> QED BY <1>k, <1>5, <2>1, <2>2
<1>11. TurnRoomTaken'
  <2> SUFFICES ASSUME NEW u \in LockUsers, turn_lock_pc'[u] = "asleep",
                      turn_lock_locked_by # Turn!Other(Turn!Kind(u)),
                      Turn!Kind(u) \notin dont_allow
               PROVE  /\ turn_lock_locked_by = Turn!Kind(u)
                      /\ turn_lock_n_locks + Cardinality(TurnWoken(Turn!Kind(u)))'
                             >= limit[Turn!Kind(u)]
    BY <1>2 DEF TurnRoomTaken
  <2>1. CASE Turn!Kind(u) = k
    <3>1. turn_lock_locked_by = k /\ turn_lock_n_locks = limit[k]
      BY <1>3, <2>1
    <3>2. Cardinality(TurnWoken(k))' \in Nat
      BY <1>7, GroupSize
    <3> QED BY <1>1, <2>1, <3>1, <3>2
  <2>2. CASE Turn!Kind(u) # k
    <3>1. turn_lock_pc[u] = "asleep"
      BY <1>k, <1>5, <2>2
    <3> QED BY <1>0, <1>7, <2>2, <3>1 DEF TurnRoomTaken
  <2> QED BY <2>1, <2>2
<1> QED BY <1>6, <1>8, <1>9, <1>10, <1>11 DEF TurnInv

\* A wait returns without a signal.
LEMMA TurnWakes ==
    ASSUME TurnInv, NEW t \in LockUsers, Turn!SpuriousWakeup(t)
    PROVE  TurnInv'
<1> USE TurnKinds
<1>0. TurnTyped /\ TurnHolders /\ TurnWaiters /\ TurnDoors /\ TurnRoomTaken
  BY DEF TurnInv
<1>1. /\ turn_lock_pc' = [turn_lock_pc EXCEPT ![t] = "woken"]
      /\ turn_lock_pc[t] = "asleep"
      /\ limit' = limit /\ dont_allow' = dont_allow /\ waiting' = waiting
      /\ turn_lock_n_locks' = turn_lock_n_locks
      /\ turn_lock_locked_by' = turn_lock_locked_by
  BY DEF Turn!SpuriousWakeup
<1>2. /\ \A u \in LockUsers : u # t => turn_lock_pc'[u] = turn_lock_pc[u]
      /\ turn_lock_pc'[t] = "woken"
      /\ turn_lock_pc' \in [LockUsers -> {"out", "asleep", "woken", "locked", "on"}]
  BY <1>0, <1>1 DEF TurnTyped
<1>3. TurnTyped'
  BY <1>0, <1>1, <1>2 DEF TurnTyped
<1>4. TurnHolders' /\ TurnWaiters'
  <2>1. TurnIn' = TurnIn /\ \A j \in LockKinds : TurnWaits(j)' = TurnWaits(j)
    BY <1>1, <1>2 DEF TurnIn, TurnWaits
  <2> QED BY <1>0, <1>1, <2>1 DEF TurnHolders, TurnWaiters
<1>5. TurnDoors'
  <2>1. \A u \in LockUsers : turn_lock_pc[u] = "woken" => turn_lock_pc'[u] = "woken"
    BY <1>2
  <2> QED BY <1>0, <1>1, <2>1 DEF TurnDoors, Turn!DoorsReopen
<1>6. TurnRoomTaken'
  <2> SUFFICES ASSUME NEW u \in LockUsers, turn_lock_pc'[u] = "asleep", NEW k \in LockKinds,
                      k = Turn!Kind(u), turn_lock_locked_by # Turn!Other(k),
                      k \notin dont_allow
               PROVE  /\ turn_lock_locked_by = k
                      /\ turn_lock_n_locks + Cardinality(TurnWoken(k))' >= limit[k]
    BY <1>1 DEF TurnRoomTaken
  <2>1. turn_lock_locked_by = k /\ turn_lock_n_locks + Cardinality(TurnWoken(k)) >= limit[k]
    BY <1>0, <1>2 DEF TurnRoomTaken
  <2>2. /\ TurnWoken(k)' \in {TurnWoken(k), TurnWoken(k) \cup {t}}
        /\ TurnWoken(k) \in SUBSET LockUsers /\ t \notin TurnWoken(k)
    BY <1>1, <1>2 DEF TurnWoken
  <2>3. Cardinality(TurnWoken(k) \cup {t}) = Cardinality(TurnWoken(k)) + 1
        /\ Cardinality(TurnWoken(k)) \in Nat
    BY <2>2, GroupSize
  <2>4. turn_lock_n_locks \in Nat /\ limit[k] \in Nat
    BY <1>0, TurnLimits DEF TurnTyped
  <2>5. CASE TurnWoken(k)' = TurnWoken(k)
    BY <2>1, <2>5
  <2>6. CASE TurnWoken(k)' = TurnWoken(k) \cup {t}
    BY <2>1, <2>3, <2>4, <2>6
  <2> QED BY <2>2, <2>5, <2>6
<1> QED BY <1>3, <1>4, <1>5, <1>6 DEF TurnInv

\* A vehicle is counted on the bridge.
LEMMA TurnArrives ==
    ASSUME TurnInv, NEW t \in LockUsers, Turn!Arrive(t)
    PROVE  TurnInv'
<1> USE TurnKinds
<1>0. TurnTyped /\ TurnHolders /\ TurnWaiters /\ TurnDoors /\ TurnRoomTaken
  BY DEF TurnInv
<1>1. /\ turn_lock_pc' = [turn_lock_pc EXCEPT ![t] = "on"]
      /\ turn_lock_pc[t] = "locked"
      /\ limit' = limit /\ dont_allow' = dont_allow /\ waiting' = waiting
      /\ turn_lock_n_locks' = turn_lock_n_locks
      /\ turn_lock_locked_by' = turn_lock_locked_by
  BY DEF Turn!Arrive
<1>2. /\ \A u \in LockUsers : u # t => turn_lock_pc'[u] = turn_lock_pc[u]
      /\ turn_lock_pc'[t] = "on"
      /\ turn_lock_pc' \in [LockUsers -> {"out", "asleep", "woken", "locked", "on"}]
  BY <1>0, <1>1 DEF TurnTyped
<1>3. /\ TurnIn' = TurnIn /\ \A j \in LockKinds : TurnWaits(j)' = TurnWaits(j)
      /\ \A j \in LockKinds : TurnWoken(j)' = TurnWoken(j)
  BY <1>1, <1>2 DEF TurnIn, TurnWaits, TurnWoken
<1>4. TurnTyped' /\ TurnHolders' /\ TurnWaiters'
  BY <1>0, <1>1, <1>2, <1>3 DEF TurnTyped, TurnHolders, TurnWaiters
<1>5. TurnDoors'
  <2>1. \A u \in LockUsers : turn_lock_pc[u] = "woken" => turn_lock_pc'[u] = "woken"
    BY <1>1, <1>2
  <2> QED BY <1>0, <1>1, <2>1 DEF TurnDoors, Turn!DoorsReopen
<1>6. TurnRoomTaken'
  <2>1. \A u \in LockUsers : turn_lock_pc'[u] = "asleep" => turn_lock_pc[u] = "asleep"
    BY <1>2
  <2> QED BY <1>0, <1>1, <1>3, <2>1 DEF TurnRoomTaken
<1> QED BY <1>4, <1>5, <1>6 DEF TurnInv

\* What an unlock does to the threads: the one that leaves is out, those it wakes
\* are awake, and the numbers of the others stay.
LEMMA TurnLeaves ==
    ASSUME TurnInv, NEW t \in LockUsers, turn_lock_pc[t] = "on", NEW W,
           \A u \in W : u \in LockUsers /\ turn_lock_pc[u] = "asleep",
           turn_lock_pc' = Turn!Wake(W, t)
    PROVE  /\ turn_lock_pc' \in [LockUsers -> {"out", "asleep", "woken", "locked", "on"}]
           /\ turn_lock_pc'[t] = "out" /\ \A u \in W : turn_lock_pc'[u] = "woken"
           /\ \A u \in LockUsers : (u # t /\ u \notin W) => turn_lock_pc'[u] = turn_lock_pc[u]
           /\ TurnIn' = TurnIn \ {t} /\ TurnIn \in SUBSET LockUsers
           /\ Cardinality(TurnIn)' = turn_lock_n_locks - 1 /\ turn_lock_n_locks \in Nat \ {0}
           /\ \A j \in LockKinds : TurnWaits(j)' = TurnWaits(j)
           /\ turn_lock_locked_by = Turn!Kind(t)
           /\ Turn!Kind(t) \notin dont_allow
           /\ turn_lock_n_locks <= limit[Turn!Kind(t)]
           /\ \A u \in TurnIn : Turn!Kind(u) = Turn!Kind(t)
<1> USE TurnKinds
<1>0. TurnTyped /\ TurnHolders /\ TurnWaiters /\ TurnDoors /\ TurnRoomTaken
  BY DEF TurnInv
<1>1. /\ turn_lock_pc' \in [LockUsers -> {"out", "asleep", "woken", "locked", "on"}]
      /\ turn_lock_pc'[t] = "out" /\ \A u \in W : turn_lock_pc'[u] = "woken"
      /\ \A u \in LockUsers : (u # t /\ u \notin W) => turn_lock_pc'[u] = turn_lock_pc[u]
  BY <1>0 DEF TurnTyped, Turn!Wake
<1>2. TurnIn' = TurnIn \ {t} /\ t \in TurnIn /\ TurnIn \in SUBSET LockUsers
  BY <1>1 DEF TurnIn
<1>3. /\ Cardinality(TurnIn \ {t}) = Cardinality(TurnIn) - 1
      /\ Cardinality(TurnIn) \in Nat \ {0}
  BY <1>2, GroupSize
<1>4. \A j \in LockKinds : TurnWaits(j)' = TurnWaits(j)
  BY <1>1 DEF TurnWaits
<1>5. turn_lock_n_locks = Cardinality(TurnIn) /\ turn_lock_locked_by = Turn!Kind(t)
  <2>1. turn_lock_n_locks = Cardinality(TurnIn) /\ turn_lock_locked_by # "none"
    BY <1>0, <1>3 DEF TurnHolders
  <2>2. turn_lock_locked_by \in LockKinds
    BY <1>0, <2>1 DEF TurnTyped, LockKinds
  <2> QED BY <1>0, <1>2, <2>1, <2>2 DEF TurnHolders
<1>6. /\ turn_lock_n_locks <= limit[Turn!Kind(t)]
      /\ \A u \in TurnIn : Turn!Kind(u) = Turn!Kind(t)
  BY <1>0, <1>5 DEF TurnHolders
<1>7. Turn!Kind(t) \notin dont_allow
  BY <1>0, <1>5 DEF TurnDoors
<1> QED BY <1>1, <1>2, <1>3, <1>4, <1>5, <1>6, <1>7

\* A thread of several leaves: one of its kind that sleeps replaces it.
LEMMA TurnReplaces ==
    ASSUME TurnInv, NEW t \in LockUsers, turn_lock_pc[t] = "on",
           Turn!Replace(t, turn_lock_locked_by)
    PROVE  /\ TurnInv'
           /\ \E W : /\ \A u \in W : u \in LockUsers /\ turn_lock_pc[u] = "asleep"
                     /\ turn_lock_pc' = Turn!Wake(W, t)
<1> USE TurnKinds
<1>0. TurnTyped /\ TurnHolders /\ TurnWaiters /\ TurnDoors /\ TurnRoomTaken
  BY DEF TurnInv
<1>k. PICK k \in LockKinds : k = turn_lock_locked_by
  <2>1. t \in TurnIn /\ TurnIn \in SUBSET LockUsers
    BY DEF TurnIn
  <2>2. turn_lock_n_locks # 0
    BY <1>0, <2>1, GroupSize DEF TurnHolders
  <2> QED BY <1>0, <2>2 DEF TurnHolders, TurnTyped, LockKinds
<1>1. /\ turn_lock_n_locks > 1 /\ turn_lock_n_locks' = turn_lock_n_locks - 1
      /\ limit' = limit /\ dont_allow' = dont_allow /\ waiting' = waiting
      /\ turn_lock_locked_by' = k
  BY <1>k DEF Turn!Replace
<1>2. PICK W : /\ turn_lock_pc' = Turn!Wake(W, t)
               /\ \/ W = {} /\ (Turn!Asleep(k) = {} \/ waiting[k] = 0)
                  \/ \E w \in Turn!Asleep(k) : W = {w}
  BY <1>k DEF Turn!Replace
<1>3. \A u \in W : u \in LockUsers /\ turn_lock_pc[u] = "asleep" /\ Turn!Kind(u) = k
  BY <1>2 DEF Turn!Asleep
<1>4. /\ turn_lock_pc' \in [LockUsers -> {"out", "asleep", "woken", "locked", "on"}]
      /\ turn_lock_pc'[t] = "out" /\ \A u \in W : turn_lock_pc'[u] = "woken"
      /\ \A u \in LockUsers : (u # t /\ u \notin W) => turn_lock_pc'[u] = turn_lock_pc[u]
      /\ TurnIn' = TurnIn \ {t}
      /\ Cardinality(TurnIn)' = turn_lock_n_locks - 1 /\ turn_lock_n_locks \in Nat
      /\ \A j \in LockKinds : TurnWaits(j)' = TurnWaits(j)
      /\ turn_lock_n_locks <= limit[k] /\ \A u \in TurnIn : Turn!Kind(u) = k
      /\ k \notin dont_allow
  BY <1>k, <1>2, <1>3, TurnLeaves
<1>5. limit[k] \in Nat
  BY <1>0, TurnLimits
<1>6. TurnTyped'
  BY <1>0, <1>1, <1>4 DEF TurnTyped, LockKinds
<1>7. TurnHolders' /\ TurnWaiters'
  BY <1>0, <1>1, <1>4, <1>5 DEF TurnHolders, TurnWaiters, LockKinds
<1>8. TurnDoors'
  <2>1. \A j \in dont_allow : j = Turn!Other(k)
    BY <1>0, <1>4 DEF TurnTyped
  <2> QED BY <1>0, <1>1, <2>1 DEF TurnDoors, Turn!DoorsReopen
<1>9. TurnRoomTaken'
  <2> SUFFICES ASSUME NEW u \in LockUsers, turn_lock_pc'[u] = "asleep", Turn!Kind(u) = k
               PROVE  turn_lock_n_locks - 1 + Cardinality(TurnWoken(k))' >= limit[k]
    BY <1>1 DEF TurnRoomTaken
  <2>1. turn_lock_pc[u] = "asleep"
    BY <1>3, <1>4
  <2>2. u \in Turn!Asleep(k) /\ u \in TurnWaits(k) /\ TurnWaits(k) \in SUBSET LockUsers
    BY <2>1 DEF Turn!Asleep, TurnWaits
  <2>3. waiting[k] # 0
    BY <1>0, <2>2, GroupSize DEF TurnWaiters
  <2>4. PICK w \in Turn!Asleep(k) : W = {w}
    BY <1>2, <2>2, <2>3
  <2>5. /\ TurnWoken(k)' = TurnWoken(k) \cup {w} /\ w \notin TurnWoken(k)
        /\ TurnWoken(k) \in SUBSET LockUsers /\ w \in LockUsers
    BY <1>4, <2>4 DEF TurnWoken, Turn!Asleep
  <2>6. Cardinality(TurnWoken(k) \cup {w}) = Cardinality(TurnWoken(k)) + 1
        /\ Cardinality(TurnWoken(k)) \in Nat
    BY <2>5, GroupSize
  <2>7. turn_lock_n_locks + Cardinality(TurnWoken(k)) >= limit[k]
    BY <1>0, <1>k, <1>4, <2>1 DEF TurnRoomTaken
  <2>8. Cardinality(TurnWoken(k))' = Cardinality(TurnWoken(k)) + 1
    BY <2>5, <2>6
  <2> QED BY <1>4, <1>5, <2>6, <2>7, <2>8
<1> QED BY <1>2, <1>3, <1>6, <1>7, <1>8, <1>9 DEF TurnInv

\* The last one leaves: nobody of the kind whose turn it is sleeps on, and the
\* door is closed to the other only when somebody of that kind is awake.
LEMMA TurnTurnsOver ==
    ASSUME TurnInv, NEW t \in LockUsers, turn_lock_pc[t] = "on",
           Turn!TurnOver(t, turn_lock_locked_by)
    PROVE  /\ TurnInv'
           /\ \E W : /\ \A u \in W : u \in LockUsers /\ turn_lock_pc[u] = "asleep"
                     /\ turn_lock_pc' = Turn!Wake(W, t)
<1> USE TurnKinds
<1>0. TurnTyped /\ TurnHolders /\ TurnWaiters /\ TurnDoors /\ TurnRoomTaken
  BY DEF TurnInv
<1>k. PICK k \in LockKinds : k = turn_lock_locked_by
  <2>1. t \in TurnIn /\ TurnIn \in SUBSET LockUsers
    BY DEF TurnIn
  <2>2. turn_lock_n_locks # 0
    BY <1>0, <2>1, GroupSize DEF TurnHolders
  <2> QED BY <1>0, <2>2 DEF TurnHolders, TurnTyped, LockKinds
<1>o. PICK o \in LockKinds : o = Turn!Other(k)
  OBVIOUS
<1>1. /\ turn_lock_n_locks = 1 /\ turn_lock_n_locks' = 0
      /\ limit' = limit /\ waiting' = waiting /\ turn_lock_locked_by' = "none"
  BY <1>k DEF Turn!TurnOver
<1>2. PICK W : /\ turn_lock_pc' = Turn!Wake(W, t)
               /\ \/ waiting[o] > 0 /\ W = Turn!Asleep(o) /\ dont_allow' = {k}
                  \/ /\ ~(waiting[o] > 0) /\ dont_allow' = dont_allow \ {o}
                     /\ W = IF waiting[k] > 0 THEN Turn!Asleep(k) ELSE {}
  BY <1>k, <1>o DEF Turn!TurnOver
<1>3. \A u \in W : u \in LockUsers /\ turn_lock_pc[u] = "asleep"
  BY <1>2 DEF Turn!Asleep
<1>4. /\ turn_lock_pc' \in [LockUsers -> {"out", "asleep", "woken", "locked", "on"}]
      /\ turn_lock_pc'[t] = "out" /\ \A u \in W : turn_lock_pc'[u] = "woken"
      /\ \A u \in LockUsers : (u # t /\ u \notin W) => turn_lock_pc'[u] = turn_lock_pc[u]
      /\ TurnIn' = TurnIn \ {t}
      /\ Cardinality(TurnIn)' = 0
      /\ \A j \in LockKinds : TurnWaits(j)' = TurnWaits(j)
      /\ k \notin dont_allow /\ k = Turn!Kind(t)
  BY <1>k, <1>1, <1>2, <1>3, TurnLeaves
<1>5. TurnTyped'
  BY <1>0, <1>1, <1>2, <1>4 DEF TurnTyped
<1>6. TurnHolders' /\ TurnWaiters'
  BY <1>0, <1>1, <1>4 DEF TurnHolders, TurnWaiters, LockKinds
<1>7. \A u \in LockUsers, j \in LockKinds :
          (turn_lock_pc[u] = "asleep" /\ Turn!Kind(u) = j) =>
              u \in Turn!Asleep(j) /\ waiting[j] > 0
  <2> SUFFICES ASSUME NEW u \in LockUsers, NEW j \in LockKinds,
                      turn_lock_pc[u] = "asleep", Turn!Kind(u) = j
               PROVE  u \in Turn!Asleep(j) /\ waiting[j] > 0
    OBVIOUS
  <2>1. u \in Turn!Asleep(j) /\ u \in TurnWaits(j) /\ TurnWaits(j) \in SUBSET LockUsers
    BY DEF Turn!Asleep, TurnWaits
  <2>2. Cardinality(TurnWaits(j)) > 0
    BY <2>1, GroupSize
  <2> QED BY <1>0, <2>1, <2>2 DEF TurnWaiters
<1>8. TurnDoors'
  <2>1. CASE waiting[o] > 0
    <3>1. Cardinality(TurnWaits(o)) > 0 /\ TurnWaits(o) \in SUBSET LockUsers
      BY <1>0, <2>1 DEF TurnWaiters, TurnWaits
    <3>2. PICK u \in LockUsers :
              turn_lock_pc[u] \in {"asleep", "woken"} /\ Turn!Kind(u) = o
      BY <3>1, GroupSize DEF TurnWaits
    <3>3. turn_lock_pc'[u] = "woken" /\ dont_allow' = {k}
      BY <1>2, <1>4, <2>1, <3>2 DEF Turn!Asleep
    <3> QED BY <1>1, <1>o, <3>2, <3>3 DEF TurnDoors, Turn!DoorsReopen, LockKinds
  <2>2. CASE ~(waiting[o] > 0)
    <3>1. dont_allow' = {}
      BY <1>0, <1>2, <1>o, <1>4, <2>2 DEF TurnTyped
    <3> QED BY <3>1 DEF TurnDoors, Turn!DoorsReopen, LockKinds
  <2> QED BY <2>1, <2>2
<1>9. TurnRoomTaken'
  <2> SUFFICES ASSUME NEW u \in LockUsers, turn_lock_pc'[u] = "asleep",
                      Turn!Kind(u) \notin dont_allow'
               PROVE  FALSE
    BY DEF TurnRoomTaken
  <2>1. turn_lock_pc[u] = "asleep" /\ u \notin W
    BY <1>3, <1>4
  <2> QED BY <1>2, <1>o, <1>7, <2>1
<1> QED BY <1>2, <1>3, <1>5, <1>6, <1>8, <1>9 DEF TurnInv

LEMMA TurnExits ==
    ASSUME TurnInv, NEW t \in LockUsers, Turn!Exit(t)
    PROVE  /\ TurnInv' /\ turn_lock_pc[t] = "on"
           /\ \E W : /\ \A u \in W : u \in LockUsers /\ turn_lock_pc[u] = "asleep"
                     /\ turn_lock_pc' = Turn!Wake(W, t)
<1>1. turn_lock_pc[t] = "on"
  BY DEF Turn!Exit
<1>2. turn_lock_n_locks # 0 /\ turn_lock_locked_by # "none"
  <2>1. t \in TurnIn /\ TurnIn \in SUBSET LockUsers
    BY <1>1 DEF TurnIn
  <2> QED BY <2>1, GroupSize DEF TurnInv, TurnHolders
<1>3. Turn!Replace(t, turn_lock_locked_by) \/ Turn!TurnOver(t, turn_lock_locked_by)
  BY <1>2 DEF Turn!Exit
<1> QED BY <1>1, <1>3, TurnReplaces, TurnTurnsOver

LEMMA TurnKeeps == TurnInv /\ [Turn!Next]_Turn!vars => TurnInv'
<1> SUFFICES ASSUME TurnInv, [Turn!Next]_Turn!vars PROVE TurnInv'
  OBVIOUS
<1>1. ASSUME NEW t \in LockUsers, Turn!Lock(t) PROVE TurnInv'
  BY <1>1, TurnEnters, TurnBlocks DEF Turn!Lock
<1>2. ASSUME NEW t \in LockUsers, Turn!Arrive(t) \/ Turn!Exit(t) \/ Turn!SpuriousWakeup(t)
      PROVE  TurnInv'
  BY <1>2, TurnArrives, TurnExits, TurnWakes
<1>3. CASE UNCHANGED Turn!vars
  BY <1>3 DEF Turn!vars, TurnInv, TurnTyped, TurnHolders, TurnWaiters, TurnDoors, TurnRoomTaken,
              TurnIn, TurnWaits, TurnWoken, Turn!DoorsReopen
<1> QED BY <1>1, <1>2, <1>3, TurnKinds DEF Turn!Next, Turn!Step

LEMMA TurnAlways == Turn!Spec => []TurnInv
BY TurnStarts, TurnKeeps, PTL DEF Turn!Spec

LEMMA TurnSameCardinality ==
    \A S : /\ Turn!Cardinality(S) = Cardinality(S)
           /\ Turn!RW!Cardinality(S) = Cardinality(S)
BY DEF Cardinality, Turn!Cardinality, Turn!RW!Cardinality

\* What the invariant says of those inside: one kind, within its limit.
LEMMA TurnInside ==
    ASSUME TurnInv
    PROVE  \E k \in LockKinds :
               /\ \A t \in TurnIn : Turn!Kind(t) = k
               /\ turn_lock_n_locks <= limit[k]
               /\ TurnIn # {} => k = turn_lock_locked_by
<1> USE TurnKinds
<1>0. TurnTyped /\ TurnHolders /\ TurnIn \in SUBSET LockUsers
  BY DEF TurnInv, TurnIn
<1>1. CASE TurnIn = {}
  <2>1. turn_lock_n_locks = 0 /\ "reader" \in LockKinds
    BY <1>0, <1>1, GroupSize DEF TurnHolders, LockKinds
  <2>2. limit["reader"] \in Nat
    BY <1>0, <2>1, TurnLimits
  <2> QED BY <1>1, <2>1, <2>2
<1>2. CASE TurnIn # {}
  <2>1. turn_lock_locked_by \in LockKinds
    BY <1>0, <1>2, GroupSize DEF TurnHolders, TurnTyped, LockKinds
  <2> QED BY <1>0, <2>1 DEF TurnHolders
<1> QED BY <1>1, <1>2

\* The lock that takes turns keeps its types.
THEOREM TurnTypeCorrect == SyncSpec => []Turn!TypeOK
<1>1. TurnInv => Turn!TypeOK
  <2> SUFFICES ASSUME TurnInv PROVE Turn!TypeOK
    OBVIOUS
  <2>1. TurnIn \in SUBSET LockUsers /\ \A k \in LockKinds : TurnWaits(k) \in SUBSET LockUsers
    BY DEF TurnIn, TurnWaits
  <2>2. turn_lock_n_locks \in 0..Cardinality(LockUsers)
    BY <2>1, GroupSize DEF TurnInv, TurnHolders
  <2>3. \A k \in LockKinds : waiting[k] \in 0..Cardinality(LockUsers)
    BY <2>1, GroupSize DEF TurnInv, TurnWaiters
  <2>4. waiting \in [LockKinds -> 0..Cardinality(LockUsers)]
    BY <2>3 DEF TurnInv, TurnTyped
  <2> QED BY <2>2, <2>4, TurnKinds, TurnSameCardinality
          DEF TurnInv, TurnTyped, Turn!TypeOK, Turn!PCs, LockKinds
<1> QED BY <1>1, TurnRuns, TurnAlways, PTL

\* The vehicles on the bridge go one way, as many as the lock admits, and no
\* assert of the lock fails.
THEOREM TurnRightOfWay == SyncSpec => []Turn!ChecksHold
<1>1. TurnInv => Turn!ChecksHold
  <2> SUFFICES ASSUME TurnInv PROVE Turn!ChecksHold
    OBVIOUS
  <2> USE TurnKinds
  <2>1. PICK k \in LockKinds : /\ \A t \in TurnIn : Turn!Kind(t) = k
                               /\ turn_lock_n_locks <= limit[k]
    BY TurnInside
  <2>2. PICK o \in LockKinds : o = Turn!Other(k) /\ k = Turn!Other(o)
    OBVIOUS
  <2>3. Turn!On(o) = {} /\ Turn!On(k) \in SUBSET TurnIn
    BY <2>1, <2>2 DEF Turn!On, TurnIn
  <2>4. Cardinality(Turn!On(k)) <= Cardinality(TurnIn)
    <3>1. TurnIn \in SUBSET LockUsers
      BY DEF TurnIn
    <3>2. IsFiniteSet(TurnIn)
      BY <3>1, LockUsersAssumption, FS_Union, FS_Subset DEF LockUsers
    <3> QED BY <2>3, <3>2, FS_Subset
  <2>5. Cardinality(Turn!On(k)) <= limit[k]
    <3>1. Cardinality(Turn!On(k)) \in Nat /\ Cardinality(TurnIn) \in Nat /\ limit[k] \in Nat
      BY GroupSize, TurnLimits DEF TurnInv, TurnIn, Turn!On
    <3> QED BY <2>1, <2>4, <3>1 DEF TurnInv, TurnHolders
  <2>6. Turn!bridge_access
    BY <2>2, <2>3, <2>5, TurnSameCardinality DEF Turn!bridge_access
  <2>7. \A t \in LockUsers : turn_lock_pc[t] # "aborted"
    BY DEF TurnInv, TurnTyped
  <2> QED BY <2>6, <2>7 DEF Turn!ChecksHold
<1> QED BY <1>1, TurnRuns, TurnAlways, PTL

\* No vehicle sleeps on while it might go, and a closed door will open.
THEOREM TurnWakeup == SyncSpec => [](Turn!NoLostWakeup /\ Turn!DoorsReopen)
<1>1. TurnInv => Turn!NoLostWakeup
  <2> SUFFICES ASSUME TurnInv, NEW t \in LockUsers, turn_lock_pc[t] = "asleep",
                      ~Turn!MustWait(Turn!Kind(t))
               PROVE  \E u \in LockUsers :
                          turn_lock_pc[u] = "woken" /\ Turn!Kind(u) = Turn!Kind(t)
    BY TurnKinds DEF Turn!NoLostWakeup
  <2>k. PICK k \in LockKinds : k = Turn!Kind(t)
    BY TurnKinds
  <2>1. /\ turn_lock_locked_by = k /\ turn_lock_n_locks # limit[k]
        /\ turn_lock_n_locks + Cardinality(TurnWoken(k)) >= limit[k]
    BY <2>k DEF TurnInv, TurnRoomTaken, Turn!MustWait
  <2>2. turn_lock_n_locks <= limit[k] /\ turn_lock_n_locks \in Nat /\ limit[k] \in Nat
    BY <2>1, TurnLimits DEF TurnInv, TurnHolders, TurnTyped
  <2>3. TurnWoken(k) \in SUBSET LockUsers
    BY DEF TurnWoken
  <2>4. TurnWoken(k) # {}
    <3>1. ASSUME Cardinality(TurnWoken(k)) = 0 PROVE FALSE
      BY <2>1, <2>2, <3>1
    <3> QED BY <2>3, <3>1, GroupSize
  <2> QED BY <2>k, <2>4 DEF TurnWoken
<1>2. TurnInv => Turn!DoorsReopen
  BY DEF TurnInv, TurnDoors
<1> QED BY <1>1, <1>2, TurnRuns, TurnAlways, PTL

\* A lock is an entry of the abstract lock, an unlock an exit, and nothing else
\* is a step of it.
LEMMA TurnEnterRefines ==
    ASSUME TurnInv, NEW t \in LockUsers, turn_lock_pc[t] \in {"out", "woken"},
           Turn!Enter(t)
    PROVE  Turn!RW!Next
<1> USE TurnKinds
<1>k. PICK k \in LockKinds : k = Turn!Kind(t)
  OBVIOUS
<1>1. /\ turn_lock_pc' = [turn_lock_pc EXCEPT ![t] = "locked"]
      /\ turn_lock_locked_by # Turn!Other(k) /\ turn_lock_n_locks # limit[k]
  BY <1>k, TurnEnters DEF Turn!MustWait
<1>2. /\ \A u \in LockUsers : u # t => turn_lock_pc'[u] = turn_lock_pc[u]
      /\ turn_lock_pc'[t] = "locked" /\ turn_lock_pc[t] \notin {"locked", "on"}
  BY <1>1 DEF TurnInv, TurnTyped
<1>3. /\ \A u \in TurnIn : Turn!Kind(u) = k
      /\ Cardinality(TurnIn) < limit[k]
      /\ TurnIn \in SUBSET LockUsers
  <2>0. /\ TurnIn \in SUBSET LockUsers /\ turn_lock_n_locks = Cardinality(TurnIn)
        /\ limit[k] \in Nat \ {0} /\ turn_lock_n_locks \in Nat
    BY TurnLimits DEF TurnIn, TurnInv, TurnTyped, TurnHolders
  <2>1. CASE TurnIn = {}
    BY <2>0, <2>1, GroupSize
  <2>2. CASE TurnIn # {}
    <3>1. PICK j \in LockKinds : /\ \A u \in TurnIn : Turn!Kind(u) = j
                                 /\ turn_lock_n_locks <= limit[j]
                                 /\ j = turn_lock_locked_by
      BY <2>2, TurnInside
    <3>2. j = k
      BY <1>1, <3>1
    <3> QED BY <1>1, <2>0, <3>1, <3>2
  <2> QED BY <2>1, <2>2
<1>4. CASE t \in Readers
  <2>1. k = "reader"
    BY <1>k, <1>4 DEF Turn!Kind
  <2>2. /\ Turn!reading'[t] = Turn!reading[t] + 1 /\ UNCHANGED Turn!writing
        /\ \A u \in LockUsers \ {t} : Turn!reading'[u] = Turn!reading[u]
    BY <1>2, <1>4, LockUsersAssumption DEF Turn!reading, Turn!writing
  <2>3. Turn!reading' = [Turn!reading EXCEPT ![t] = @ + 1]
    BY <2>2 DEF Turn!reading
  <2>4. Turn!RW!Inside(Turn!writing) = {} /\ Turn!RW!Inside(Turn!reading) = TurnIn
    BY <1>3, <2>1, LockUsersAssumption
       DEF Turn!RW!Inside, TurnIn, Turn!reading, Turn!writing, LockUsers, Turn!Kind
  <2>5. limit[k] <= MaxReaders /\ limit[k] \in Nat /\ Cardinality(TurnIn) \in Nat
    BY <1>3, <2>1, GroupSize, LockUsersAssumption DEF TurnInv, TurnTyped
  <2>6. Turn!RW!Cardinality(TurnIn) < MaxReaders
    BY <1>3, <2>5, TurnSameCardinality, LockUsersAssumption
  <2>7. Turn!RW!EnterRead(t)
    BY <2>2, <2>3, <2>4, <2>6 DEF Turn!RW!EnterRead
  <2> QED BY <2>7 DEF Turn!RW!Next
<1>5. CASE t \notin Readers
  <2>1. k = "writer" /\ t \in Writers
    BY <1>k, <1>5 DEF Turn!Kind, LockUsers
  <2>2. /\ Turn!writing'[t] = Turn!writing[t] + 1 /\ UNCHANGED Turn!reading
        /\ \A u \in LockUsers \ {t} : Turn!writing'[u] = Turn!writing[u]
    BY <1>2, <1>5, <2>1 DEF Turn!reading, Turn!writing
  <2>3. Turn!writing' = [Turn!writing EXCEPT ![t] = @ + 1]
    BY <2>2 DEF Turn!writing
  <2>4. Turn!RW!Inside(Turn!reading) = {} /\ Turn!RW!Inside(Turn!writing) = TurnIn
    BY <1>3, <2>1, LockUsersAssumption
       DEF Turn!RW!Inside, TurnIn, Turn!reading, Turn!writing, LockUsers, Turn!Kind
  <2>5. limit[k] <= MaxWriters /\ limit[k] \in Nat /\ Cardinality(TurnIn) \in Nat
    BY <1>3, <2>1, GroupSize, LockUsersAssumption DEF TurnInv, TurnTyped
  <2>6. Turn!RW!Cardinality(TurnIn) < MaxWriters
    BY <1>3, <2>5, TurnSameCardinality, LockUsersAssumption
  <2>7. Turn!RW!EnterWrite(t)
    BY <2>2, <2>3, <2>4, <2>6 DEF Turn!RW!EnterWrite
  <2> QED BY <2>7 DEF Turn!RW!Next
<1> QED BY <1>4, <1>5

LEMMA TurnExitRefines ==
    ASSUME TurnInv, NEW t \in LockUsers, Turn!Exit(t)
    PROVE  Turn!RW!Next
<1> USE TurnKinds
<1>1. turn_lock_pc[t] = "on"
  BY TurnExits
<1>2. PICK W : /\ \A u \in W : u \in LockUsers /\ turn_lock_pc[u] = "asleep"
               /\ turn_lock_pc' = Turn!Wake(W, t)
  BY TurnExits
<1>3. \A u \in LockUsers :
          (turn_lock_pc'[u] \in {"locked", "on"}) <=>
              (turn_lock_pc[u] \in {"locked", "on"} /\ u # t)
  BY <1>2 DEF Turn!Wake
<1>4. CASE t \in Readers
  <2>1. /\ Turn!reading'[t] = Turn!reading[t] - 1 /\ UNCHANGED Turn!writing
        /\ \A u \in LockUsers \ {t} : Turn!reading'[u] = Turn!reading[u]
        /\ Turn!reading[t] > 0
    BY <1>1, <1>3, <1>4, LockUsersAssumption DEF Turn!reading, Turn!writing
  <2>2. Turn!reading' = [Turn!reading EXCEPT ![t] = @ - 1]
    BY <2>1 DEF Turn!reading
  <2> QED BY <2>1, <2>2 DEF Turn!RW!Next, Turn!RW!Leave
<1>5. CASE t \notin Readers
  <2>0. t \in Writers
    BY <1>5 DEF LockUsers
  <2>1. /\ Turn!writing'[t] = Turn!writing[t] - 1 /\ UNCHANGED Turn!reading
        /\ \A u \in LockUsers \ {t} : Turn!writing'[u] = Turn!writing[u]
        /\ Turn!writing[t] > 0
    BY <1>1, <1>3, <1>5, <2>0 DEF Turn!reading, Turn!writing
  <2>2. Turn!writing' = [Turn!writing EXCEPT ![t] = @ - 1]
    BY <2>1 DEF Turn!writing
  <2> QED BY <2>1, <2>2 DEF Turn!RW!Next, Turn!RW!Leave
<1> QED BY <1>4, <1>5

LEMMA TurnRefines == Turn!Spec => Turn!RW!Spec
<1> USE TurnKinds
<1>1. Turn!Init => Turn!RW!Init
  BY DEF Turn!Init, Turn!RW!Init, Turn!reading, Turn!writing
<1>2. TurnInv /\ [Turn!Next]_Turn!vars => [Turn!RW!Next]_<<Turn!reading, Turn!writing>>
  <2> SUFFICES ASSUME TurnInv, [Turn!Next]_Turn!vars
               PROVE  Turn!RW!Next \/ UNCHANGED <<Turn!reading, Turn!writing>>
    OBVIOUS
  <2>1. ASSUME NEW t \in LockUsers,
               \/ turn_lock_pc[t] \in {"out", "woken"} /\ Turn!Block(t)
               \/ Turn!SpuriousWakeup(t) \/ Turn!Arrive(t)
        PROVE  UNCHANGED <<Turn!reading, Turn!writing>>
    <3>1. \A u \in LockUsers :
              (turn_lock_pc'[u] \in {"locked", "on"}) <=> (turn_lock_pc[u] \in {"locked", "on"})
      BY <2>1 DEF Turn!Block, Turn!SpuriousWakeup, Turn!Arrive, TurnInv, TurnTyped
    <3> QED BY <3>1 DEF Turn!reading, Turn!writing
  <2>2. ASSUME NEW t \in LockUsers, Turn!Step(t)
        PROVE  Turn!RW!Next \/ UNCHANGED <<Turn!reading, Turn!writing>>
    BY <2>1, <2>2, TurnEnterRefines, TurnExitRefines DEF Turn!Step, Turn!Lock
  <2>3. CASE UNCHANGED Turn!vars
    BY <2>3 DEF Turn!vars, Turn!reading, Turn!writing
  <2> QED BY <2>1, <2>2, <2>3 DEF Turn!Next
<1> QED BY <1>1, <1>2, TurnAlways, PTL DEF Turn!Spec, Turn!RW!Spec

-----------------------------------------------------------------------------
(* Both locks implement ReadersWriters *)

\* The lock with a bias and the lock that takes turns are readers-writers locks:
\* each step of rd_lock, wr_lock and unlock is one of the abstract lock, or none.
THEOREM Implements == SyncSpec => ImplementsReadersWriters
BY BiasedRuns, BiasedRefines, TurnRuns, TurnRefines, PTL DEF ImplementsReadersWriters

-----------------------------------------------------------------------------
(* The wait queue *)

LEMMA QueueRuns == SyncSpec => Queue!Spec
<1>1. SyncInit => Queue!Init
  BY DEF SyncInit
<1>2. [SyncNext]_syncVars => [Queue!Next]_Queue!vars
  BY DEF SyncNext, syncVars, varsQueue, Queue!vars, OthersBarrier, OthersSem, OthersPair,
         OthersPause, OthersLight, OthersStrict, OthersBiased, OthersTurn, OthersCentre,
         OthersFirst, OthersDining, OthersRing
<1> QED BY <1>1, <1>2, PTL DEF SyncSpec, Queue!Spec

QueueWaits == {t \in QueueThreads : wait_queue_pc[t] \in {"asleep", "woken"}}

QueueTyped ==
    /\ version \in {"v1", "plain", "fifo"}
    /\ should_block \in BOOLEAN /\ appln_mutex \in BOOLEAN /\ told \in BOOLEAN
    /\ wait_queue_thread_wait_count \in Nat
    /\ fifo_thread_q \in Seq(QueueThreads)
    /\ wait_queue_pc \in [QueueThreads \cup {"main"} -> Queue!PCs \cup Queue!MainPCs]
    /\ \A t \in QueueThreads : wait_queue_pc[t] \in Queue!PCs
    /\ wait_queue_pc["main"] \in Queue!MainPCs
    /\ sets \in 0..WqRounds

QueueCounted == wait_queue_thread_wait_count = Cardinality(QueueWaits)

\* Whoever sleeps is in the list, and whoever is in the list waits: a signal
\* takes out a thread that is awake already, which then only tests again.
QueueListed ==
    /\ version # "fifo" => fifo_thread_q = <<>>
    /\ OnceEach(fifo_thread_q)
    /\ \A t \in Listed(fifo_thread_q) : wait_queue_pc[t] \in {"asleep", "woken"}
    /\ version = "fifo" =>
           \A t \in QueueThreads : wait_queue_pc[t] = "asleep" => t \in Listed(fifo_thread_q)

\* Only v1 takes the pointer back, and only when nobody waits.
QueueMutex ==
    /\ wait_queue_thread_wait_count > 0 => appln_mutex
    /\ (version # "v1" /\ wait_queue_pc["main"] \in {"lock_signal", "lock_broadcast"}) =>
           appln_mutex
    /\ Queue!MutexThere

QueueTold ==
    (told /\ ~should_block) => \A t \in QueueThreads : wait_queue_pc[t] # "asleep"

QueueInv == QueueTyped /\ QueueCounted /\ QueueListed /\ QueueMutex /\ QueueTold

LEMMA QueueSize ==
    ASSUME NEW S \in SUBSET QueueThreads
    PROVE  /\ Cardinality(S) \in 0..Cardinality(QueueThreads)
           /\ Cardinality(S) \in Nat
           /\ S = {} <=> Cardinality(S) = 0
           /\ \A t \in QueueThreads :
                  /\ t \notin S => Cardinality(S \cup {t}) = Cardinality(S) + 1
                  /\ t \in S => Cardinality(S \ {t}) = Cardinality(S) - 1
<1>1. IsFiniteSet(QueueThreads)
  BY QueueThreadsAssumption
<1> QED BY <1>1, SubsetSize

LEMMA QueueWithout ==
    ASSUME NEW q \in Seq(QueueThreads), OnceEach(q), NEW t \in QueueThreads
    PROVE  \E w : /\ w = Queue!Without(q, t) /\ w \in Seq(QueueThreads)
                  /\ OnceEach(w) /\ Listed(w) = Listed(q) \ {t}
                  /\ q = <<>> => w = <<>>
<1>1. CASE t \notin Listed(q)
  <2>1. Queue!Without(q, t) = q
    BY <1>1 DEF Queue!Without, Listed
  <2> QED BY <1>1, <2>1
<1>2. CASE t \in Listed(q)
  <2>1. PICK n : n = CHOOSE j \in DOMAIN q : q[j] = t
    OBVIOUS
  <2>2. n \in DOMAIN q /\ q[n] = t
    BY <1>2, <2>1 DEF Listed
  <2>3. Queue!Without(q, t) = SubSeq(q, 1, n - 1) \o SubSeq(q, n + 1, Len(q))
    BY <2>1, <2>2 DEF Queue!Without
  <2>4. q # <<>>
    BY <2>2
  <2> HIDE <2>1
  <2>5. PICK w : IsLeft(w, q, n, QueueThreads)
    BY <2>2, LeavesList, Zenon
  <2>6. /\ w = SubSeq(q, 1, n - 1) \o SubSeq(q, n + 1, Len(q))
        /\ w \in Seq(QueueThreads) /\ OnceEach(w) /\ Listed(w) = Listed(q) \ {q[n]}
    BY <2>5, Zenon DEF IsLeft
  <2>7. w = Queue!Without(q, t)
    BY <2>3, <2>6, Zenon
  <2> QED BY <2>2, <2>4, <2>6, <2>7, Zenon
<1> QED BY <1>1, <1>2

LEMMA QueueStarts == Queue!Init => QueueInv
<1> SUFFICES ASSUME Queue!Init PROVE QueueInv
  OBVIOUS
<1>1. /\ \A t \in QueueThreads : wait_queue_pc[t] = "start"
      /\ wait_queue_pc["main"] = "ready"
      /\ wait_queue_pc \in [QueueThreads \cup {"main"} -> Queue!PCs \cup Queue!MainPCs]
  BY QueueThreadsAssumption DEF Queue!Init, Queue!PCs, Queue!MainPCs
<1>2. QueueTyped
  <2>1. fifo_thread_q \in Seq(QueueThreads)
    BY DEF Queue!Init
  <2>2. sets \in 0..WqRounds
    BY QueueThreadsAssumption DEF Queue!Init
  <2> QED BY <1>1, <2>1, <2>2 DEF Queue!Init, QueueTyped, Queue!PCs, Queue!MainPCs
<1>3. QueueWaits = {}
  BY <1>1 DEF QueueWaits
<1>4. QueueCounted
  BY <1>3, FS_EmptySet DEF Queue!Init, QueueCounted
<1>5. QueueListed
  <2>1. fifo_thread_q = <<>> /\ DOMAIN fifo_thread_q = {}
    BY DEF Queue!Init
  <2> QED BY <1>1, <2>1 DEF QueueListed, OnceEach, Listed
<1>6. QueueMutex /\ QueueTold
  BY <1>1 DEF Queue!Init, QueueMutex, QueueTold, Queue!MutexThere
<1> QED BY <1>2, <1>4, <1>5, <1>6 DEF QueueInv

\* A thread that comes to the queue, or wakes up there, and goes on.
LEMMA QueueGoesOn ==
    ASSUME QueueInv, NEW t \in QueueThreads, Queue!TestPass(t) \/ Queue!WakePass(t)
    PROVE  QueueInv'
<1> USE QueueThreadsAssumption
<1>1. /\ wait_queue_pc' = [wait_queue_pc EXCEPT ![t] = "ended"]
      /\ wait_queue_pc[t] \in {"start", "woken"} /\ ~should_block
      /\ wait_queue_pc["main"] # "crashed" /\ t # "main"
      /\ UNCHANGED <<version, should_block, sets, told>>
      /\ appln_mutex' = (version # "v1" \/ wait_queue_thread_wait_count' > 0)
  BY DEF Queue!TestPass, Queue!WakePass, Queue!Goes, Queue!Running, Queue!KeepsMutex
<1>2. /\ fifo_thread_q' \in Seq(QueueThreads) /\ OnceEach(fifo_thread_q')
      /\ Listed(fifo_thread_q') = Listed(fifo_thread_q) \ {t}
      /\ fifo_thread_q = <<>> => fifo_thread_q' = <<>>
  <2>1. CASE Queue!TestPass(t)
    <3>1. fifo_thread_q' = fifo_thread_q /\ wait_queue_pc[t] = "start"
      BY <2>1 DEF Queue!TestPass
    <3>2. t \notin Listed(fifo_thread_q)
      BY <3>1 DEF QueueInv, QueueListed
    <3> QED BY <3>1, <3>2 DEF QueueInv, QueueListed, QueueTyped
  <2>2. CASE Queue!WakePass(t)
    <3>1. fifo_thread_q' = Queue!Without(fifo_thread_q, t)
      BY <2>2 DEF Queue!WakePass
    <3>2. fifo_thread_q \in Seq(QueueThreads) /\ OnceEach(fifo_thread_q)
      BY DEF QueueInv, QueueListed, QueueTyped
    <3> QED BY <3>1, <3>2, QueueWithout
  <2> QED BY <2>1, <2>2
<1>3. /\ QueueWaits' = QueueWaits \ {t}
      /\ wait_queue_thread_wait_count' = Cardinality(QueueWaits')
      /\ wait_queue_thread_wait_count' \in Nat
  <2>1. QueueWaits' = QueueWaits \ {t}
    BY <1>1 DEF QueueWaits, QueueInv, QueueTyped
  <2>2. QueueWaits \in SUBSET QueueThreads /\ QueueWaits' \in SUBSET QueueThreads
    BY DEF QueueWaits
  <2>3. wait_queue_thread_wait_count = Cardinality(QueueWaits)
    BY DEF QueueInv, QueueCounted
  <2>4. CASE Queue!TestPass(t)
    <3>1. QueueWaits' = QueueWaits
      BY <2>1, <2>4 DEF Queue!TestPass, QueueWaits
    <3> QED BY <2>1, <2>2, <2>3, <2>4, <3>1, QueueSize DEF Queue!TestPass
  <2>5. CASE Queue!WakePass(t)
    <3>1. t \in QueueWaits
      BY <2>5 DEF Queue!WakePass, QueueWaits
    <3>2. Cardinality(QueueWaits \ {t}) = Cardinality(QueueWaits) - 1
      BY <2>2, <3>1, QueueSize
    <3> QED BY <2>1, <2>2, <2>3, <2>5, <3>2, QueueSize DEF Queue!WakePass
  <2> QED BY <2>4, <2>5
<1>4. QueueTyped'
  BY <1>1, <1>2, <1>3 DEF QueueInv, QueueTyped, Queue!PCs
<1>5. QueueListed'
  BY <1>1, <1>2 DEF QueueInv, QueueTyped, QueueListed
<1>6. QueueMutex' /\ QueueTold'
  BY <1>1 DEF QueueInv, QueueTyped, QueueMutex, QueueTold, Queue!MutexThere
<1> QED BY <1>3, <1>4, <1>5, <1>6 DEF QueueInv, QueueCounted

\* A thread that comes to the queue, or wakes up there, and has to wait: at the
\* end of the list, on which it is not or no longer.
LEMMA QueueSleeps ==
    ASSUME QueueInv, NEW t \in QueueThreads, Queue!TestBlock(t) \/ Queue!WakeBlock(t)
    PROVE  QueueInv'
<1> USE QueueThreadsAssumption
<1>1. /\ wait_queue_pc' = [wait_queue_pc EXCEPT ![t] = "asleep"]
      /\ wait_queue_pc[t] \in {"start", "woken"} /\ should_block
      /\ wait_queue_pc["main"] # "crashed" /\ t # "main"
      /\ UNCHANGED <<version, should_block, sets, told>>
  BY DEF Queue!TestBlock, Queue!WakeBlock, Queue!Goes, Queue!Running
<1>2. /\ fifo_thread_q' \in Seq(QueueThreads) /\ OnceEach(fifo_thread_q')
      /\ version # "fifo" => fifo_thread_q' = <<>>
      /\ version = "fifo" => Listed(fifo_thread_q') = Listed(fifo_thread_q) \cup {t}
  <2>1. CASE version # "fifo"
    <3>1. fifo_thread_q' = <<>> /\ DOMAIN fifo_thread_q' = {}
      BY <2>1 DEF Queue!TestBlock, Queue!WakeBlock
    <3> QED BY <2>1, <3>1 DEF OnceEach
  <2>2. CASE version = "fifo"
    <3>1. \E w : /\ w \in Seq(QueueThreads) /\ OnceEach(w)
                 /\ Listed(w) = Listed(fifo_thread_q) \ {t}
                 /\ fifo_thread_q' = Append(w, t)
      <4>1. fifo_thread_q \in Seq(QueueThreads) /\ OnceEach(fifo_thread_q)
        BY DEF QueueInv, QueueListed, QueueTyped
      <4>2. CASE Queue!TestBlock(t)
        <5>1. t \notin Listed(fifo_thread_q)
          BY <4>2 DEF QueueInv, QueueListed, Queue!TestBlock
        <5> QED BY <2>2, <4>1, <4>2, <5>1 DEF Queue!TestBlock
      <4>3. CASE Queue!WakeBlock(t)
        <5>1. fifo_thread_q' = Append(Queue!Without(fifo_thread_q, t), t)
          BY <2>2, <4>3 DEF Queue!WakeBlock
        <5> QED BY <4>1, <5>1, QueueWithout
      <4> QED BY <4>2, <4>3
    <3>2. PICK w : /\ w \in Seq(QueueThreads) /\ OnceEach(w)
                   /\ Listed(w) = Listed(fifo_thread_q) \ {t}
                   /\ fifo_thread_q' = Append(w, t)
      BY <3>1
    <3>3. PICK v : v = fifo_thread_q' /\ v = Append(w, t)
      BY <3>2
    <3>4. v \in Seq(QueueThreads) /\ OnceEach(v) /\ Listed(v) = Listed(w) \cup {t}
      <4>1. w \in Seq(QueueThreads) /\ OnceEach(w) /\ t \notin Listed(w)
        BY <3>2
      <4>2. v = Append(w, t)
        BY <3>3
      <4>3. \E x : /\ x = Append(w, t)
                   /\ x \in Seq(QueueThreads)
                   /\ OnceEach(x) /\ Listed(x) = Listed(w) \cup {t}
        BY <4>1, JoinsList
      <4> QED BY <4>2, <4>3
    <3> QED BY <2>2, <3>2, <3>3, <3>4
  <2> QED BY <2>1, <2>2
<1>3. QueueWaits' = QueueWaits \cup {t}
  BY <1>1 DEF QueueWaits, QueueInv, QueueTyped
<1>4. /\ QueueWaits \in SUBSET QueueThreads
      /\ wait_queue_thread_wait_count = Cardinality(QueueWaits)
      /\ wait_queue_thread_wait_count \in Nat
  BY DEF QueueWaits, QueueInv, QueueTyped, QueueCounted
<1>5. /\ wait_queue_thread_wait_count' = Cardinality(QueueWaits')
      /\ wait_queue_thread_wait_count' \in Nat
      /\ appln_mutex'
  <2>1. CASE Queue!TestBlock(t)
    <3>1. t \notin QueueWaits
      BY <2>1 DEF Queue!TestBlock, QueueWaits
    <3>2. Cardinality(QueueWaits \cup {t}) = Cardinality(QueueWaits) + 1
      BY <1>4, <3>1, QueueSize
    <3> QED BY <1>3, <1>4, <2>1, <3>2 DEF Queue!TestBlock
  <2>2. CASE Queue!WakeBlock(t)
    <3>1. t \in QueueWaits
      BY <2>2 DEF Queue!WakeBlock, QueueWaits
    <3>2. QueueWaits' = QueueWaits /\ Cardinality(QueueWaits) > 0
      BY <1>3, <1>4, <3>1, QueueSize
    <3> QED BY <1>4, <2>2, <3>2 DEF Queue!WakeBlock, QueueInv, QueueMutex, QueueTyped
  <2> QED BY <2>1, <2>2
<1>6. QueueTyped'
  BY <1>1, <1>2, <1>5 DEF QueueInv, QueueTyped, Queue!PCs
<1>7. QueueListed'
  <2>1. CASE version # "fifo"
    <3>1. fifo_thread_q' = <<>> /\ Listed(<<>>) = {}
      BY <1>2, <2>1 DEF Listed
    <3> QED BY <1>1, <1>2, <2>1, <3>1 DEF QueueListed
  <2>2. CASE version = "fifo"
    BY <1>1, <1>2, <2>2 DEF QueueInv, QueueTyped, QueueListed
  <2> QED BY <2>1, <2>2
<1>8. QueueMutex' /\ QueueTold'
  BY <1>1, <1>5 DEF QueueInv, QueueTyped, QueueMutex, QueueTold, Queue!MutexThere
<1> QED BY <1>5, <1>6, <1>7, <1>8 DEF QueueInv, QueueCounted

\* Whoever wakes up still counts as waiting; the list may keep it.
LEMMA QueueWakes ==
    ASSUME QueueInv, NEW t \in QueueThreads, Queue!SpuriousWakeup(t)
    PROVE  QueueInv'
<1> USE QueueThreadsAssumption
<1>1. /\ wait_queue_pc' = [wait_queue_pc EXCEPT ![t] = "woken"]
      /\ wait_queue_pc[t] = "asleep" /\ t # "main"
      /\ UNCHANGED <<version, should_block, appln_mutex, wait_queue_thread_wait_count,
                     fifo_thread_q, sets, told>>
  BY DEF Queue!SpuriousWakeup, Queue!Goes
<1>2. QueueWaits' = QueueWaits
  BY <1>1 DEF QueueWaits, QueueInv, QueueTyped
<1>3. QueueTyped'
  BY <1>1 DEF QueueInv, QueueTyped, Queue!PCs
<1>4. QueueListed'
  <2>1. Listed(fifo_thread_q') = Listed(fifo_thread_q)
    BY <1>1
  <2>2. Listed(fifo_thread_q) \in SUBSET QueueThreads
    BY ElementOfSeq, LenProperties DEF QueueInv, QueueTyped, Listed
  <2> QED BY <1>1, <2>1, <2>2 DEF QueueInv, QueueTyped, QueueListed
<1>5. QueueMutex' /\ QueueTold'
  BY <1>1 DEF QueueInv, QueueTyped, QueueMutex, QueueTold, Queue!MutexThere
<1> QED BY <1>1, <1>2, <1>3, <1>4, <1>5 DEF QueueInv, QueueCounted

\* enable_barrier, and the look at the pointer before the lock.
LEMMA QueueSets ==
    ASSUME QueueInv,
           \/ \E block \in BOOLEAN : Queue!SetCondition(block)
           \/ Queue!LooksAtMutex("signal", "lock_signal")
           \/ Queue!LooksAtMutex("broadcast", "lock_broadcast")
           \/ Queue!LocksNull
    PROVE  QueueInv'
<1> USE QueueThreadsAssumption
<1>1. PICK place \in Queue!MainPCs :
          /\ wait_queue_pc' = [wait_queue_pc EXCEPT !["main"] = place]
          /\ place = "crashed" => Queue!LocksNull
          /\ place \in {"lock_signal", "lock_broadcast"} => appln_mutex
  BY DEF Queue!SetCondition, Queue!LooksAtMutex, Queue!LocksNull, Queue!Goes, Queue!MainPCs
<1>2. /\ UNCHANGED <<version, appln_mutex, wait_queue_thread_wait_count, fifo_thread_q>>
      /\ sets' \in 0..WqRounds /\ should_block' \in BOOLEAN /\ told' \in BOOLEAN
  <2>1. sets \in 0..WqRounds /\ should_block \in BOOLEAN /\ told \in BOOLEAN
    BY DEF QueueInv, QueueTyped
  <2>2. sets > 0 => sets - 1 \in 0..WqRounds
    BY <2>1
  <2> QED BY <2>1, <2>2 DEF Queue!SetCondition, Queue!LooksAtMutex, Queue!LocksNull
<1>3. \A u \in QueueThreads : wait_queue_pc'[u] = wait_queue_pc[u]
  BY <1>1 DEF QueueInv, QueueTyped
<1>4. QueueWaits' = QueueWaits
  BY <1>3 DEF QueueWaits
<1>5. QueueTyped'
  BY <1>1, <1>2, <1>3 DEF QueueInv, QueueTyped
<1>6. QueueListed'
  <2>1. Listed(fifo_thread_q') = Listed(fifo_thread_q)
    BY <1>2
  <2>2. Listed(fifo_thread_q) \in SUBSET QueueThreads
    BY ElementOfSeq, LenProperties DEF QueueInv, QueueTyped, Listed
  <2> QED BY <1>2, <1>3, <2>1, <2>2 DEF QueueInv, QueueListed
<1>7. wait_queue_pc'["main"] = place
  BY <1>1 DEF QueueInv, QueueTyped
<1>8. QueueMutex'
  BY <1>1, <1>2, <1>7 DEF QueueInv, QueueTyped, QueueMutex, Queue!MutexThere, Queue!LocksNull
<1>9. QueueTold'
  <2>1. ASSUME told', ~told \/ should_block # should_block'
        PROVE  ~appln_mutex
    BY <2>1 DEF Queue!SetCondition, Queue!LooksAtMutex, Queue!LocksNull
  <2>2. ASSUME ~appln_mutex, NEW u \in QueueThreads, wait_queue_pc[u] = "asleep"
        PROVE  FALSE
    <3>1. u \in QueueWaits
      BY <2>2 DEF QueueWaits
    <3>2. QueueWaits \in SUBSET QueueThreads
      BY DEF QueueWaits
    <3>3. wait_queue_thread_wait_count # 0
      BY <3>1, <3>2, QueueSize DEF QueueInv, QueueCounted
    <3> QED BY <2>2, <3>3 DEF QueueInv, QueueMutex, QueueTyped
  <2> QED BY <1>3, <2>1, <2>2 DEF QueueInv, QueueTold
<1> QED BY <1>2, <1>4, <1>5, <1>6, <1>8, <1>9 DEF QueueInv, QueueCounted

\* wait_queue_signal takes one thread out, which need not be asleep.
LEMMA QueueSignals ==
    ASSUME QueueInv, Queue!Signal
    PROVE  QueueInv'
<1> USE QueueThreadsAssumption
<1>1. /\ wait_queue_pc["main"] = "lock_signal" /\ appln_mutex
      /\ fifo_thread_q' = IF fifo_thread_q = <<>> THEN <<>> ELSE Tail(fifo_thread_q)
      /\ UNCHANGED <<version, should_block, appln_mutex, wait_queue_thread_wait_count,
                     sets, told>>
  BY DEF Queue!Signal
<1>2. \E W \in SUBSET QueueThreads :
          /\ wait_queue_pc' = [x \in QueueThreads \cup {"main"} |->
                                  IF x = "main" THEN "ready"
                                  ELSE IF x \in W THEN "woken" ELSE wait_queue_pc[x]]
          /\ \A u \in W : wait_queue_pc[u] \in {"asleep", "woken"}
          /\ (version = "fifo" /\ fifo_thread_q # <<>>) => Head(fifo_thread_q) \in W
  <2>1. \A u \in Queue!Candidates :
            u \in QueueThreads /\ wait_queue_pc[u] \in {"asleep", "woken"}
    <3>1. fifo_thread_q # <<>> => Head(fifo_thread_q) \in Listed(fifo_thread_q)
      <4>1. fifo_thread_q \in Seq(QueueThreads) /\ OnceEach(fifo_thread_q)
        BY DEF QueueInv, QueueTyped, QueueListed
      <4> QED BY <4>1, LeavesFirst
    <3> QED BY <3>1 DEF Queue!Candidates, QueueInv, QueueListed
  <2>2. CASE Queue!Candidates = {} /\ Queue!Goes("main", "ready")
    <3>0. PICK W \in SUBSET QueueThreads : \A u : u \notin W
      <4>1. {} \in SUBSET QueueThreads /\ \A u : u \notin {}
        OBVIOUS
      <4> QED BY <4>1
    <3>1. wait_queue_pc' = [x \in QueueThreads \cup {"main"} |->
                               IF x = "main" THEN "ready"
                               ELSE IF x \in W THEN "woken" ELSE wait_queue_pc[x]]
      BY <2>2, <3>0 DEF Queue!Goes, QueueInv, QueueTyped
    <3>2. ~(version = "fifo" /\ fifo_thread_q # <<>>)
      <4>1. fifo_thread_q # <<>> => Head(fifo_thread_q) \in QueueThreads
        BY HeadTailProperties DEF QueueInv, QueueTyped
      <4> QED BY <2>2, <4>1 DEF Queue!Candidates
    <3> QED BY <3>0, <3>1, <3>2
  <2>3. ASSUME NEW t \in Queue!Candidates,
               wait_queue_pc' = [wait_queue_pc EXCEPT !["main"] = "ready", ![t] = "woken"]
        PROVE  /\ wait_queue_pc' = [x \in QueueThreads \cup {"main"} |->
                                       IF x = "main" THEN "ready"
                                       ELSE IF x \in {t} THEN "woken" ELSE wait_queue_pc[x]]
               /\ {t} \in SUBSET QueueThreads
               /\ (version = "fifo" /\ fifo_thread_q # <<>>) => Head(fifo_thread_q) \in {t}
    BY <2>1, <2>3 DEF QueueInv, QueueTyped, Queue!Candidates
  <2> QED BY <2>1, <2>2, <2>3 DEF Queue!Signal
<1>3. PICK W \in SUBSET QueueThreads :
          /\ wait_queue_pc' = [x \in QueueThreads \cup {"main"} |->
                                  IF x = "main" THEN "ready"
                                  ELSE IF x \in W THEN "woken" ELSE wait_queue_pc[x]]
          /\ \A u \in W : wait_queue_pc[u] \in {"asleep", "woken"}
          /\ (version = "fifo" /\ fifo_thread_q # <<>>) => Head(fifo_thread_q) \in W
  BY <1>2
<1>4. /\ \A u \in QueueThreads :
             wait_queue_pc'[u] = IF u \in W THEN "woken" ELSE wait_queue_pc[u]
      /\ wait_queue_pc'["main"] = "ready"
      /\ \A u \in W : wait_queue_pc[u] \in {"asleep", "woken"}
  BY <1>3
<1>5. QueueWaits' = QueueWaits
  BY <1>4 DEF QueueWaits
<1>6. /\ fifo_thread_q' \in Seq(QueueThreads) /\ OnceEach(fifo_thread_q')
      /\ Listed(fifo_thread_q') \in SUBSET Listed(fifo_thread_q)
      /\ \A u \in Listed(fifo_thread_q) \ Listed(fifo_thread_q') : version = "fifo" => u \in W
      /\ fifo_thread_q = <<>> => fifo_thread_q' = <<>>
  <2>1. CASE fifo_thread_q = <<>>
    BY <1>1, <2>1 DEF QueueInv, QueueTyped, QueueListed
  <2>2. CASE fifo_thread_q # <<>>
    <3>1. fifo_thread_q \in Seq(QueueThreads) /\ OnceEach(fifo_thread_q)
      BY DEF QueueInv, QueueTyped, QueueListed
    <3>2. \E w : /\ w = Tail(fifo_thread_q)
                 /\ w \in Seq(QueueThreads) /\ OnceEach(w)
                 /\ Listed(w) = Listed(fifo_thread_q) \ {Head(fifo_thread_q)}
      BY <2>2, <3>1, LeavesFirst
    <3>3. fifo_thread_q' = Tail(fifo_thread_q)
      BY <1>1, <2>2
    <3>4. /\ fifo_thread_q' \in Seq(QueueThreads) /\ OnceEach(fifo_thread_q')
          /\ Listed(fifo_thread_q') = Listed(fifo_thread_q) \ {Head(fifo_thread_q)}
      BY <3>2, <3>3
    <3> QED BY <1>3, <2>2, <3>4
  <2> QED BY <2>1, <2>2
<1>7. QueueTyped'
  BY <1>1, <1>3, <1>4, <1>6 DEF QueueInv, QueueTyped, Queue!PCs, Queue!MainPCs
<1>8. QueueListed'
  <2>1. Listed(fifo_thread_q) \in SUBSET QueueThreads
    BY ElementOfSeq, LenProperties DEF QueueInv, QueueTyped, Listed
  <2>2. \A u \in QueueThreads :
            /\ wait_queue_pc[u] \in {"asleep", "woken"} =>
                   wait_queue_pc'[u] \in {"asleep", "woken"}
            /\ wait_queue_pc'[u] = "asleep" => wait_queue_pc[u] = "asleep" /\ u \notin W
    BY <1>4
  <2> QED BY <1>1, <1>6, <2>1, <2>2 DEF QueueInv, QueueListed
<1>9. QueueMutex' /\ QueueTold'
  BY <1>1, <1>4 DEF QueueInv, QueueTyped, QueueMutex, QueueTold, Queue!MutexThere
<1> QED BY <1>1, <1>5, <1>7, <1>8, <1>9 DEF QueueInv, QueueCounted

\* wait_queue_broadcast wakes them all.
LEMMA QueueBroadcasts ==
    ASSUME QueueInv, Queue!Broadcast
    PROVE  QueueInv'
<1> USE QueueThreadsAssumption
<1>1. /\ wait_queue_pc["main"] = "lock_broadcast" /\ appln_mutex
      /\ fifo_thread_q' = <<>> /\ told' = TRUE
      /\ UNCHANGED <<version, should_block, appln_mutex, wait_queue_thread_wait_count, sets>>
      /\ \A u \in QueueThreads :
             wait_queue_pc'[u] = IF wait_queue_pc[u] = "asleep" THEN "woken" ELSE wait_queue_pc[u]
      /\ wait_queue_pc'["main"] = "ready"
      /\ wait_queue_pc' \in [QueueThreads \cup {"main"} -> Queue!PCs \cup Queue!MainPCs]
  BY DEF Queue!Broadcast, QueueInv, QueueTyped, Queue!PCs, Queue!MainPCs
<1>2. QueueWaits' = QueueWaits
  BY <1>1 DEF QueueWaits
<1>3. QueueTyped'
  BY <1>1 DEF QueueInv, QueueTyped, Queue!PCs, Queue!MainPCs
<1>4. QueueListed'
  <2>1. Listed(fifo_thread_q') = {} /\ OnceEach(fifo_thread_q')
    BY <1>1 DEF Listed, OnceEach
  <2> QED BY <1>1, <2>1 DEF QueueListed
<1>5. QueueMutex' /\ QueueTold'
  BY <1>1 DEF QueueInv, QueueTyped, QueueMutex, QueueTold, Queue!MutexThere
<1> QED BY <1>1, <1>2, <1>3, <1>4, <1>5 DEF QueueInv, QueueCounted

LEMMA QueueKeeps == QueueInv /\ [Queue!Next]_Queue!vars => QueueInv'
<1> SUFFICES ASSUME QueueInv, [Queue!Next]_Queue!vars PROVE QueueInv'
  OBVIOUS
<1>1. CASE UNCHANGED Queue!vars
  BY <1>1 DEF Queue!vars, QueueInv, QueueTyped, QueueCounted, QueueWaits, QueueListed,
              QueueMutex, QueueTold, Queue!MutexThere
<1>2. ASSUME NEW t \in QueueThreads, Queue!Step(t)
      PROVE  QueueInv'
  BY <1>2, QueueGoesOn, QueueSleeps DEF Queue!Step
<1>3. CASE Queue!Main
  BY <1>3, QueueSets, QueueSignals, QueueBroadcasts DEF Queue!Main
<1> QED BY <1>1, <1>2, <1>3, QueueWakes DEF Queue!Next, Queue!Idle

LEMMA QueueAlways == Queue!Spec => []QueueInv
BY QueueStarts, QueueKeeps, PTL DEF Queue!Spec

LEMMA QueueSameCardinality ==
    ASSUME NEW S
    PROVE  Queue!Cardinality(S) = Cardinality(S)
BY DEF Queue!Cardinality, Cardinality

\* The count of the waiting never passes the number of threads, and the list
\* that pairs threads with their condition variables holds threads only.
THEOREM QueueTypeCorrect == SyncSpec => []Queue!TypeOK
<1>1. ASSUME QueueInv
      PROVE  Queue!TypeOK
  <2>1. QueueWaits \in SUBSET QueueThreads
    BY DEF QueueWaits
  <2>2. wait_queue_thread_wait_count \in 0..Cardinality(QueueThreads)
    BY <1>1, <2>1, QueueSize DEF QueueInv, QueueCounted
  <2> QED BY <1>1, <2>2, QueueSameCardinality DEF QueueInv, QueueTyped, Queue!TypeOK
<1> QED BY <1>1, QueueRuns, QueueAlways, PTL

\* Whatever the order of signals, spurious wake-ups and renewed waits, the list of
\* the FIFO holds each thread that sleeps in wait_queue_test_and_wait, and none
\* twice, and thread_wait_count is the number of threads in the call.
THEOREM QueueIsExact == SyncSpec => []Queue!QueueExact
<1>1. ASSUME QueueInv
      PROVE  Queue!QueueExact
  <2>1. wait_queue_thread_wait_count = Cardinality(QueueWaits)
    BY <1>1 DEF QueueInv, QueueCounted
  <2>2. QueueWaits = {t \in QueueThreads : wait_queue_pc[t] \in {"asleep", "woken"}}
    BY DEF QueueWaits
  <2> QED BY <1>1, <2>1, <2>2, QueueSameCardinality
          DEF QueueInv, QueueListed, OnceEach, Listed, Queue!QueueExact
<1> QED BY <1>1, QueueRuns, QueueAlways, PTL

\* Nobody sleeps on after a broadcast of an open queue, the queue knows the mutex
\* of those who wait, and only the first version loses a mutex it is to lock.
THEOREM QueueWakeup == SyncSpec => [](Queue!NoLostWakeup /\ Queue!MutexThere)
<1>1. ASSUME QueueInv
      PROVE  Queue!NoLostWakeup /\ Queue!MutexThere
  BY <1>1 DEF QueueInv, QueueMutex, QueueTold, Queue!NoLostWakeup
<1> QED BY <1>1, QueueRuns, QueueAlways, PTL

-----------------------------------------------------------------------------
(* The event pair *)

LEMMA PairRuns == SyncSpec => Pair!Spec
<1>1. SyncInit => Pair!Init
  BY DEF SyncInit
<1>2. [SyncNext]_syncVars => [Pair!Next]_Pair!vars
  BY DEF SyncNext, syncVars, varsPair, Pair!vars, OthersBarrier, OthersSem, OthersQueue,
         OthersPause, OthersLight, OthersStrict, OthersBiased, OthersTurn, OthersCentre,
         OthersFirst, OthersDining, OthersRing
<1> QED BY <1>1, <1>2, PTL DEF SyncSpec, Pair!Spec

PairTyped ==
    /\ event_pair_pc \in [Pair!Parties -> Pair!PCs]
    /\ sem0 \in [{"server", "client", "initial_sync"} -> 0..1]
    /\ global_shared_memory \in Nat \ {0} /\ sent \in Nat

\* Before the client runs, the server has only told main that it is ready.
PairStarting ==
    event_pair_pc["client"] = "unborn" =>
        /\ sem0["server"] = 0 /\ sem0["client"] = 0
        /\ global_shared_memory = 1 /\ sent = 0
        /\ \/ /\ event_pair_pc["main"] = "start" /\ event_pair_pc["server"] = "start"
              /\ sem0["initial_sync"] = 0
           \/ /\ event_pair_pc["main"] = "start" /\ event_pair_pc["server"] = "wait"
              /\ sem0["initial_sync"] = 1
           \/ /\ event_pair_pc["main"] = "sync" /\ event_pair_pc["server"] = "wait"
              /\ sem0["initial_sync"] = 0

\* Then the turn is at one place: with the client, in the server's semaphore,
\* with the server, or in the client's semaphore.
PairTurn ==
    event_pair_pc["client"] # "unborn" =>
        /\ event_pair_pc["main"] = "ended" /\ event_pair_pc["server"] # "start"
        /\ sem0["initial_sync"] = 0
        /\ \/ /\ event_pair_pc["client"] = "prepare" /\ event_pair_pc["server"] = "wait"
              /\ sem0["server"] = 0 /\ sem0["client"] = 0
              /\ global_shared_memory <= MaxResponse
           \/ /\ event_pair_pc["client"] = "wait" /\ event_pair_pc["server"] = "wait"
              /\ sem0["server"] = 1 /\ sem0["client"] = 0
              /\ global_shared_memory = sent
           \/ /\ event_pair_pc["client"] = "wait" /\ event_pair_pc["server"] = "process"
              /\ sem0["server"] = 0 /\ sem0["client"] = 0
              /\ global_shared_memory = sent
           \/ /\ event_pair_pc["client"] = "wait" /\ event_pair_pc["server"] = "handoff"
              /\ sem0["server"] = 0 /\ sem0["client"] = 0
              /\ global_shared_memory = 2 * sent
           \/ /\ event_pair_pc["client"] = "wait" /\ event_pair_pc["server"] = "wait"
              /\ sem0["server"] = 0 /\ sem0["client"] = 1
              /\ global_shared_memory = 2 * sent
           \/ /\ event_pair_pc["client"] \in {"respond", "ended"}
              /\ event_pair_pc["server"] = "wait"
              /\ sem0["server"] = 0 /\ sem0["client"] = 0
              /\ global_shared_memory = 2 * sent

PairInv == PairTyped /\ PairStarting /\ PairTurn /\ sent <= MaxResponse

LEMMA PairStarts == Pair!Init => PairInv
<1> USE MaxResponseAssumption
<1>1. Pair!Init => PairTyped
  BY DEF Pair!Init, PairTyped, Pair!Parties, Pair!PCs
<1> QED BY <1>1
        DEF Pair!Init, PairInv, PairStarting, PairTurn, Pair!Parties

LEMMA PairKeeps == PairInv /\ [Pair!Next]_Pair!vars => PairInv'
<1> USE MaxResponseAssumption DEF PairInv, Pair!Parties, Pair!Goes, Pair!SemWait, Pair!SemPost
<1> SUFFICES ASSUME PairInv, [Pair!Next]_Pair!vars PROVE PairInv'
  OBVIOUS
<1>1. CASE UNCHANGED Pair!vars \/ Pair!Finished
  BY <1>1 DEF Pair!vars, Pair!Finished, PairTyped, PairStarting, PairTurn
<1>2. CASE Pair!MainSync \/ Pair!StartClient \/ Pair!ServerStart
  <2>1. PairTyped'
    BY <1>2 DEF Pair!MainSync, Pair!StartClient, Pair!ServerStart, PairTyped, PairStarting,
                PairTurn, Pair!PCs
  <2> QED BY <1>2, <2>1 DEF Pair!MainSync, Pair!StartClient, Pair!ServerStart, PairTyped,
                            PairStarting, PairTurn
<1>3. CASE Pair!ServerWait \/ Pair!Process \/ Pair!ServerHandoff
  <2>1. PairTyped'
    BY <1>3 DEF Pair!ServerWait, Pair!Process, Pair!ServerHandoff, PairTyped, PairStarting,
                PairTurn, Pair!PCs
  <2>2. CASE Pair!ServerWait
    BY <2>1, <2>2 DEF Pair!ServerWait, PairTyped, PairStarting, PairTurn
  <2>3. CASE Pair!Process
    BY <2>1, <2>3 DEF Pair!Process, PairTyped, PairStarting, PairTurn
  <2>4. CASE Pair!ServerHandoff
    BY <2>1, <2>4 DEF Pair!ServerHandoff, PairTyped, PairStarting, PairTurn
  <2> QED BY <1>3, <2>2, <2>3, <2>4
<1>4. CASE Pair!ClientHandoff \/ Pair!ClientWait \/ Pair!Respond
  <2>1. PairTyped'
    BY <1>4 DEF Pair!ClientHandoff, Pair!ClientWait, Pair!Respond, PairTyped, PairStarting,
                PairTurn, Pair!PCs
  <2>2. CASE Pair!ClientHandoff
    BY <2>1, <2>2 DEF Pair!ClientHandoff, PairTyped, PairStarting, PairTurn
  <2>3. CASE Pair!ClientWait
    BY <2>1, <2>3 DEF Pair!ClientWait, PairTyped, PairStarting, PairTurn
  <2>4. CASE Pair!Respond
    BY <2>1, <2>4 DEF Pair!Respond, PairTyped, PairStarting, PairTurn
  <2> QED BY <1>4, <2>2, <2>3, <2>4
<1> QED BY <1>1, <1>2, <1>3, <1>4 DEF Pair!Next, Pair!Main, Pair!Server, Pair!Client

LEMMA PairAlways == Pair!Spec => []PairInv
BY PairStarts, PairKeeps, PTL DEF Pair!Spec

\* No semaphore of the event pair is posted twice before it is waited for.
LEMMA PairTypeCorrect == SyncSpec => []Pair!TypeOK
<1>1. PairInv => Pair!TypeOK
  BY MaxResponseAssumption DEF PairInv, PairTyped, PairStarting, PairTurn, Pair!TypeOK
<1> QED BY <1>1, PairRuns, PairAlways, PTL

\* The shared memory has one user at a time, and what the client reads after
\* event_pair_client_wait answers the request it handed over.
LEMMA PairHandsOver == SyncSpec => []Pair!HandedOver
<1>1. PairInv => Pair!HandedOver
  BY DEF PairInv, PairTyped, PairStarting, PairTurn, Pair!HandedOver
<1> QED BY <1>1, PairRuns, PairAlways, PTL

-----------------------------------------------------------------------------
(* The pause of a thread *)

LEMMA PauseRuns == SyncSpec => Pause!Spec
<1>1. SyncInit => Pause!Init
  BY DEF SyncInit
<1>2. [SyncNext]_syncVars => [Pause!Next]_Pause!vars
  BY DEF SyncNext, syncVars, varsPause, Pause!vars, Pause!mode, Pause!marks, OthersBarrier,
         OthersSem, OthersQueue, OthersPair, OthersLight, OthersStrict, OthersBiased,
         OthersTurn, OthersCentre, OthersFirst, OthersDining, OthersRing
<1> QED BY <1>1, <1>2, PTL DEF SyncSpec, Pause!Spec

\* The marks of each way say where the worker is, or what was said last.  Nobody
\* clears should_pause, so that the worker of the handshake never runs on.
PauseInv ==
    /\ Pause!TypeOK
    /\ struct = "handshake" /\ thread_pause_pc["worker"] # "running" => should_pause
    /\ Pause!StoppedWhenTold
    /\ struct = "flags" => (flags = {"PAUSED"} <=> thread_pause_pc["worker"] # "running")
    /\ struct = "slave" => (block_status <=> last = "pause")
    /\ Pause!LastCommandHolds

LEMMA PauseStarts == Pause!Init => PauseInv
<1>1. Pause!Init => Pause!TypeOK
  <2>1. Pause!Init => thread_pause_pc \in [Pause!Actors -> Pause!PCs]
    BY DEF Pause!Init, Pause!PCs
  <2>2. Pause!Init => commands \in 0..Commands
    BY ControllersAssumption DEF Pause!Init
  <2>3. Pause!Init => flags \in {{"RUNNING"}, {"RUNNING", "MARKED"}, {"PAUSED"}}
    BY DEF Pause!Init
  <2> QED BY <2>1, <2>2, <2>3 DEF Pause!Init, Pause!TypeOK
<1> QED BY <1>1
        DEF Pause!Init, PauseInv, Pause!StoppedWhenTold, Pause!LastCommandHolds, Pause!Actors

LEMMA PauseKeeps == PauseInv /\ [Pause!Next]_Pause!vars => PauseInv'
<1> USE ControllersAssumption
    DEF PauseInv, Pause!TypeOK, Pause!StoppedWhenTold, Pause!LastCommandHolds, Pause!Actors,
        Pause!PCs, Pause!Calls, Pause!Goes, Pause!Signal, Pause!mode, Pause!marks
<1> SUFFICES ASSUME PauseInv, [Pause!Next]_Pause!vars PROVE PauseInv'
  OBVIOUS
<1>1. CASE UNCHANGED Pause!vars
  BY <1>1 DEF Pause!vars
<1>2. ASSUME NEW c \in Controllers, Pause!HandshakePause(c)
      PROVE  PauseInv'
  BY <1>2 DEF Pause!HandshakePause
<1>3. ASSUME NEW c \in Controllers, Pause!HandshakeReturns(c)
      PROVE  PauseInv'
  BY <1>3 DEF Pause!HandshakeReturns
<1>4. ASSUME NEW c \in Controllers, Pause!HandshakeResume(c)
      PROVE  PauseInv'
  BY <1>4 DEF Pause!HandshakeResume
<1>5. ASSUME NEW c \in Controllers, Pause!FlagsPause(c)
      PROVE  PauseInv'
  BY <1>5 DEF Pause!FlagsPause
<1>6. ASSUME NEW c \in Controllers, Pause!FlagsResume(c)
      PROVE  PauseInv'
  BY <1>6 DEF Pause!FlagsResume
<1>7. ASSUME NEW c \in Controllers, Pause!SlavePause(c) \/ Pause!SlaveResume(c)
      PROVE  PauseInv'
  <2>1. CASE Pause!SlavePause(c)
    BY <2>1 DEF Pause!SlavePause
  <2>2. CASE Pause!SlaveResume(c)
    <3>1. Pause!TypeOK'
      <4>1. commands' \in 0..Commands
        BY <2>2 DEF Pause!SlaveResume
      <4>2. thread_pause_pc' \in [Pause!Actors -> Pause!PCs]
        <5>1. PICK place \in Pause!PCs :
                  thread_pause_pc' = [thread_pause_pc EXCEPT !["worker"] = place]
          BY <2>2 DEF Pause!SlaveResume
        <5> QED BY <5>1
      <4>3. last' \in {"pause", "resume"} /\ block_status' \in BOOLEAN
        BY <2>2 DEF Pause!SlaveResume
      <4> QED BY <2>2, <4>1, <4>2, <4>3 DEF Pause!SlaveResume
    <3>2. last' = "resume" /\ block_status' = FALSE /\ struct' = "slave"
      BY <2>2 DEF Pause!SlaveResume
    <3>3. thread_pause_pc'["worker"] # "asleep"
      BY <2>2 DEF Pause!SlaveResume
    <3> QED BY <3>1, <3>2, <3>3
  <2> QED BY <1>7, <2>1, <2>2
<1>8. CASE Pause!HandshakeStop
  BY <1>8 DEF Pause!HandshakeStop
<1>9. CASE Pause!HandshakeAgain
  BY <1>9 DEF Pause!HandshakeAgain
<1>10. CASE Pause!FlagsStop
  BY <1>10 DEF Pause!FlagsStop
<1>11. CASE Pause!FlagsRun
  BY <1>11 DEF Pause!FlagsRun
<1>12. CASE Pause!SlaveStop \/ Pause!SlaveRun
  BY <1>12 DEF Pause!SlaveStop, Pause!SlaveRun
<1>13. ASSUME NEW x \in Pause!Actors, Pause!SpuriousWakeup(x)
       PROVE  PauseInv'
  BY <1>13 DEF Pause!SpuriousWakeup
<1> QED BY <1>1, <1>2, <1>3, <1>4, <1>5, <1>6, <1>7, <1>8, <1>9, <1>10, <1>11, <1>12, <1>13
        DEF Pause!Next, Pause!Worker

LEMMA PauseAlways == SyncSpec => []PauseInv
<1>1. Pause!Spec => []PauseInv
  BY PauseStarts, PauseKeeps, PTL DEF Pause!Spec
<1> QED BY <1>1, PauseRuns, PTL

-----------------------------------------------------------------------------
(* The traffic light *)

LEMMA LightRuns == SyncSpec => Light!Spec
<1>1. SyncInit => Light!Init
  BY DEF SyncInit
<1>2. [SyncNext]_syncVars => [Light!Next]_Light!vars
  BY DEF SyncNext, syncVars, varsLight, Light!vars, OthersBarrier, OthersSem, OthersQueue,
         OthersPair, OthersPause, OthersStrict, OthersBiased, OthersTurn, OthersCentre,
         OthersFirst, OthersDining, OthersRing
<1> QED BY <1>1, <1>2, PTL DEF SyncSpec, Light!Spec

\* Whoever stops or goes holds the mutex of the first direction, in whose eyes
\* therefore the light does not change between the test and the wait.
LightInv ==
    /\ Light!TypeOK
    /\ \A c \in Light!Cars : traffic_light_pc[c] \in {"stop", "go"} <=> holder["east"] = c
    /\ light["east"] = "green" =>
           \A c \in EastCars : traffic_light_pc[c] \notin {"asleep", "stop"}

LEMMA LightStarts == Light!Init => LightInv
BY CarsAssumption DEF Light!Init, LightInv, Light!TypeOK, Light!Cars, Light!Directions,
   Light!Colours, Light!PCs

LEMMA LightKeeps == LightInv /\ [Light!Next]_Light!vars => LightInv'
<1> USE CarsAssumption
    DEF LightInv, Light!TypeOK, Light!Directions, Light!mutex_of, Light!PCs
<1> SUFFICES ASSUME LightInv, [Light!Next]_Light!vars PROVE LightInv'
  OBVIOUS
<1>0. EastCars \in SUBSET Light!Cars /\ NULL \notin Light!Cars
  BY DEF Light!Cars
<1>1. CASE UNCHANGED Light!vars
  BY <1>1 DEF Light!vars
<1>2. ASSUME NEW c \in Light!Cars, Light!Test(c)
      PROVE  LightInv'
  BY <1>0, <1>2 DEF Light!Test, Light!th_dirn
<1>3. ASSUME NEW c \in Light!Cars, Light!Wait(c)
      PROVE  LightInv'
  BY <1>0, <1>3 DEF Light!Wait
<1>4. ASSUME NEW c \in Light!Cars, Light!Leave(c)
      PROVE  LightInv'
  BY <1>0, <1>4 DEF Light!Leave
<1>5. ASSUME NEW c \in Light!Cars, Light!SpuriousWakeup(c)
      PROVE  LightInv'
  BY <1>0, <1>5 DEF Light!SpuriousWakeup
<1>6. ASSUME NEW d \in Light!Directions, NEW col \in Light!Colours, Light!SetStatus(d, col)
      PROVE  LightInv'
  BY <1>0, <1>6 DEF Light!SetStatus, Light!Wakes, Light!th_dirn, Light!Colours
<1> QED BY <1>1, <1>2, <1>3, <1>4, <1>5, <1>6 DEF Light!Next, Light!Step

LEMMA LightAlways == SyncSpec => []LightInv
<1>1. Light!Spec => []LightInv
  BY LightStarts, LightKeeps, PTL DEF Light!Spec
<1> QED BY <1>1, LightRuns, PTL

\* One car at a time writes the log, of whichever direction: all of them test the
\* light under the mutex of the first.
LEMMA LightLog == LightInv => Light!LogExclusive
<1> SUFFICES ASSUME LightInv PROVE Light!LogExclusive
  OBVIOUS
<1>1. PICK G : G = {c \in Light!Cars : traffic_light_pc[c] = "go"}
  OBVIOUS
<1>2. \A c \in G : c = holder["east"]
  BY <1>1 DEF LightInv
<1>3. G = {} \/ G = {holder["east"]}
  BY <1>2
<1>4. Cardinality(G) <= 1
  <2>1. Cardinality({}) = 0 /\ Cardinality({holder["east"]}) = 1
    BY FS_EmptySet, FS_Singleton
  <2> QED BY <1>3, <2>1
<1> QED BY <1>1, <1>4 DEF Light!LogExclusive, Light!Cardinality, Cardinality

-----------------------------------------------------------------------------
(* The dining philosophers *)

LEMMA DiningRuns == SyncSpec => Dining!Spec
<1>1. SyncInit => Dining!Init
  BY DEF SyncInit
<1>2. [SyncNext]_syncVars => [Dining!Next]_Dining!vars
  BY DEF SyncNext, syncVars, varsDining, Dining!vars, OthersBarrier, OthersSem, OthersQueue,
         OthersPair, OthersPause, OthersLight, OthersStrict, OthersBiased, OthersTurn,
         OthersCentre, OthersFirst, OthersRing
<1> QED BY <1>1, <1>2, PTL DEF SyncSpec, Dining!Spec

\* Only its user puts a spoon down, and wakes the neighbour that waits for it.
\* A mutex is held by whoever gives up or releases, and nobody else.
DiningInv ==
    /\ Dining!TypeOK /\ Dining!EatsWithBoth /\ Dining!NoLostWakeup
    /\ \A s, p \in Dining!Phils : spoon[s] = p =>
           \/ s = p /\ philosophers_pc[p] \in {"right", "giveup", "eat", "release"}
           \/ s = Dining!right(p) /\ philosophers_pc[p] \in {"eat", "release", "release2"}
    /\ \A s, p \in Dining!Phils : mutex[s] = p =>
           \/ s = p /\ philosophers_pc[p] = "release"
           \/ s = Dining!right(p) /\ philosophers_pc[p] \in {"giveup", "release2"}

LEMMA DiningPlaces ==
    ASSUME NEW p \in Dining!Phils
    PROVE  /\ Dining!left(p) = p
           /\ Dining!right(p) \in Dining!Phils /\ Dining!right(p) # p
           /\ NULL \notin Dining!Phils
           /\ \A r \in Dining!Phils : Dining!right(r) = Dining!right(p) => r = p
BY PhilosophersAssumption DEF Dining!Phils, Dining!left, Dining!right

LEMMA DiningStarts == Dining!Init => DiningInv
BY DiningPlaces
   DEF Dining!Init, DiningInv, Dining!TypeOK, Dining!EatsWithBoth, Dining!NoLostWakeup,
       Dining!PCs

LEMMA DiningSteps ==
    ASSUME DiningInv, NEW p \in Dining!Phils, Dining!Step(p)
    PROVE  DiningInv'
<1> USE DEF DiningInv, Dining!TypeOK, Dining!EatsWithBoth, Dining!NoLostWakeup, Dining!PCs
<1>0. /\ \A r \in Dining!Phils : /\ Dining!left(r) = r
                                 /\ Dining!right(r) \in Dining!Phils /\ Dining!right(r) # r
                                 /\ Dining!right(r) = Dining!right(p) => r = p
      /\ NULL \notin Dining!Phils
  BY DiningPlaces
<1>1. CASE Dining!TakeLeft(p)
  BY <1>0, <1>1 DEF Dining!TakeLeft
<1>2. CASE Dining!TakeRight(p)
  BY <1>0, <1>2 DEF Dining!TakeRight
<1>3. CASE Dining!RightInUse(p)
  BY <1>0, <1>3 DEF Dining!RightInUse
<1>4. CASE Dining!GiveUp(p)
  BY <1>0, <1>4 DEF Dining!GiveUp
<1>5. CASE Dining!Release(p)
  BY <1>0, <1>5 DEF Dining!Release
<1>6. CASE Dining!ReleaseLeft(p)
  BY <1>0, <1>6 DEF Dining!ReleaseLeft, Dining!Signal
<1>7. CASE Dining!ReleaseRight(p)
  BY <1>0, <1>7 DEF Dining!ReleaseRight, Dining!Signal
<1> QED BY <1>1, <1>2, <1>3, <1>4, <1>5, <1>6, <1>7 DEF Dining!Step

LEMMA DiningKeeps == DiningInv /\ [Dining!Next]_Dining!vars => DiningInv'
<1> SUFFICES ASSUME DiningInv, [Dining!Next]_Dining!vars PROVE DiningInv'
  OBVIOUS
<1> USE DEF DiningInv, Dining!TypeOK, Dining!EatsWithBoth, Dining!NoLostWakeup, Dining!PCs
<1>1. CASE UNCHANGED Dining!vars
  BY <1>1 DEF Dining!vars
<1>2. ASSUME NEW p \in Dining!Phils, Dining!SpuriousWakeup(p)
      PROVE  DiningInv'
  BY <1>2 DEF Dining!SpuriousWakeup
<1> QED BY <1>1, <1>2, DiningSteps DEF Dining!Next

LEMMA DiningAlways == SyncSpec => []DiningInv
<1>1. Dining!Spec => []DiningInv
  BY DiningStarts, DiningKeeps, PTL DEF Dining!Spec
<1> QED BY <1>1, DiningRuns, PTL

\* A set of philosophers that holds the right neighbour of each of its members
\* is the whole ring.
DiningAfter(p) == IF p = N_PHILOSOPHER - 1 THEN 0 ELSE p + 1

LEMMA DiningRound ==
    ASSUME NEW G \in SUBSET Dining!Phils, G # {}, \A p \in G : DiningAfter(p) \in G
    PROVE  G = Dining!Phils
<1> USE PhilosophersAssumption DEF Dining!Phils, DiningAfter
<1>1. N_PHILOSOPHER - 1 \in G
  <2>1. PICK E : E = {n \in Dining!Phils : N_PHILOSOPHER - 1 - n \in G}
    OBVIOUS
  <2>2. E \subseteq Nat /\ E # {}
    <3>1. PICK g \in G : TRUE
      OBVIOUS
    <3>2. N_PHILOSOPHER - 1 - g \in E
      BY <2>1
    <3>3. \A n \in E : n \in Nat
      BY <2>1
    <3> QED BY <3>2, <3>3
  <2>3. PICK n \in E : \A y \in E : n <= y
    BY <2>2, LeastNumber
  <2>4. n = 0
    <3>1. PICK p \in G : p = N_PHILOSOPHER - 1 - n
      BY <2>1, <2>3
    <3>2. ASSUME n # 0 PROVE FALSE
      <4>1. p + 1 \in G /\ N_PHILOSOPHER - 1 - (n - 1) = p + 1 /\ n - 1 \in Dining!Phils
        BY <2>1, <2>3, <3>1, <3>2
      <4>2. n - 1 \in E
        BY <2>1, <4>1
      <4> QED BY <2>2, <2>3, <4>2
    <3> QED BY <3>2
  <2> QED BY <2>1, <2>3, <2>4
<1>2. 0 \in G
  BY <1>1
<1>3. ASSUME Dining!Phils \ G # {} PROVE FALSE
  <2>0. PICK D : D = Dining!Phils \ G
    OBVIOUS
  <2>1. PICK d \in D : \A y \in D : d <= y
    <3>1. D \subseteq Nat /\ D # {}
      BY <1>3, <2>0
    <3> QED BY <3>1, LeastNumber
  <2>2. d - 1 \in Dining!Phils /\ d - 1 # N_PHILOSOPHER - 1
    BY <1>2, <2>0, <2>1
  <2>3. d - 1 \in G
    BY <2>0, <2>1, <2>2
  <2> QED BY <2>0, <2>1, <2>2, <2>3
<1> QED BY <1>3

\* All that are blocked wait for one that gives up or eats, who waits in turn for
\* its right neighbour to give up, and so on around the table.
LEMMA DiningBlocked == DiningInv => Dining!BlockedInRingOnly
<1> SUFFICES ASSUME DiningInv, \A p \in Dining!Phils : Dining!Blocked(p)
             PROVE  Dining!Ring
  BY DEF Dining!BlockedInRingOnly
<1>0. \A p \in Dining!Phils :
          /\ Dining!left(p) = p
          /\ Dining!right(p) \in Dining!Phils /\ Dining!right(p) # p
          /\ \A r \in Dining!Phils : Dining!right(r) = Dining!right(p) => r = p
  BY DiningPlaces
<1>1. \A p \in Dining!Phils : philosophers_pc[p] \notin {"release", "release2"}
  <2>1. \A p \in Dining!Phils : philosophers_pc[p] # "release2"
    BY DEF Dining!Blocked
  <2>2. ASSUME NEW p \in Dining!Phils, philosophers_pc[p] = "release" PROVE FALSE
    <3>1. PICK r \in Dining!Phils : mutex[Dining!right(p)] = r
      BY <1>0, <2>2 DEF Dining!Blocked, DiningInv, Dining!TypeOK
    <3>2. \/ Dining!right(p) = r /\ philosophers_pc[r] = "release"
          \/ Dining!right(p) = Dining!right(r) /\ philosophers_pc[r] = "giveup"
      BY <1>0, <2>1, <3>1 DEF DiningInv
    <3>3. spoon[Dining!right(p)] = p /\ (philosophers_pc[r] = "release" => spoon[r] = r)
      BY <1>0, <2>2 DEF DiningInv, Dining!EatsWithBoth
    <3> QED BY <1>0, <2>2, <3>2, <3>3
  <2> QED BY <2>1, <2>2
<1>2. ASSUME NEW s \in Dining!Phils, mutex[s] # NULL
      PROVE  \E r \in Dining!Phils : s = Dining!right(r) /\ philosophers_pc[r] = "giveup"
  <2>1. PICK r \in Dining!Phils : mutex[s] = r
    BY <1>2 DEF DiningInv, Dining!TypeOK
  <2> QED BY <1>1, <2>1 DEF DiningInv
<1>3. ASSUME NEW p \in Dining!Phils
      PROVE  \/ mutex[p] # NULL
             \/ philosophers_pc[p] = "asleep"
  <2>1. philosophers_pc[p] # "right"
    BY <1>0, <1>2 DEF Dining!Blocked
  <2> QED BY <1>0, <1>1, <2>1 DEF Dining!Blocked
<1>4. PICK G : G = {p \in Dining!Phils : philosophers_pc[p] = "giveup"}
  OBVIOUS
<1>5. G # {}
  <2>1. PICK p : p \in Dining!Phils
    BY PhilosophersAssumption DEF Dining!Phils
  <2>2. CASE mutex[p] # NULL
    BY <1>2, <1>4, <2>1, <2>2
  <2>3. CASE philosophers_pc[p] = "asleep"
    <3>1. PICK r \in Dining!Phils : spoon[p] = r /\ r # p
      BY <1>0, <2>1, <2>3 DEF DiningInv, Dining!TypeOK, Dining!NoLostWakeup
    <3>2. philosophers_pc[r] = "eat"
      BY <1>1, <2>1, <3>1 DEF DiningInv
    <3>3. mutex[r] # NULL
      BY <1>3, <3>2
    <3> QED BY <1>2, <1>4, <3>3
  <2> QED BY <1>3, <2>1, <2>2, <2>3
<1>6. ASSUME NEW p \in G PROVE DiningAfter(p) \in G
  <2>1. p \in Dining!Phils /\ mutex[p] # NULL
    BY <1>3, <1>4
  <2>2. PICK r \in G : p = Dining!right(r)
    BY <1>2, <1>4, <2>1
  <2>3. r \in Dining!Phils
    BY <1>4
  <2>4. DiningAfter(p) = r
    BY <2>2, <2>3, PhilosophersAssumption DEF DiningAfter, Dining!right, Dining!Phils
  <2> QED BY <2>2, <2>4
<1>7. G = Dining!Phils
  BY <1>4, <1>5, <1>6, DiningRound
<1> QED BY <1>4, <1>7 DEF Dining!Ring

-----------------------------------------------------------------------------
(* The producers and consumers *)

LEMMA RingRuns == SyncSpec => Ring!Spec
<1>1. SyncInit => Ring!Init
  BY DEF SyncInit
<1>2. [SyncNext]_syncVars => [Ring!Next]_Ring!vars
  BY DEF SyncNext, syncVars, varsRing, Ring!vars, Ring!ring, OthersBarrier, OthersSem,
         OthersQueue, OthersPair, OthersPause, OthersLight, OthersStrict, OthersBiased,
         OthersTurn, OthersCentre, OthersFirst, OthersDining
<1> QED BY <1>1, <1>2, PTL DEF SyncSpec, Ring!Spec

\* The slot of the i-th element when the first one is in slot f.
RingSlot ==
    [f \in Ring!Slots |-> [i \in 1..Q_DEFAULT_SIZE |->
        IF f + i - 1 < Q_DEFAULT_SIZE THEN f + i - 1 ELSE f + i - 1 - Q_DEFAULT_SIZE]]

LEMMA RingSlots ==
    ASSUME NEW f \in Ring!Slots, NEW i \in 1..Q_DEFAULT_SIZE
    PROVE  /\ RingSlot[f][i] \in Ring!Slots
           /\ RingSlot[f][i] = (f + i - 1) % Q_DEFAULT_SIZE
           /\ RingSlot[f][1] = f
           /\ \A j \in 1..Q_DEFAULT_SIZE : RingSlot[f][j] = RingSlot[f][i] => j = i
           /\ Ring!After(f) \in Ring!Slots
           /\ i < Q_DEFAULT_SIZE =>
                  /\ Ring!After(RingSlot[f][i]) = RingSlot[f][i + 1]
                  /\ RingSlot[Ring!After(f)][i] = RingSlot[f][i + 1]
<1> USE RingAssumption DEF Ring!Slots
<1>1. \A j \in 1..Q_DEFAULT_SIZE :
          RingSlot[f][j] = IF f + j - 1 < Q_DEFAULT_SIZE
                           THEN f + j - 1 ELSE f + j - 1 - Q_DEFAULT_SIZE
  BY DEF RingSlot
<1>2. RingSlot[f][i] \in Ring!Slots /\ RingSlot[f][1] = f
  BY <1>1
<1>3. RingSlot[f][i] = (f + i - 1) % Q_DEFAULT_SIZE
  <2>1. \A n \in Nat \ {0} : \A x \in 0..(n - 1) : x % n = x /\ (x + n) % n = x
    OBVIOUS
  <2>2. CASE f + i - 1 < Q_DEFAULT_SIZE
    <3>1. f + i - 1 \in 0..(Q_DEFAULT_SIZE - 1)
      BY <2>2
    <3> QED BY <1>1, <2>1, <2>2, <3>1
  <2>3. CASE ~(f + i - 1 < Q_DEFAULT_SIZE)
    <3>1. PICK x : x = f + i - 1 - Q_DEFAULT_SIZE
      OBVIOUS
    <3>2. x \in 0..(Q_DEFAULT_SIZE - 1) /\ x + Q_DEFAULT_SIZE = f + i - 1
      BY <2>3, <3>1
    <3>3. (x + Q_DEFAULT_SIZE) % Q_DEFAULT_SIZE = x
      BY <2>1, <3>2
    <3> QED BY <1>1, <2>3, <3>1, <3>2, <3>3
  <2> QED BY <2>2, <2>3
<1>4. \A j \in 1..Q_DEFAULT_SIZE : RingSlot[f][j] = RingSlot[f][i] => j = i
  BY <1>1
<1>5. /\ Ring!After(f) \in Ring!Slots
      /\ i < Q_DEFAULT_SIZE =>
             /\ Ring!After(RingSlot[f][i]) = RingSlot[f][i + 1]
             /\ RingSlot[Ring!After(f)][i] = RingSlot[f][i + 1]
  <2>1. Ring!After(f) \in Ring!Slots
    BY DEF Ring!After
  <2>2. RingSlot[Ring!After(f)][i] =
            IF Ring!After(f) + i - 1 < Q_DEFAULT_SIZE
            THEN Ring!After(f) + i - 1 ELSE Ring!After(f) + i - 1 - Q_DEFAULT_SIZE
    BY <2>1 DEF RingSlot
  <2> QED BY <1>1, <2>1, <2>2 DEF Ring!After
<1> QED BY <1>2, <1>3, <1>4, <1>5

RingTyped ==
    /\ elem \in [Ring!Slots -> Nat \cup {NULL}]
    /\ \A s \in Ring!Slots : elem[s] \in 1..a \cup {NULL}
    /\ front \in Ring!Slots /\ rear \in Ring!Slots /\ count \in 0..Q_DEFAULT_SIZE
    /\ q_mutex \in Ring!Threads \cup {NULL}
    /\ prod_cons_pc \in [Ring!Threads -> Ring!PCs]
    /\ a \in Nat
    /\ consumed \in Seq(Nat)

\* The numbers from the first not consumed to the last produced are in the slots
\* from front to rear; in an empty ring front and rear are the same slot.
RingOrder ==
    /\ \A i \in 1..Len(consumed) : consumed[i] = i
    /\ a = Len(consumed) + count
    /\ \A i \in 1..count : elem[RingSlot[front][i]] = Len(consumed) + i
    /\ rear = IF count = 0 THEN front ELSE RingSlot[front][count]

\* The thread that fills or empties the ring has the mutex until it is done.
RingTurns ==
    /\ \A t \in Ring!Threads : prod_cons_pc[t] = "busy" <=> q_mutex = t
    /\ Ring!AssertsHold

RingInv == RingTyped /\ RingOrder /\ RingTurns

LEMMA RingStarts == Ring!Init => RingInv
<1> USE RingAssumption
<1> SUFFICES ASSUME Ring!Init PROVE RingInv
  OBVIOUS
<1>1. consumed = <<>> /\ consumed \in Seq(Nat) /\ Len(consumed) = 0
  BY DEF Ring!Init
<1>2. RingTyped
  BY <1>1 DEF Ring!Init, RingTyped, Ring!Slots, Ring!PCs
<1>3. RingOrder
  BY <1>1 DEF Ring!Init, RingOrder
<1>4. RingTurns
  BY DEF Ring!Init, RingTurns, Ring!AssertsHold, Ring!Threads, Ring!is_queue_empty
<1> QED BY <1>2, <1>3, <1>4 DEF RingInv

\* enqueue: behind the rear, or in the slot at which an empty ring begins.
LEMMA RingProduces ==
    ASSUME RingInv, NEW t \in Producers, Ring!Produce(t)
    PROVE  RingInv'
<1> USE RingAssumption
<1>1. /\ count # Q_DEFAULT_SIZE /\ count' = count + 1 /\ a' = a + 1
      /\ elem' = [elem EXCEPT ![Ring!Place] = a + 1]
      /\ rear' = Ring!NewRear
      /\ UNCHANGED <<front, q_mutex, prod_cons_pc, consumed>>
      /\ prod_cons_pc[t] = "busy"
  BY DEF Ring!Produce, Ring!is_queue_full
<1>2. /\ count \in 0..Q_DEFAULT_SIZE /\ count' \in 1..Q_DEFAULT_SIZE
      /\ front \in Ring!Slots /\ Len(consumed) \in Nat /\ a \in Nat
      /\ a + 1 = Len(consumed) + count'
  BY <1>1, LenProperties DEF RingInv, RingTyped, RingOrder
<1>3. Ring!Place = RingSlot[front][count'] /\ Ring!NewRear = RingSlot[front][count']
  <2>1. CASE count = 0
    <3>1. count' = 1 /\ RingSlot[front][1] = front
      BY <1>1, <1>2, <2>1, RingSlots
    <3> QED BY <2>1, <3>1
            DEF RingInv, RingOrder, Ring!Place, Ring!NewRear, Ring!is_queue_empty
  <2>2. CASE count # 0
    <3>1. count \in 1..Q_DEFAULT_SIZE /\ count < Q_DEFAULT_SIZE
      BY <1>1, <1>2, <2>2
    <3>2. Ring!After(RingSlot[front][count]) = RingSlot[front][count + 1]
      BY <1>2, <3>1, RingSlots
    <3> QED BY <1>1, <2>2, <3>2
            DEF RingInv, RingOrder, Ring!Place, Ring!NewRear, Ring!is_queue_empty
  <2> QED BY <2>1, <2>2
<1>4. RingSlot[front][count'] \in Ring!Slots
  BY <1>2, RingSlots
<1>5. RingTyped'
  BY <1>1, <1>2, <1>3, <1>4 DEF RingInv, RingTyped
<1>6. RingOrder'
  <2>1. ASSUME NEW i \in 1..count'
        PROVE  elem'[RingSlot[front][i]] = Len(consumed) + i
    <3>1. CASE i = count'
      BY <1>1, <1>2, <1>3, <1>4, <3>1 DEF RingInv, RingTyped
    <3>2. CASE i # count'
      <4>1. i \in 1..count /\ i \in 1..Q_DEFAULT_SIZE
        BY <1>1, <1>2, <2>1, <3>2
      <4>2. RingSlot[front][i] # RingSlot[front][count'] /\ RingSlot[front][i] \in Ring!Slots
        BY <1>2, <3>2, <4>1, RingSlots
      <4>3. elem'[RingSlot[front][i]] = elem[RingSlot[front][i]]
        BY <1>1, <1>3, <4>2 DEF RingInv, RingTyped
      <4> QED BY <4>1, <4>3 DEF RingInv, RingOrder
    <3> QED BY <3>1, <3>2
  <2>2. rear' = RingSlot[front][count'] /\ count' # 0
    BY <1>1, <1>2, <1>3
  <2> QED BY <1>1, <1>2, <2>1, <2>2 DEF RingInv, RingOrder
<1>7. RingTurns'
  <2>1. q_mutex = t /\ t # NULL
    BY <1>1 DEF RingInv, RingTurns, Ring!Threads
  <2> QED BY <1>1, <2>1 DEF RingInv, RingTurns, Ring!AssertsHold
<1> QED BY <1>5, <1>6, <1>7 DEF RingInv

\* deque: the first element goes, and the front moves on unless it was the last.
LEMMA RingConsumes ==
    ASSUME RingInv, NEW t \in Consumers, Ring!Consume(t)
    PROVE  RingInv'
<1> USE RingAssumption
<1>1. /\ count # 0 /\ count' = count - 1
      /\ consumed' = Append(consumed, elem[front])
      /\ elem' = [elem EXCEPT ![front] = NULL]
      /\ front' = Ring!NewFront
      /\ UNCHANGED <<rear, q_mutex, prod_cons_pc, a>>
      /\ prod_cons_pc[t] = "busy"
  BY DEF Ring!Consume, Ring!is_queue_empty
<1>2. /\ count \in 1..Q_DEFAULT_SIZE /\ front \in Ring!Slots
      /\ Len(consumed) \in Nat /\ a \in Nat
      /\ a = Len(consumed) + count /\ consumed \in Seq(Nat)
  BY <1>1, LenProperties DEF RingInv, RingTyped, RingOrder
<1>3. elem[front] = Len(consumed) + 1
  <2>1. RingSlot[front][1] = front
    BY <1>2, RingSlots
  <2>2. 1 \in 1..count
    BY <1>2
  <2> QED BY <2>1, <2>2 DEF RingInv, RingOrder
<1>4. /\ Len(consumed') = Len(consumed) + 1
      /\ consumed' \in Seq(Nat)
      /\ \A i \in 1..Len(consumed') : consumed'[i] = i
  <2>1. PICK w : w = Append(consumed, Len(consumed) + 1)
    OBVIOUS
  <2>2. /\ w \in Seq(Nat) /\ Len(w) = Len(consumed) + 1
        /\ \A i \in 1..Len(consumed) : w[i] = consumed[i]
        /\ w[Len(consumed) + 1] = Len(consumed) + 1
    <3>1. Len(consumed) + 1 \in Nat
      BY <1>2
    <3> QED BY <1>2, <2>1, <3>1, AppendProperties
  <2>2a. \A i \in 1..Len(consumed) : consumed[i] = i
    BY DEF RingInv, RingOrder
  <2>3. ASSUME NEW i \in 1..Len(w) PROVE w[i] = i
    <3>1. CASE i = Len(consumed) + 1
      BY <2>2, <3>1
    <3>2. CASE i # Len(consumed) + 1
      <4>1. i \in 1..Len(consumed)
        BY <1>2, <2>2, <3>2
      <4> QED BY <2>2, <2>2a, <4>1
    <3> QED BY <3>1, <3>2
  <2>4. consumed' = w
    BY <1>1, <1>3, <2>1
  <2> QED BY <2>2, <2>3, <2>4
<1>5. front' = IF count = 1 THEN front ELSE Ring!After(front)
  <2>1. rear = RingSlot[front][count]
    BY <1>1 DEF RingInv, RingOrder
  <2>2. RingSlot[front][1] = front /\ (RingSlot[front][1] = RingSlot[front][count] => 1 = count)
    <3>1. 1 \in 1..Q_DEFAULT_SIZE
      OBVIOUS
    <3> QED BY <1>2, <3>1, RingSlots
  <2> QED BY <1>1, <2>1, <2>2 DEF Ring!NewFront
<1>6. front' \in Ring!Slots
  BY <1>2, <1>5, RingSlots
<1>7. RingTyped'
  BY <1>1, <1>2, <1>4, <1>6 DEF RingInv, RingTyped
<1>8. ASSUME NEW i \in 1..count'
      PROVE  /\ RingSlot[front'][i] = RingSlot[front][i + 1]
             /\ elem'[RingSlot[front'][i]] = Len(consumed) + i + 1
  <2>1. /\ count # 1 /\ i \in 1..Q_DEFAULT_SIZE /\ i < Q_DEFAULT_SIZE
        /\ i + 1 \in 1..count /\ i + 1 \in 1..Q_DEFAULT_SIZE /\ i + 1 # 1
        /\ 1 \in 1..Q_DEFAULT_SIZE
    BY <1>1, <1>2, <1>8
  <2>2. RingSlot[front'][i] = RingSlot[front][i + 1]
    BY <1>2, <1>5, <2>1, RingSlots
  <2>3. /\ RingSlot[front][1] = front
        /\ RingSlot[front][i + 1] # RingSlot[front][1] /\ RingSlot[front][i + 1] \in Ring!Slots
    BY <1>2, <2>1, RingSlots
  <2>4. elem'[RingSlot[front][i + 1]] = elem[RingSlot[front][i + 1]]
    BY <1>1, <2>3 DEF RingInv, RingTyped
  <2>5. elem[RingSlot[front][i + 1]] = Len(consumed) + (i + 1)
    BY <2>1 DEF RingInv, RingOrder
  <2> QED BY <1>2, <2>2, <2>4, <2>5
<1>9. RingOrder'
  <2>1. rear' = IF count' = 0 THEN front' ELSE RingSlot[front'][count']
    <3>1. CASE count = 1
      <4>1. rear = RingSlot[front][1] /\ RingSlot[front][1] = front
        BY <1>2, <3>1, RingSlots DEF RingInv, RingOrder
      <4> QED BY <1>1, <1>5, <3>1, <4>1
    <3>2. CASE count # 1
      <4>1. count' \in 1..count' /\ count' + 1 = count /\ count' # 0
        BY <1>1, <1>2, <3>2
      <4>2. RingSlot[front'][count'] = RingSlot[front][count' + 1]
        BY <1>8, <4>1
      <4> QED BY <1>1, <4>1, <4>2 DEF RingInv, RingOrder
    <3> QED BY <3>1, <3>2
  <2>2. a' = Len(consumed') + count'
    BY <1>1, <1>2, <1>4
  <2>3. \A i \in 1..count' : elem'[RingSlot[front'][i]] = Len(consumed') + i
    BY <1>2, <1>4, <1>8
  <2> QED BY <1>4, <2>1, <2>2, <2>3 DEF RingOrder
<1>10. RingTurns'
  <2>1. q_mutex = t /\ t # NULL
    BY <1>1 DEF RingInv, RingTurns, Ring!Threads
  <2> QED BY <1>1, <2>1 DEF RingInv, RingTurns, Ring!AssertsHold
<1> QED BY <1>7, <1>9, <1>10 DEF RingInv

LEMMA RingKeeps == RingInv /\ [Ring!Next]_Ring!vars => RingInv'
<1> SUFFICES ASSUME RingInv, [Ring!Next]_Ring!vars PROVE RingInv'
  OBVIOUS
<1> USE RingAssumption DEF RingInv
<1>1. ASSUME UNCHANGED <<elem, front, rear, count, a, consumed>>
      PROVE  RingOrder'
  BY <1>1 DEF RingOrder
<1>2. CASE UNCHANGED Ring!vars
  BY <1>1, <1>2 DEF Ring!vars, Ring!ring, RingTyped, RingTurns, Ring!AssertsHold,
                    Ring!is_queue_empty, Ring!is_queue_full
<1>3. ASSUME NEW t \in Ring!Threads, Ring!Test(t) \/ Ring!End(t) \/ Ring!SpuriousWakeup(t)
      PROVE  RingInv'
  <2>1. UNCHANGED <<elem, front, rear, count, a, consumed>>
    BY <1>3 DEF Ring!Test, Ring!End, Ring!SpuriousWakeup, Ring!ring
  <2>2. CASE Ring!Test(t)
    <3>1. RingTyped'
      BY <2>1, <2>2 DEF Ring!Test, RingTyped, Ring!PCs
    <3>2. q_mutex = NULL /\ NULL \notin Ring!Threads
      BY <2>2 DEF Ring!Test, Ring!Threads
    <3>3. RingTurns'
      BY <2>1, <2>2, <3>2
         DEF Ring!Test, RingTyped, RingTurns, Ring!AssertsHold, Ring!CannotStart,
             Ring!Expected, Ring!is_queue_empty, Ring!is_queue_full
    <3> QED BY <1>1, <2>1, <3>1, <3>3
  <2>3. CASE Ring!End(t)
    <3>1. RingTyped'
      BY <2>1, <2>3 DEF Ring!End, RingTyped, Ring!PCs
    <3>2. q_mutex = t /\ NULL \notin Ring!Threads
      BY <2>3 DEF Ring!End, Ring!Threads, RingTurns
    <3>3. RingTurns'
      BY <2>1, <2>3, <3>2
         DEF Ring!End, RingTyped, RingTurns, Ring!AssertsHold, Ring!is_queue_empty,
             Ring!is_queue_full
    <3> QED BY <1>1, <2>1, <3>1, <3>3
  <2>4. CASE Ring!SpuriousWakeup(t)
    <3>1. RingTyped'
      BY <2>1, <2>4 DEF Ring!SpuriousWakeup, RingTyped, Ring!PCs
    <3>2. RingTurns'
      BY <2>1, <2>4
         DEF Ring!SpuriousWakeup, RingTyped, RingTurns, Ring!AssertsHold,
             Ring!is_queue_empty, Ring!is_queue_full
    <3> QED BY <1>1, <2>1, <3>1, <3>2
  <2> QED BY <1>3, <2>2, <2>3, <2>4
<1>4. ASSUME NEW t \in Ring!Threads, Ring!Produce(t) \/ Ring!Consume(t)
      PROVE  RingInv'
  <2>1. CASE Ring!Produce(t)
    BY <2>1, RingProduces DEF Ring!Produce
  <2>2. CASE Ring!Consume(t)
    BY <2>2, RingConsumes DEF Ring!Consume
  <2> QED BY <1>4, <2>1, <2>2
<1> QED BY <1>2, <1>3, <1>4 DEF Ring!Next, Ring!Step, Ring!Finished

LEMMA RingAlways == SyncSpec => []RingInv
<1>1. Ring!Spec => []RingInv
  BY RingStarts, RingKeeps, PTL DEF Ring!Spec
<1> QED BY <1>1, RingRuns, PTL

LEMMA RingIsTyped == RingInv => Ring!TypeOK
<1> SUFFICES ASSUME RingInv PROVE Ring!TypeOK
  OBVIOUS
<1>1. elem \in [Ring!Slots -> 1..a \cup {NULL}]
  BY DEF RingInv, RingTyped
<1>2. consumed \in Seq(1..a)
  <2>1. Len(consumed) \in Nat /\ a = Len(consumed) + count /\ count \in Nat
    BY RingAssumption, LenProperties DEF RingInv, RingTyped, RingOrder
  <2>2. \A i \in 1..Len(consumed) : consumed[i] \in 1..a
    BY <2>1 DEF RingInv, RingOrder
  <2>3. consumed = [i \in 1..Len(consumed) |-> consumed[i]]
    BY LenProperties DEF RingInv, RingTyped
  <2> QED BY <2>1, <2>2, <2>3
<1> QED BY <1>1, <1>2 DEF RingInv, RingTyped, Ring!TypeOK

\* The integers come out of the ring in the order in which they went in.
LEMMA RingFIFO == RingInv => Ring!FirstInFirstOut
<1> SUFFICES ASSUME RingInv PROVE Ring!FirstInFirstOut
  OBVIOUS
<1>1. DOMAIN consumed = 1..Len(consumed)
  BY LenProperties DEF RingInv, RingTyped
<1>2. ASSUME NEW i \in 1..count
      PROVE  Ring!Inside(i) = RingSlot[front][i]
  <2>1. i \in 1..Q_DEFAULT_SIZE /\ front \in Ring!Slots
    BY RingAssumption DEF RingInv, RingTyped
  <2> QED BY <2>1, RingSlots DEF Ring!Inside
<1> QED BY <1>1, <1>2 DEF RingInv, RingOrder, Ring!FirstInFirstOut

-----------------------------------------------------------------------------
(* The semaphore *)

LEMMA SemRuns == SyncSpec => Sem!Spec
<1>1. SyncInit => Sem!Init
  BY DEF SyncInit
<1>2. [SyncNext]_syncVars => [Sem!Next]_Sem!vars
  BY DEF SyncNext, syncVars, varsSem, Sem!vars, OthersRing, OthersQueue, OthersPair, OthersPause,
         OthersLight, OthersStrict, OthersBiased, OthersTurn, OthersCentre, OthersFirst,
         OthersDining, OthersBarrier
<1> QED BY <1>1, <1>2, PTL DEF SyncSpec, Sem!Spec

SemTyped ==
    /\ program \in {"hello", "strict"} /\ sema_disturbed \in BOOLEAN
    /\ permit_counter \in [Sem!Semas -> Int]

\* The hello world: a permit is left, or belongs to a thread that uses the resource;
\* one for each thread asleep is owed to it.
HelloAsleep == {t \in PermitUsers : sema_pc[t] = "asleep"}
HelloInside ==
    {t \in PermitUsers : sema_pc[t] = "woken" \/ (sema_pc[t] = "ready" /\ pos[t] = 2)}

HelloInv ==
    program = "hello" =>
        /\ sema_pc \in [PermitUsers -> Sem!PCs] /\ pos \in [PermitUsers -> 1..3]
        /\ \A t \in PermitUsers :
               /\ sema_pc[t] \in {"asleep", "woken"} => pos[t] = 1
               /\ sema_pc[t] = "ended" <=> pos[t] = 3
        /\ permit_counter["sema0_1"] = 0 /\ permit_counter["sema0_2"] = 0
        /\ ~sema_disturbed =>
               /\ Cardinality(HelloAsleep) =
                      IF permit_counter["sem"] < 0 THEN -permit_counter["sem"] ELSE 0
               /\ \/ \A t \in PermitUsers : sema_pc[t] = "ended"
                  \/ permit_counter["sem"] + Cardinality(HelloAsleep) + Cardinality(HelloInside)
                         = PERMIT_COUNT

\* The strict counter: the odd and the even thread go round in four steps.  One of
\* the two semaphores may be one ahead when its thread has still to take the
\* permit, or one behind when its thread is asleep.
StrictRound(n, m) ==
    \/ /\ n = m /\ n % 2 = 1
       /\ sema_pc["odd"] \notin {"asleep", "woken"}
       /\ permit_counter["sema0_1"] = 0
       /\ sema_pc["even"] # "woken"
       /\ permit_counter["sema0_2"] = IF sema_pc["even"] = "asleep" THEN -1 ELSE 0
    \/ /\ n = m + 1 /\ n % 2 = 0
       /\ sema_pc["odd"] # "woken"
       /\ permit_counter["sema0_1"] = IF sema_pc["odd"] = "asleep" THEN -1 ELSE 0
       /\ sema_pc["even"] # "asleep"
       /\ permit_counter["sema0_2"] = IF sema_pc["even"] = "woken" THEN 0 ELSE 1
    \/ /\ n = m /\ n % 2 = 0
       /\ sema_pc["odd"] # "woken"
       /\ permit_counter["sema0_1"] = IF sema_pc["odd"] = "asleep" THEN -1 ELSE 0
       /\ sema_pc["even"] \notin {"asleep", "woken"}
       /\ permit_counter["sema0_2"] = 0
    \/ /\ m = n + 1 /\ n % 2 = 0
       /\ sema_pc["odd"] # "asleep"
       /\ permit_counter["sema0_1"] = IF sema_pc["odd"] = "woken" THEN 0 ELSE 1
       /\ sema_pc["even"] # "woken"
       /\ permit_counter["sema0_2"] = IF sema_pc["even"] = "asleep" THEN -1 ELSE 0

StrictInv ==
    program = "strict" =>
        /\ sema_pc \in [{"odd", "even"} -> Sem!PCs] /\ pos \in [{"odd", "even"} -> Nat \ {0}]
        /\ permit_counter["sem"] >= 0
        /\ \A t \in {"odd", "even"} : sema_pc[t] = "ended" => pos[t] = Sem!Calls(t) + 1
        /\ ~sema_disturbed => \E n, m \in Nat :
               n = pos["odd"] /\ m = pos["even"] /\ StrictRound(n, m)

SemInv == SemTyped /\ HelloInv /\ StrictInv

LEMMA HelloSize ==
    ASSUME NEW S \in SUBSET PermitUsers
    PROVE  /\ Cardinality(S) \in Nat
           /\ S = {} <=> Cardinality(S) = 0
           /\ \A t \in PermitUsers :
                  /\ t \notin S => Cardinality(S \cup {t}) = Cardinality(S) + 1
                  /\ t \in S => Cardinality(S \ {t}) = Cardinality(S) - 1
<1>1. IsFiniteSet(PermitUsers)
  BY PermitsAssumption
<1> QED BY <1>1, SubsetSize

LEMMA SemCalls ==
    /\ program = "hello" => Sem!Threads = PermitUsers
    /\ program = "strict" => Sem!Threads = {"odd", "even"}
    /\ \A t \in PermitUsers :
           /\ Sem!Calls(t) = 2
           /\ Sem!Call(t) = [call |-> IF pos[t] = 1 THEN "wait" ELSE "post", sema |-> "sem"]
    /\ Sem!Call("odd") = IF pos["odd"] % 2 = 1 THEN [call |-> "post", sema |-> "sema0_2"]
                                               ELSE [call |-> "wait", sema |-> "sema0_1"]
    /\ Sem!Call("even") = IF pos["even"] % 2 = 1 THEN [call |-> "wait", sema |-> "sema0_2"]
                                                 ELSE [call |-> "post", sema |-> "sema0_1"]
BY PermitsAssumption
   DEF Sem!Threads, Sem!Calls, Sem!Call, Sem!Hello, Sem!Odd, Sem!Even

LEMMA SemStarts == Sem!Init => SemInv
<1> SUFFICES ASSUME Sem!Init PROVE SemInv
  OBVIOUS
<1> USE PermitsAssumption DEF Sem!Init, Sem!Semas, Sem!PCs
<1>1. SemTyped
  BY DEF SemTyped
<1>2. ASSUME program = "hello" PROVE HelloInv
  <2>1. sema_pc = [t \in PermitUsers |-> "ready"] /\ pos = [t \in PermitUsers |-> 1]
    BY <1>2, SemCalls
  <2>2. HelloAsleep = {} /\ HelloInside = {}
    BY <2>1 DEF HelloAsleep, HelloInside
  <2>3. Cardinality({}) = 0
    BY FS_EmptySet
  <2> QED BY <2>1, <2>2, <2>3 DEF HelloInv
<1>3. ASSUME program = "strict" PROVE StrictInv
  <2>1. /\ sema_pc = [t \in {"odd", "even"} |-> "ready"]
        /\ pos = [t \in {"odd", "even"} |-> 1]
    BY <1>3, SemCalls
  <2>2. StrictRound(1, 1)
    BY <2>1 DEF StrictRound
  <2> QED BY <2>1, <2>2 DEF StrictInv
<1> QED BY <1>1, <1>2, <1>3 DEF SemInv, HelloInv, StrictInv

\* Where a call of the hello world takes its thread.
LEMMA HelloReturns ==
    ASSUME SemInv, program = "hello", NEW t \in PermitUsers, sema_pc[t] # "ended",
           NEW places \in [PermitUsers -> Sem!PCs], Sem!Returns(t, places)
    PROVE  /\ pos' \in [PermitUsers -> 1..3] /\ sema_pc' \in [PermitUsers -> Sem!PCs]
           /\ pos'[t] = pos[t] + 1
           /\ sema_pc'[t] = IF pos[t] = 2 THEN "ended" ELSE "ready"
           /\ \A u \in PermitUsers \ {t} : pos'[u] = pos[u] /\ sema_pc'[u] = places[u]
<1>1. Sem!Calls(t) = 2
  BY SemCalls
<1>2. pos \in [PermitUsers -> 1..3] /\ pos[t] \in 1..2
  BY DEF SemInv, HelloInv
<1> QED BY <1>1, <1>2 DEF Sem!Returns, Sem!PCs

LEMMA HelloSteps ==
    ASSUME SemInv, program = "hello", NEW t \in PermitUsers, Sem!Step(t)
    PROVE  SemInv'
<1>a. PICK n, A, I : /\ n = permit_counter["sem"]
                     /\ A = Cardinality(HelloAsleep) /\ I = Cardinality(HelloInside)
  OBVIOUS
<1>0. /\ sema_pc \in [PermitUsers -> Sem!PCs] /\ pos \in [PermitUsers -> 1..3]
      /\ \A u \in PermitUsers :
             /\ sema_pc[u] \in {"asleep", "woken"} => pos[u] = 1
             /\ sema_pc[u] = "ended" <=> pos[u] = 3
      /\ permit_counter["sema0_1"] = 0 /\ permit_counter["sema0_2"] = 0
      /\ permit_counter \in [Sem!Semas -> Int] /\ n \in Int /\ "sem" \in Sem!Semas
      /\ HelloAsleep \in SUBSET PermitUsers /\ HelloInside \in SUBSET PermitUsers
      /\ PERMIT_COUNT \in Nat
  BY <1>a, PermitsAssumption
     DEF SemInv, HelloInv, SemTyped, Sem!Semas, HelloAsleep, HelloInside
<1>1. /\ A \in Nat /\ I \in Nat
      /\ HelloAsleep = {} <=> A = 0
      /\ \A u \in PermitUsers :
             /\ u \notin HelloAsleep => Cardinality(HelloAsleep \cup {u}) = A + 1
             /\ u \in HelloAsleep => Cardinality(HelloAsleep \ {u}) = A - 1
             /\ u \notin HelloInside => Cardinality(HelloInside \cup {u}) = I + 1
             /\ u \in HelloInside => Cardinality(HelloInside \ {u}) = I - 1
  BY <1>0, <1>a, HelloSize
<1>2. /\ Sem!Call(t).sema = "sem" /\ (Sem!Call(t).call = "wait" <=> pos[t] = 1)
      /\ (Sem!Call(t).call = "post" <=> pos[t] # 1)
  BY SemCalls
<1>3. /\ program' = "hello" /\ sema_disturbed' = sema_disturbed /\ sema_pc[t] # "ended"
      /\ sema_disturbed \in BOOLEAN
  BY DEF Sem!Step, Sem!Pass, Sem!Block, Sem!Wake, Sem!Post, Sem!Waits, Sem!Posts, SemInv,
         SemTyped
<1>4. ~sema_disturbed => /\ A = IF n < 0 THEN -n ELSE 0
                         /\ n + A + I = PERMIT_COUNT
  BY <1>3, <1>a DEF SemInv, HelloInv
<1>5. \* It is enough to know the places, and what becomes of the counters.
      ASSUME NEW d \in {-1, 0, 1}, permit_counter' = [permit_counter EXCEPT !["sem"] = @ + d],
             sema_pc' \in [PermitUsers -> Sem!PCs], pos' \in [PermitUsers -> 1..3],
             \A u \in PermitUsers :
                 /\ sema_pc'[u] \in {"asleep", "woken"} => pos'[u] = 1
                 /\ sema_pc'[u] = "ended" <=> pos'[u] = 3,
             ~sema_disturbed =>
                 /\ Cardinality(HelloAsleep') = IF n + d < 0 THEN -(n + d) ELSE 0
                 /\ n + d + Cardinality(HelloAsleep') + Cardinality(HelloInside') = PERMIT_COUNT
      PROVE  SemInv'
  <2>1. permit_counter' \in [Sem!Semas -> Int] /\ permit_counter'["sem"] = n + d
    BY <1>0, <1>5, <1>a
  <2>2. permit_counter'["sema0_1"] = 0 /\ permit_counter'["sema0_2"] = 0
    BY <1>0, <1>5 DEF Sem!Semas
  <2> QED BY <1>3, <1>5, <2>1, <2>2 DEF SemInv, SemTyped, HelloInv, StrictInv
<1>6. CASE Sem!Pass(t)
  <2>1. /\ sema_pc[t] = "ready" /\ pos[t] = 1 /\ n > 0 /\ Sem!Returns(t, sema_pc)
        /\ permit_counter' = [permit_counter EXCEPT !["sem"] = @ - 1]
    BY <1>2, <1>6, <1>a DEF Sem!Pass, Sem!Waits
  <2>2. /\ pos' \in [PermitUsers -> 1..3] /\ sema_pc' \in [PermitUsers -> Sem!PCs]
        /\ pos'[t] = 2 /\ sema_pc'[t] = "ready"
        /\ \A u \in PermitUsers \ {t} : pos'[u] = pos[u] /\ sema_pc'[u] = sema_pc[u]
    BY <1>0, <1>3, <2>1, HelloReturns
  <2>3. HelloAsleep' = HelloAsleep /\ HelloInside' = HelloInside \cup {t} /\ t \notin HelloInside
    BY <2>1, <2>2 DEF HelloAsleep, HelloInside
  <2>4. permit_counter' = [permit_counter EXCEPT !["sem"] = @ + (-1)]
    BY <1>0, <2>1
  <2>5. ~sema_disturbed =>
            /\ Cardinality(HelloAsleep') = IF n + (-1) < 0 THEN -(n + (-1)) ELSE 0
            /\ n + (-1) + Cardinality(HelloAsleep') + Cardinality(HelloInside') = PERMIT_COUNT
    <3>1. Cardinality(HelloAsleep') = A /\ Cardinality(HelloInside') = I + 1
      BY <1>1, <1>a, <2>3
    <3> QED BY <1>0, <1>1, <1>4, <2>1, <3>1
  <2> QED BY <1>0, <1>5, <2>2, <2>4, <2>5
<1>7. CASE Sem!Block(t)
  <2>1. /\ sema_pc[t] = "ready" /\ pos[t] = 1 /\ n <= 0
        /\ permit_counter' = [permit_counter EXCEPT !["sem"] = @ - 1]
        /\ sema_pc' = [sema_pc EXCEPT ![t] = "asleep"] /\ pos' = pos
    BY <1>2, <1>7, <1>a DEF Sem!Block, Sem!Waits
  <2>2. /\ sema_pc' \in [PermitUsers -> Sem!PCs] /\ sema_pc'[t] = "asleep"
        /\ \A u \in PermitUsers \ {t} : sema_pc'[u] = sema_pc[u]
    BY <1>0, <2>1 DEF Sem!PCs
  <2>3. HelloAsleep' = HelloAsleep \cup {t} /\ HelloInside' = HelloInside /\ t \notin HelloAsleep
    BY <2>1, <2>2 DEF HelloAsleep, HelloInside
  <2>4. permit_counter' = [permit_counter EXCEPT !["sem"] = @ + (-1)]
    BY <1>0, <2>1
  <2>5. ~sema_disturbed =>
            /\ Cardinality(HelloAsleep') = IF n + (-1) < 0 THEN -(n + (-1)) ELSE 0
            /\ n + (-1) + Cardinality(HelloAsleep') + Cardinality(HelloInside') = PERMIT_COUNT
    <3>1. Cardinality(HelloAsleep') = A + 1 /\ Cardinality(HelloInside') = I
      BY <1>1, <1>a, <2>3
    <3> QED BY <1>0, <1>1, <1>4, <2>1, <3>1
  <2> QED BY <1>0, <1>5, <2>1, <2>2, <2>4, <2>5
<1>8. CASE Sem!Wake(t)
  <2>1. /\ sema_pc[t] = "woken" /\ pos[t] = 1 /\ Sem!Returns(t, sema_pc)
        /\ permit_counter' = permit_counter
    BY <1>0, <1>8 DEF Sem!Wake
  <2>2. /\ pos' \in [PermitUsers -> 1..3] /\ sema_pc' \in [PermitUsers -> Sem!PCs]
        /\ pos'[t] = 2 /\ sema_pc'[t] = "ready"
        /\ \A u \in PermitUsers \ {t} : pos'[u] = pos[u] /\ sema_pc'[u] = sema_pc[u]
    BY <1>0, <1>3, <2>1, HelloReturns
  <2>3. HelloAsleep' = HelloAsleep /\ HelloInside' = HelloInside
    BY <2>1, <2>2 DEF HelloAsleep, HelloInside
  <2>4. permit_counter' = [permit_counter EXCEPT !["sem"] = @ + 0]
    BY <1>0, <2>1
  <2>5. ~sema_disturbed =>
            /\ Cardinality(HelloAsleep') = IF n + 0 < 0 THEN -(n + 0) ELSE 0
            /\ n + 0 + Cardinality(HelloAsleep') + Cardinality(HelloInside') = PERMIT_COUNT
    <3>1. Cardinality(HelloAsleep') = A /\ Cardinality(HelloInside') = I
      BY <1>a, <2>3
    <3> QED BY <1>0, <1>1, <1>4, <3>1
  <2> QED BY <1>0, <1>5, <2>2, <2>4, <2>5
<1>9. CASE Sem!Post(t)
  <2>1. /\ sema_pc[t] = "ready" /\ pos[t] = 2
        /\ permit_counter' = [permit_counter EXCEPT !["sem"] = @ + 1]
        /\ \/ Sem!Woken("sem") = {} /\ Sem!Returns(t, sema_pc)
           \/ \E u \in Sem!Woken("sem") : Sem!Returns(t, [sema_pc EXCEPT ![u] = "woken"])
    BY <1>0, <1>2, <1>9 DEF Sem!Post, Sem!Posts
  <2>2. Sem!Woken("sem") = IF n < 0 THEN HelloAsleep ELSE {}
    <3>1. Sem!Threads = PermitUsers /\ \A u \in PermitUsers : Sem!Call(u).sema = "sem"
      BY SemCalls
    <3> QED BY <1>a, <3>1 DEF Sem!Woken, Sem!Asleep, HelloAsleep
  <2>3. t \in HelloInside /\ t \notin HelloAsleep
    BY <2>1 DEF HelloInside, HelloAsleep
  <2>4. CASE Sem!Woken("sem") = {} /\ Sem!Returns(t, sema_pc)
    <3>1. /\ pos' \in [PermitUsers -> 1..3] /\ sema_pc' \in [PermitUsers -> Sem!PCs]
          /\ pos'[t] = 3 /\ sema_pc'[t] = "ended"
          /\ \A u \in PermitUsers \ {t} : pos'[u] = pos[u] /\ sema_pc'[u] = sema_pc[u]
      BY <1>0, <1>3, <2>1, <2>4, HelloReturns
    <3>2. HelloAsleep' = HelloAsleep /\ HelloInside' = HelloInside \ {t}
      BY <2>1, <3>1 DEF HelloAsleep, HelloInside
    <3>3. ~sema_disturbed => n >= 0
      BY <1>0, <1>1, <1>4, <2>2, <2>4
    <3>4. ~sema_disturbed =>
              /\ Cardinality(HelloAsleep') = IF n + 1 < 0 THEN -(n + 1) ELSE 0
              /\ n + 1 + Cardinality(HelloAsleep') + Cardinality(HelloInside') = PERMIT_COUNT
      <4>1. Cardinality(HelloAsleep') = A /\ Cardinality(HelloInside') = I - 1
        BY <1>1, <1>a, <2>3, <3>2
      <4> QED BY <1>0, <1>1, <1>4, <3>3, <4>1
    <3> QED BY <1>0, <1>5, <2>1, <3>1, <3>4
  <2>5. ASSUME NEW u \in Sem!Woken("sem"), Sem!Returns(t, [sema_pc EXCEPT ![u] = "woken"])
        PROVE  SemInv'
    <3>1. u \in HelloAsleep /\ n < 0 /\ u \in PermitUsers /\ u # t /\ sema_pc[u] = "asleep"
          /\ pos[u] = 1
      BY <1>0, <2>2, <2>3, <2>5 DEF HelloAsleep
    <3>2. PICK places \in [PermitUsers -> Sem!PCs] :
              places = [sema_pc EXCEPT ![u] = "woken"] /\ Sem!Returns(t, places)
      BY <1>0, <2>5, <3>1 DEF Sem!PCs
    <3>3. /\ pos' \in [PermitUsers -> 1..3] /\ sema_pc' \in [PermitUsers -> Sem!PCs]
          /\ pos'[t] = 3 /\ sema_pc'[t] = "ended"
          /\ \A v \in PermitUsers \ {t} : pos'[v] = pos[v] /\ sema_pc'[v] = places[v]
      <4>1. Sem!Returns(t, places)
        BY <3>2
      <4> QED BY <1>0, <1>3, <2>1, <4>1, HelloReturns
    <3>4. /\ \A v \in PermitUsers \ {t} : pos'[v] = pos[v]
          /\ \A v \in PermitUsers \ {t, u} : sema_pc'[v] = sema_pc[v]
          /\ sema_pc'[u] = "woken"
      BY <1>0, <3>1, <3>2, <3>3
    <3>5. /\ HelloAsleep' = HelloAsleep \ {u}
          /\ HelloInside' = (HelloInside \ {t}) \cup {u} /\ u \notin HelloInside \ {t}
      BY <2>1, <3>1, <3>3, <3>4 DEF HelloAsleep, HelloInside
    <3>6. Cardinality(HelloAsleep') = A - 1 /\ Cardinality(HelloInside') = I
      <4>0. Cardinality(HelloAsleep') = A - 1
        BY <1>1, <1>a, <3>1, <3>5
      <4>1. HelloInside \ {t} \in SUBSET PermitUsers
        BY <1>0
      <4>2. Cardinality((HelloInside \ {t}) \cup {u}) = Cardinality(HelloInside \ {t}) + 1
        BY <3>1, <3>5, <4>1, HelloSize
      <4>3. Cardinality(HelloInside \ {t}) = I - 1
        BY <1>1, <1>a, <2>3
      <4> QED BY <1>1, <3>5, <4>0, <4>2, <4>3
    <3>7. ~sema_disturbed =>
              /\ Cardinality(HelloAsleep') = IF n + 1 < 0 THEN -(n + 1) ELSE 0
              /\ n + 1 + Cardinality(HelloAsleep') + Cardinality(HelloInside') = PERMIT_COUNT
      BY <1>0, <1>1, <1>4, <3>1, <3>6
    <3> QED BY <1>0, <1>5, <2>1, <3>1, <3>3, <3>4, <3>7
  <2> QED BY <2>1, <2>4, <2>5
<1> QED BY <1>6, <1>7, <1>8, <1>9 DEF Sem!Step

LEMMA SemParity ==
    \A n \in Nat : /\ n % 2 \in {0, 1}
                   /\ (n + 1) % 2 = (IF n % 2 = 0 THEN 1 ELSE 0)
                   /\ n % 2 = 0 => (n + 1) \div 2 = n \div 2
                   /\ n % 2 = 1 => (n + 1) \div 2 = n \div 2 + 1
  OBVIOUS

\* Where a call of the strict counter takes its thread.
LEMMA StrictReturns ==
    ASSUME SemInv, program = "strict", NEW t \in {"odd", "even"}, sema_pc[t] # "ended",
           NEW places \in [{"odd", "even"} -> Sem!PCs], Sem!Returns(t, places)
    PROVE  /\ pos' \in [{"odd", "even"} -> Nat \ {0}]
           /\ sema_pc' \in [{"odd", "even"} -> Sem!PCs]
           /\ pos'[t] = pos[t] + 1 /\ sema_pc'[t] \in {"ready", "ended"}
           /\ sema_pc'[t] = "ended" => pos'[t] = Sem!Calls(t) + 1
           /\ \A u \in {"odd", "even"} \ {t} : pos'[u] = pos[u] /\ sema_pc'[u] = places[u]
BY DEF Sem!Returns, Sem!PCs, SemInv, StrictInv

LEMMA StrictSteps ==
    ASSUME SemInv, program = "strict", NEW t \in {"odd", "even"}, Sem!Step(t)
    PROVE  SemInv'
<1> DEFINE Two == {"odd", "even"}
<1>a. PICK n, m, p, q : /\ n = pos["odd"] /\ m = pos["even"]
                        /\ p = permit_counter["sema0_1"] /\ q = permit_counter["sema0_2"]
  OBVIOUS
<1>0. /\ sema_pc \in [Two -> Sem!PCs] /\ pos \in [Two -> Nat \ {0}]
      /\ permit_counter \in [Sem!Semas -> Int] /\ permit_counter["sem"] >= 0
      /\ \A u \in Two : sema_pc[u] = "ended" => pos[u] = Sem!Calls(u) + 1
      /\ n \in Nat /\ m \in Nat /\ p \in Int /\ q \in Int
      /\ ~sema_disturbed => StrictRound(n, m)
  BY <1>a DEF SemInv, StrictInv, SemTyped, Sem!Semas
<1>1. /\ program' = "strict" /\ sema_disturbed' = sema_disturbed /\ sema_pc[t] # "ended"
      /\ sema_disturbed \in BOOLEAN
  BY DEF Sem!Step, Sem!Pass, Sem!Block, Sem!Wake, Sem!Post, Sem!Waits, Sem!Posts, SemInv,
         SemTyped
<1>2. /\ n % 2 = 1 => Sem!Call("odd").call = "post" /\ Sem!Call("odd").sema = "sema0_2"
      /\ n % 2 # 1 => Sem!Call("odd").call = "wait" /\ Sem!Call("odd").sema = "sema0_1"
      /\ m % 2 = 1 => Sem!Call("even").call = "wait" /\ Sem!Call("even").sema = "sema0_2"
      /\ m % 2 # 1 => Sem!Call("even").call = "post" /\ Sem!Call("even").sema = "sema0_1"
  <2>1. /\ Sem!Call("odd") = IF n % 2 = 1 THEN [call |-> "post", sema |-> "sema0_2"]
                                          ELSE [call |-> "wait", sema |-> "sema0_1"]
        /\ Sem!Call("even") = IF m % 2 = 1 THEN [call |-> "wait", sema |-> "sema0_2"]
                                           ELSE [call |-> "post", sema |-> "sema0_1"]
    BY <1>a, SemCalls
  <2>2. CASE n % 2 = 1 /\ m % 2 = 1
    BY <2>1, <2>2
  <2>3. CASE n % 2 = 1 /\ m % 2 # 1
    BY <2>1, <2>3
  <2>4. CASE n % 2 # 1 /\ m % 2 = 1
    BY <2>1, <2>4
  <2>5. CASE n % 2 # 1 /\ m % 2 # 1
    BY <2>1, <2>5
  <2> QED BY <2>2, <2>3, <2>4, <2>5
<1>3. /\ n % 2 \in {0, 1} /\ (n + 1) % 2 = (IF n % 2 = 0 THEN 1 ELSE 0)
      /\ m % 2 \in {0, 1} /\ (m + 1) % 2 = (IF m % 2 = 0 THEN 1 ELSE 0)
  BY <1>0, SemParity
<1>4. \* It is enough to know where the round goes on.
      ASSUME NEW x \in Nat, NEW y \in Nat, x = pos'["odd"], y = pos'["even"],
             permit_counter' \in [Sem!Semas -> Int],
             permit_counter'["sem"] = permit_counter["sem"],
             sema_pc' \in [Two -> Sem!PCs], pos' \in [Two -> Nat \ {0}],
             \A u \in Two : sema_pc'[u] = "ended" => pos'[u] = Sem!Calls(u) + 1,
             ~sema_disturbed => StrictRound(x, y)'
      PROVE  SemInv'
  BY <1>0, <1>1, <1>4 DEF SemInv, SemTyped, HelloInv, StrictInv
<1>5. CASE Sem!Pass(t) /\ t = "odd"
  <2>1. /\ sema_pc["odd"] = "ready" /\ n % 2 = 0 /\ p > 0 /\ Sem!Returns("odd", sema_pc)
        /\ permit_counter' = [permit_counter EXCEPT !["sema0_1"] = @ - 1]
    BY <1>2, <1>3, <1>5, <1>a DEF Sem!Pass, Sem!Waits
  <2>2. /\ pos' \in [Two -> Nat \ {0}] /\ sema_pc' \in [Two -> Sem!PCs]
        /\ pos'["odd"] = n + 1 /\ sema_pc'["odd"] \in {"ready", "ended"}
        /\ sema_pc'["odd"] = "ended" => pos'["odd"] = Sem!Calls("odd") + 1
        /\ pos'["even"] = m /\ sema_pc'["even"] = sema_pc["even"]
    BY <1>0, <1>1, <1>5, <1>a, <2>1, StrictReturns
  <2>3. /\ permit_counter' \in [Sem!Semas -> Int]
        /\ permit_counter'["sem"] = permit_counter["sem"]
        /\ permit_counter'["sema0_1"] = p - 1 /\ permit_counter'["sema0_2"] = q
    BY <1>0, <1>a, <2>1 DEF Sem!Semas
  <2>4. ~sema_disturbed => StrictRound(n + 1, m)'
    BY <1>0, <1>3, <1>a, <2>1, <2>2, <2>3 DEF StrictRound
  <2>5. n + 1 \in Nat /\ \A u \in Two : sema_pc'[u] = "ended" => pos'[u] = Sem!Calls(u) + 1
    BY <1>0, <1>a, <2>2
  <2> QED BY <1>0, <1>4, <2>2, <2>3, <2>4, <2>5
<1>6. CASE Sem!Pass(t) /\ t = "even"
  <2>1. /\ sema_pc["even"] = "ready" /\ m % 2 = 1 /\ q > 0 /\ Sem!Returns("even", sema_pc)
        /\ permit_counter' = [permit_counter EXCEPT !["sema0_2"] = @ - 1]
    BY <1>2, <1>3, <1>6, <1>a DEF Sem!Pass, Sem!Waits
  <2>2. /\ pos' \in [Two -> Nat \ {0}] /\ sema_pc' \in [Two -> Sem!PCs]
        /\ pos'["even"] = m + 1 /\ sema_pc'["even"] \in {"ready", "ended"}
        /\ sema_pc'["even"] = "ended" => pos'["even"] = Sem!Calls("even") + 1
        /\ pos'["odd"] = n /\ sema_pc'["odd"] = sema_pc["odd"]
    BY <1>0, <1>1, <1>6, <1>a, <2>1, StrictReturns
  <2>3. /\ permit_counter' \in [Sem!Semas -> Int]
        /\ permit_counter'["sem"] = permit_counter["sem"]
        /\ permit_counter'["sema0_1"] = p /\ permit_counter'["sema0_2"] = q - 1
    BY <1>0, <1>a, <2>1 DEF Sem!Semas
  <2>4. ~sema_disturbed => StrictRound(n, m + 1)'
    BY <1>0, <1>3, <1>a, <2>1, <2>2, <2>3 DEF StrictRound
  <2>5. m + 1 \in Nat /\ \A u \in Two : sema_pc'[u] = "ended" => pos'[u] = Sem!Calls(u) + 1
    BY <1>0, <1>a, <2>2
  <2> QED BY <1>0, <1>4, <2>2, <2>3, <2>4, <2>5
<1>7. CASE Sem!Block(t)
  <2>1. /\ sema_pc' \in [Two -> Sem!PCs] /\ sema_pc'[t] = "asleep" /\ sema_pc[t] = "ready"
        /\ \A u \in Two \ {t} : sema_pc'[u] = sema_pc[u]
        /\ pos' = pos
    BY <1>0, <1>7 DEF Sem!Block, Sem!Waits, Sem!PCs
  <2>2. permit_counter' = [permit_counter EXCEPT ![Sem!Call(t).sema] = @ - 1]
        /\ Sem!Call(t).call = "wait" /\ permit_counter[Sem!Call(t).sema] <= 0
    BY <1>7 DEF Sem!Block, Sem!Waits
  <2>3. \/ /\ t = "odd" /\ n % 2 = 0 /\ p <= 0
           /\ permit_counter' = [permit_counter EXCEPT !["sema0_1"] = @ - 1]
        \/ /\ t = "even" /\ m % 2 = 1 /\ q <= 0
           /\ permit_counter' = [permit_counter EXCEPT !["sema0_2"] = @ - 1]
    BY <1>2, <1>3, <1>a, <2>2
  <2>4. /\ permit_counter' \in [Sem!Semas -> Int]
        /\ permit_counter'["sem"] = permit_counter["sem"]
        /\ permit_counter'["sema0_1"] = IF t = "odd" THEN p - 1 ELSE p
        /\ permit_counter'["sema0_2"] = IF t = "odd" THEN q ELSE q - 1
    BY <1>0, <1>a, <2>3 DEF Sem!Semas
  <2>5. ~sema_disturbed => StrictRound(n, m)'
    BY <1>0, <1>3, <1>a, <2>1, <2>3, <2>4 DEF StrictRound
  <2>6. \A u \in Two : sema_pc'[u] = "ended" => pos'[u] = Sem!Calls(u) + 1
    BY <1>0, <2>1
  <2> QED BY <1>0, <1>4, <1>a, <2>1, <2>4, <2>5, <2>6
<1>8. CASE Sem!Wake(t)
  <2>1. /\ sema_pc[t] = "woken" /\ Sem!Returns(t, sema_pc)
        /\ permit_counter' = permit_counter
    BY <1>8 DEF Sem!Wake
  <2>2. /\ pos' \in [Two -> Nat \ {0}] /\ sema_pc' \in [Two -> Sem!PCs]
        /\ pos'[t] = pos[t] + 1 /\ sema_pc'[t] \in {"ready", "ended"}
        /\ sema_pc'[t] = "ended" => pos'[t] = Sem!Calls(t) + 1
        /\ \A u \in Two \ {t} : pos'[u] = pos[u] /\ sema_pc'[u] = sema_pc[u]
    BY <1>0, <1>1, <2>1, StrictReturns
  <2>3. PICK x, y : /\ x = IF t = "odd" THEN n + 1 ELSE n
                    /\ y = IF t = "even" THEN m + 1 ELSE m
    OBVIOUS
  <2>4. x \in Nat /\ y \in Nat /\ x = pos'["odd"] /\ y = pos'["even"]
    BY <1>0, <1>a, <2>2, <2>3
  <2>5. ~sema_disturbed => StrictRound(x, y)'
    BY <1>0, <1>3, <1>a, <2>1, <2>2, <2>3 DEF StrictRound
  <2>6. \A u \in Two : sema_pc'[u] = "ended" => pos'[u] = Sem!Calls(u) + 1
    BY <1>0, <2>2
  <2> QED BY <1>0, <1>4, <2>1, <2>2, <2>4, <2>5, <2>6
<1>9. CASE Sem!Post(t) /\ t = "odd"
  <2>1. /\ sema_pc["odd"] = "ready" /\ n % 2 = 1
        /\ permit_counter' = [permit_counter EXCEPT !["sema0_2"] = @ + 1]
        /\ \/ Sem!Woken("sema0_2") = {} /\ Sem!Returns("odd", sema_pc)
           \/ \E u \in Sem!Woken("sema0_2") :
                  Sem!Returns("odd", [sema_pc EXCEPT ![u] = "woken"])
    BY <1>2, <1>3, <1>9 DEF Sem!Post, Sem!Posts
  <2>2. /\ Sem!Woken("sema0_2") \subseteq {"even"}
        /\ "even" \in Sem!Woken("sema0_2") <=>
               (q < 0 /\ sema_pc["even"] = "asleep" /\ m % 2 = 1)
    <3>1. Sem!Threads = {"odd", "even"}
      BY SemCalls
    <3> QED BY <1>2, <1>a, <2>1, <3>1 DEF Sem!Woken, Sem!Asleep
  <2>3. PICK places \in [Two -> Sem!PCs] :
            /\ Sem!Returns("odd", places)
            /\ places["even"] = IF "even" \in Sem!Woken("sema0_2")
                                THEN "woken" ELSE sema_pc["even"]
    <3>1. CASE Sem!Woken("sema0_2") = {} /\ Sem!Returns("odd", sema_pc)
      BY <1>0, <3>1
    <3>2. ASSUME NEW u \in Sem!Woken("sema0_2"),
                 Sem!Returns("odd", [sema_pc EXCEPT ![u] = "woken"])
          PROVE  \E places \in [Two -> Sem!PCs] :
                     /\ Sem!Returns("odd", places)
                     /\ places["even"] = IF "even" \in Sem!Woken("sema0_2")
                                         THEN "woken" ELSE sema_pc["even"]
      <4>1. u = "even"
        BY <2>2, <3>2
      <4>2. [sema_pc EXCEPT !["even"] = "woken"] \in [Two -> Sem!PCs]
        BY <1>0 DEF Sem!PCs
      <4> QED BY <1>0, <3>2, <4>1, <4>2
    <3> QED BY <2>1, <3>1, <3>2
  <2>4. /\ pos' \in [Two -> Nat \ {0}] /\ sema_pc' \in [Two -> Sem!PCs]
        /\ pos'["odd"] = n + 1 /\ sema_pc'["odd"] \in {"ready", "ended"}
        /\ sema_pc'["odd"] = "ended" => pos'["odd"] = Sem!Calls("odd") + 1
        /\ pos'["even"] = m /\ sema_pc'["even"] = places["even"]
    BY <1>0, <1>1, <1>9, <1>a, <2>3, StrictReturns
  <2>5. /\ permit_counter' \in [Sem!Semas -> Int]
        /\ permit_counter'["sem"] = permit_counter["sem"]
        /\ permit_counter'["sema0_1"] = p /\ permit_counter'["sema0_2"] = q + 1
    BY <1>0, <1>a, <2>1 DEF Sem!Semas
  <2>6. ~sema_disturbed => StrictRound(n + 1, m)'
    BY <1>0, <1>3, <1>a, <2>1, <2>2, <2>3, <2>4, <2>5 DEF StrictRound
  <2>7. n + 1 \in Nat /\ \A u \in Two : sema_pc'[u] = "ended" => pos'[u] = Sem!Calls(u) + 1
    BY <1>0, <1>a, <2>3, <2>4
  <2> QED BY <1>0, <1>4, <2>4, <2>5, <2>6, <2>7
<1>10. CASE Sem!Post(t) /\ t = "even"
  <2>1. /\ sema_pc["even"] = "ready" /\ m % 2 = 0
        /\ permit_counter' = [permit_counter EXCEPT !["sema0_1"] = @ + 1]
        /\ \/ Sem!Woken("sema0_1") = {} /\ Sem!Returns("even", sema_pc)
           \/ \E u \in Sem!Woken("sema0_1") :
                  Sem!Returns("even", [sema_pc EXCEPT ![u] = "woken"])
    BY <1>2, <1>3, <1>10 DEF Sem!Post, Sem!Posts
  <2>2. /\ Sem!Woken("sema0_1") \subseteq {"odd"}
        /\ "odd" \in Sem!Woken("sema0_1") <=>
               (p < 0 /\ sema_pc["odd"] = "asleep" /\ n % 2 = 0)
    <3>1. Sem!Threads = {"odd", "even"}
      BY SemCalls
    <3> QED BY <1>2, <1>3, <1>a, <2>1, <3>1 DEF Sem!Woken, Sem!Asleep
  <2>3. PICK places \in [Two -> Sem!PCs] :
            /\ Sem!Returns("even", places)
            /\ places["odd"] = IF "odd" \in Sem!Woken("sema0_1")
                               THEN "woken" ELSE sema_pc["odd"]
    <3>1. CASE Sem!Woken("sema0_1") = {} /\ Sem!Returns("even", sema_pc)
      BY <1>0, <3>1
    <3>2. ASSUME NEW u \in Sem!Woken("sema0_1"),
                 Sem!Returns("even", [sema_pc EXCEPT ![u] = "woken"])
          PROVE  \E places \in [Two -> Sem!PCs] :
                     /\ Sem!Returns("even", places)
                     /\ places["odd"] = IF "odd" \in Sem!Woken("sema0_1")
                                        THEN "woken" ELSE sema_pc["odd"]
      <4>1. u = "odd"
        BY <2>2, <3>2
      <4>2. [sema_pc EXCEPT !["odd"] = "woken"] \in [Two -> Sem!PCs]
        BY <1>0 DEF Sem!PCs
      <4> QED BY <1>0, <3>2, <4>1, <4>2
    <3> QED BY <2>1, <3>1, <3>2
  <2>4. /\ pos' \in [Two -> Nat \ {0}] /\ sema_pc' \in [Two -> Sem!PCs]
        /\ pos'["even"] = m + 1 /\ sema_pc'["even"] \in {"ready", "ended"}
        /\ sema_pc'["even"] = "ended" => pos'["even"] = Sem!Calls("even") + 1
        /\ pos'["odd"] = n /\ sema_pc'["odd"] = places["odd"]
    BY <1>0, <1>1, <1>10, <1>a, <2>3, StrictReturns
  <2>5. /\ permit_counter' \in [Sem!Semas -> Int]
        /\ permit_counter'["sem"] = permit_counter["sem"]
        /\ permit_counter'["sema0_1"] = p + 1 /\ permit_counter'["sema0_2"] = q
    BY <1>0, <1>a, <2>1 DEF Sem!Semas
  <2>6. ~sema_disturbed => StrictRound(n, m + 1)'
    BY <1>0, <1>3, <1>a, <2>1, <2>2, <2>3, <2>4, <2>5 DEF StrictRound
  <2>7. m + 1 \in Nat /\ \A u \in Two : sema_pc'[u] = "ended" => pos'[u] = Sem!Calls(u) + 1
    BY <1>0, <1>a, <2>3, <2>4
  <2> QED BY <1>0, <1>4, <2>4, <2>5, <2>6, <2>7
<1> QED BY <1>5, <1>6, <1>7, <1>8, <1>9, <1>10 DEF Sem!Step

\* A wait without a signal, which only the disturbed runs know.
LEMMA SemSpurious ==
    ASSUME SemInv, NEW t, t \in Sem!Threads, Sem!SpuriousWakeup(t)
    PROVE  SemInv'
<1>1. /\ sema_disturbed /\ sema_pc[t] = "asleep" /\ sema_pc' = [sema_pc EXCEPT ![t] = "woken"]
      /\ UNCHANGED <<program, sema_disturbed, permit_counter, pos>>
  BY DEF Sem!SpuriousWakeup
<1>2. HelloInv'
  BY <1>1, SemCalls DEF SemInv, HelloInv, Sem!PCs
<1>3. StrictInv'
  <2>1. program = "strict" =>
            \A u \in {"odd", "even"} : sema_pc'[u] = "ended" => sema_pc[u] = "ended"
    BY <1>1 DEF SemInv, StrictInv
  <2>2. program = "strict" => sema_pc' \in [{"odd", "even"} -> Sem!PCs]
    BY <1>1 DEF SemInv, StrictInv, Sem!PCs
  <2>3. \A u : Sem!Calls(u)' = Sem!Calls(u)
    BY DEF Sem!Calls
  <2> QED BY <1>1, <2>1, <2>2, <2>3 DEF SemInv, StrictInv
<1> QED BY <1>1, <1>2, <1>3 DEF SemInv, SemTyped

\* sema_destroy, when all threads are joined: nobody sleeps, and the strict counter
\* has come round.
LEMMA SemDestroys ==
    ASSUME SemInv, Sem!Destroy
    PROVE  SemInv'
<1> USE PermitsAssumption
<1>1. /\ \A t \in Sem!Threads : sema_pc[t] = "ended"
      /\ permit_counter' = [s \in Sem!Semas |-> 0]
      /\ UNCHANGED <<program, sema_disturbed, sema_pc, pos>>
  BY DEF Sem!Destroy
<1>2. /\ permit_counter' \in [Sem!Semas -> Int] /\ permit_counter'["sem"] = 0
      /\ permit_counter'["sema0_1"] = 0 /\ permit_counter'["sema0_2"] = 0
  BY <1>1 DEF Sem!Semas
<1>3. HelloInv'
  <2>1. ASSUME program = "hello" PROVE HelloAsleep = {} /\ HelloAsleep' = HelloAsleep
    BY <1>1, <2>1, SemCalls DEF HelloAsleep
  <2>2. Cardinality({}) = 0
    BY FS_EmptySet
  <2>3. program = "hello" => \A t \in PermitUsers : sema_pc[t] = "ended"
    BY <1>1, SemCalls
  <2> QED BY <1>1, <1>2, <2>1, <2>2, <2>3 DEF SemInv, HelloInv
<1>4. ASSUME program = "strict" PROVE StrictInv'
  <2>1. PICK n, m : n = pos["odd"] /\ m = pos["even"]
    OBVIOUS
  <2>2. /\ n = 2 * ((Numbers + 1) \div 2) + 1 /\ m = 2 * (Numbers \div 2) + 1
        /\ sema_pc["odd"] = "ended" /\ sema_pc["even"] = "ended" /\ n \in Nat /\ m \in Nat
    BY <1>1, <1>4, <2>1, SemCalls DEF SemInv, StrictInv, Sem!Calls
  <2>3. ~sema_disturbed => StrictRound(n, m)
    BY <1>4, <2>1 DEF SemInv, StrictInv
  <2>4. n % 2 = 1
    BY <2>2
  <2>5. ~sema_disturbed => StrictRound(n, m)'
    BY <1>1, <1>2, <2>2, <2>3, <2>4 DEF StrictRound
  <2>6. \A u : Sem!Calls(u)' = Sem!Calls(u)
    BY DEF Sem!Calls
  <2> QED BY <1>1, <1>2, <1>4, <2>1, <2>2, <2>5, <2>6 DEF SemInv, StrictInv
<1> QED BY <1>1, <1>2, <1>3, <1>4 DEF SemInv, SemTyped, StrictInv

LEMMA SemKeeps == SemInv /\ [Sem!Next]_Sem!vars => SemInv'
<1> SUFFICES ASSUME SemInv, [Sem!Next]_Sem!vars PROVE SemInv'
  OBVIOUS
<1>1. CASE UNCHANGED Sem!vars
  BY <1>1 DEF Sem!vars, SemInv, SemTyped, HelloInv, HelloAsleep, HelloInside, StrictInv,
              StrictRound, Sem!Calls
<1>2. ASSUME NEW t \in Sem!Threads, Sem!Step(t)
      PROVE  SemInv'
  BY <1>2, SemCalls, HelloSteps, StrictSteps DEF SemInv, SemTyped
<1> QED BY <1>1, <1>2, SemSpurious, SemDestroys DEF Sem!Next, Sem!Finished

LEMMA SemAlways == SyncSpec => []SemInv
<1>1. Sem!Spec => []SemInv
  BY SemStarts, SemKeeps, PTL DEF Sem!Spec
<1> QED BY <1>1, SemRuns, PTL

LEMMA SemSameCardinality ==
    ASSUME NEW S
    PROVE  Sem!Cardinality(S) = Cardinality(S)
BY DEF Sem!Cardinality, Cardinality

LEMMA SemIsTyped == SemInv => Sem!TypeOK
<1> SUFFICES ASSUME SemInv PROVE Sem!TypeOK
  OBVIOUS
<1>1. program = "hello" => sema_pc \in [Sem!Threads -> Sem!PCs] /\ pos \in [Sem!Threads -> Nat]
  BY SemCalls DEF SemInv, HelloInv
<1>2. program = "strict" =>
          sema_pc \in [Sem!Threads -> Sem!PCs] /\ pos \in [Sem!Threads -> Nat]
  BY SemCalls DEF SemInv, StrictInv
<1> QED BY <1>1, <1>2 DEF SemInv, SemTyped, Sem!TypeOK

\* A permit that a post gives belongs to the waiter it signals.
LEMMA SemConserves == SemInv => Sem!PermitsConserved
<1> SUFFICES ASSUME SemInv, ~sema_disturbed, NEW s \in Sem!Semas
             PROVE  Cardinality(Sem!Asleep(s)) =
                        IF permit_counter[s] < 0 THEN -permit_counter[s] ELSE 0
  BY SemSameCardinality DEF Sem!PermitsConserved
<1>0. Cardinality({}) = 0 /\ Cardinality({"odd"}) = 1 /\ Cardinality({"even"}) = 1
  BY FS_EmptySet, FS_Singleton
<1>1. CASE program = "hello"
  <2>1. Sem!Asleep(s) = IF s = "sem" THEN HelloAsleep ELSE {}
    <3>1. Sem!Threads = PermitUsers /\ \A u \in PermitUsers : Sem!Call(u).sema = "sem"
      BY <1>1, SemCalls
    <3> QED BY <3>1 DEF Sem!Asleep, HelloAsleep
  <2> QED BY <1>0, <1>1, <2>1 DEF SemInv, HelloInv, Sem!Semas
<1>2. CASE program = "strict"
  <2>1. PICK n, m \in Nat : n = pos["odd"] /\ m = pos["even"] /\ StrictRound(n, m)
    BY <1>2 DEF SemInv, StrictInv
  <2>2. /\ n % 2 \in {0, 1} /\ m % 2 \in {0, 1}
        /\ (m + 1) % 2 = (IF m % 2 = 0 THEN 1 ELSE 0) /\ (n + 1) % 2 = (IF n % 2 = 0 THEN 1 ELSE 0)
    BY <2>1, SemParity
  <2>3. Sem!Threads = {"odd", "even"}
    BY <1>2, SemCalls
  <2>4. /\ Sem!Call("odd").sema = IF n % 2 = 1 THEN "sema0_2" ELSE "sema0_1"
        /\ Sem!Call("even").sema = IF m % 2 = 1 THEN "sema0_2" ELSE "sema0_1"
    BY <2>1, SemCalls
  <2>5. /\ permit_counter["sem"] >= 0 /\ permit_counter["sem"] \in Int
        /\ s \in {"sem", "sema0_1", "sema0_2"}
    BY <1>2 DEF SemInv, SemTyped, StrictInv, Sem!Semas
  <2>6. CASE s = "sem"
    <3>1. Sem!Asleep(s) = {}
      BY <2>2, <2>3, <2>4, <2>6 DEF Sem!Asleep
    <3> QED BY <1>0, <2>5, <2>6, <3>1
  <2>7. CASE s = "sema0_1"
    <3>1. Sem!Asleep(s) = IF sema_pc["odd"] = "asleep" THEN {"odd"} ELSE {}
      BY <2>1, <2>2, <2>3, <2>4, <2>7 DEF Sem!Asleep, StrictRound
    <3>2. permit_counter[s] \in {0, 1, -1}
          /\ (permit_counter[s] < 0 <=> sema_pc["odd"] = "asleep")
      BY <2>1, <2>7 DEF StrictRound
    <3> QED BY <1>0, <3>1, <3>2
  <2>8. CASE s = "sema0_2"
    <3>1. Sem!Asleep(s) = IF sema_pc["even"] = "asleep" THEN {"even"} ELSE {}
      BY <2>1, <2>2, <2>3, <2>4, <2>8 DEF Sem!Asleep, StrictRound
    <3>2. permit_counter[s] \in {0, 1, -1}
          /\ (permit_counter[s] < 0 <=> sema_pc["even"] = "asleep")
      BY <2>1, <2>8 DEF StrictRound
    <3> QED BY <1>0, <3>1, <3>2
  <2> QED BY <2>5, <2>6, <2>7, <2>8
<1> QED BY <1>1, <1>2 DEF SemInv, SemTyped

\* No more threads use the resource than there are permits, and the numbers of the
\* strict counter come in order.
LEMMA SemLimits == SemInv => Sem!Limited /\ Sem!Alternates
<1>1. ASSUME SemInv PROVE Sem!Limited
  <2> SUFFICES ASSUME program = "hello", ~sema_disturbed
               PROVE  Cardinality(Sem!Inside) <= PERMIT_COUNT
    BY SemSameCardinality DEF Sem!Limited
  <2>1. Sem!Inside = HelloInside
    BY SemCalls DEF Sem!Inside, HelloInside
  <2>2. HelloInside \in SUBSET PermitUsers /\ HelloAsleep \in SUBSET PermitUsers
    BY DEF HelloInside, HelloAsleep
  <2>3. Cardinality(HelloInside) \in Nat /\ Cardinality(HelloAsleep) \in Nat
    BY <2>2, HelloSize
  <2>4. CASE \A t \in PermitUsers : sema_pc[t] = "ended"
    <3>1. HelloInside = {} /\ Cardinality({}) = 0
      BY <2>4, FS_EmptySet DEF HelloInside
    <3> QED BY <2>1, <3>1, PermitsAssumption
  <2>5. CASE permit_counter["sem"] + Cardinality(HelloAsleep) + Cardinality(HelloInside)
                 = PERMIT_COUNT
    <3>1. /\ permit_counter["sem"] \in Int
          /\ Cardinality(HelloAsleep) =
                 IF permit_counter["sem"] < 0 THEN -permit_counter["sem"] ELSE 0
      BY <1>1 DEF SemInv, SemTyped, HelloInv, Sem!Semas
    <3> QED BY <2>1, <2>3, <2>5, <3>1, PermitsAssumption
  <2> QED BY <1>1, <2>4, <2>5 DEF SemInv, HelloInv
<1>2. ASSUME SemInv PROVE Sem!Alternates
  <2> SUFFICES ASSUME program = "strict", ~sema_disturbed
               PROVE  Sem!Printed("odd") - Sem!Printed("even") \in {0, 1}
    BY DEF Sem!Alternates
  <2>1. PICK n, m \in Nat : n = pos["odd"] /\ m = pos["even"] /\ StrictRound(n, m)
    BY <1>2 DEF SemInv, StrictInv
  <2>2. Sem!Printed("odd") = n \div 2 /\ Sem!Printed("even") = (m - 1) \div 2
    BY <2>1 DEF Sem!Printed
  <2>3. \/ n = m /\ n % 2 = 1
        \/ n = m + 1 /\ n % 2 = 0
        \/ n = m /\ n % 2 = 0
        \/ m = n + 1 /\ n % 2 = 0
    BY <2>1 DEF StrictRound
  <2>4. m # 0
    BY <1>2, <2>1 DEF SemInv, StrictInv
  <2> QED BY <2>1, <2>2, <2>3, <2>4
<1> QED BY <1>1, <1>2

-----------------------------------------------------------------------------
(* The vaccination centre *)

LEMMA CentreRuns == SyncSpec => Centre!Spec
<1>1. SyncInit => Centre!Init
  BY DEF SyncInit
<1>2. [SyncNext]_syncVars => [Centre!Next]_Centre!vars
  BY DEF SyncNext, syncVars, varsCentre, Centre!vars, OthersBarrier, OthersSem, OthersPair,
         OthersPause, OthersQueue, OthersLight, OthersStrict, OthersBiased, OthersTurn,
         OthersFirst, OthersDining, OthersRing
<1> QED BY <1>1, <1>2, PTL DEF SyncSpec, Centre!Spec

CentrePCs == {"out", "asleep", "woken", "in", "vaccinated", "done"}

\* The citizens of an age that are counted, those that wait and those just woken.
CentreIn(k) ==
    {c \in Citizens : citizen_type[c] = k /\ vaccination_pc[c] \in {"in", "vaccinated"}}
CentreAsleep(k) == {c \in Citizens : citizen_type[c] = k /\ vaccination_pc[c] = "asleep"}
CentreWoken(k) == {c \in Citizens : citizen_type[c] = k /\ vaccination_pc[c] = "woken"}

CentreTyped ==
    /\ citizen_type \in [Citizens -> Centre!Types]
    /\ current \in [Centre!Types -> Int]
    /\ waiting_list \in [Centre!Types -> Seq(Citizens)]
    /\ vaccination_pc \in [Citizens -> CentrePCs]

\* For each place that is empty while somebody is listed and asleep, one more has
\* been woken: it is on its way to the place.
CentreAge(k) ==
    /\ current[k] = Cardinality(CentreIn(k)) /\ current[k] <= Capacity
    /\ OnceEach(waiting_list[k])
    /\ Listed(waiting_list[k]) \subseteq CentreAsleep(k) \cup CentreWoken(k)
    /\ CentreAsleep(k) # {} /\ waiting_list[k] # <<>> =>
           current[k] + Cardinality(CentreWoken(k)) >= Capacity

CentreInv == CentreTyped /\ \A k \in Centre!Types : CentreAge(k)

LEMMA CentreSize ==
    ASSUME NEW S \in SUBSET Citizens
    PROVE  /\ Cardinality(S) \in Nat /\ Cardinality(S) <= Cardinality(Citizens)
           /\ S = {} <=> Cardinality(S) = 0
           /\ \A c \in Citizens :
                  /\ c \notin S => Cardinality(S \cup {c}) = Cardinality(S) + 1
                  /\ c \in S => Cardinality(S \ {c}) = Cardinality(S) - 1
<1>1. IsFiniteSet(Citizens)
  BY CitizensAssumption
<1> QED BY <1>1, SubsetSize

LEMMA CentreWithout ==
    ASSUME NEW q \in Seq(Citizens), OnceEach(q), NEW c \in Citizens
    PROVE  \E w : /\ w = Centre!Without(c, q) /\ w \in Seq(Citizens)
                  /\ OnceEach(w) /\ Listed(w) = Listed(q) \ {c}
                  /\ q = <<>> => w = <<>>
<1>1. CASE c \notin Listed(q)
  <2>1. Centre!Without(c, q) = q
    BY <1>1 DEF Centre!Without, Listed
  <2> QED BY <1>1, <2>1
<1>2. CASE c \in Listed(q)
  <2>1. PICK n : n = CHOOSE j \in DOMAIN q : q[j] = c
    OBVIOUS
  <2>2. n \in DOMAIN q /\ q[n] = c
    BY <1>2, <2>1 DEF Listed
  <2>3. Centre!Without(c, q) = SubSeq(q, 1, n - 1) \o SubSeq(q, n + 1, Len(q))
    BY <2>1, <2>2 DEF Centre!Without
  <2>4. q # <<>>
    BY <2>2
  <2> HIDE <2>1
  <2>5. PICK w : IsLeft(w, q, n, Citizens)
    BY <2>2, LeavesList, Zenon
  <2>6. /\ w = SubSeq(q, 1, n - 1) \o SubSeq(q, n + 1, Len(q))
        /\ w \in Seq(Citizens) /\ OnceEach(w) /\ Listed(w) = Listed(q) \ {q[n]}
    BY <2>5, Zenon DEF IsLeft
  <2>7. w = Centre!Without(c, q)
    BY <2>3, <2>6, Zenon
  <2> QED BY <2>2, <2>4, <2>6, <2>7, Zenon
<1> QED BY <1>1, <1>2

LEMMA CentreStarts == Centre!Init => CentreInv
<1> SUFFICES ASSUME Centre!Init PROVE CentreInv
  OBVIOUS
<1>1. CentreTyped
  BY DEF Centre!Init, CentreTyped, CentrePCs
<1>2. ASSUME NEW k \in Centre!Types PROVE CentreAge(k)
  <2>1. /\ CentreIn(k) = {} /\ CentreAsleep(k) = {} /\ CentreWoken(k) = {}
        /\ waiting_list[k] = <<>> /\ current[k] = 0
    BY DEF Centre!Init, CentreIn, CentreAsleep, CentreWoken
  <2>2. DOMAIN <<>> = {}
    OBVIOUS
  <2>3. OnceEach(waiting_list[k]) /\ Listed(waiting_list[k]) = {}
    BY <2>1, <2>2 DEF OnceEach, Listed
  <2>4. Cardinality({}) = 0
    BY FS_EmptySet
  <2> QED BY <2>1, <2>3, <2>4, CitizensAssumption DEF CentreAge
<1> QED BY <1>1, <1>2 DEF CentreInv

\* Whoever finds room goes in, and off the list.
LEMMA CentreEnters ==
    ASSUME CentreInv, NEW c \in Citizens, Centre!Enter(c)
    PROVE  CentreInv'
<1>1. PICK age \in Centre!Types :
          /\ age = citizen_type[c] /\ vaccination_pc[c] \in {"out", "woken"}
          /\ current[age] # Capacity
          /\ current' = [current EXCEPT ![age] = @ + 1]
          /\ waiting_list' = [waiting_list EXCEPT ![age] = Centre!Without(c, @)]
          /\ vaccination_pc' = [vaccination_pc EXCEPT ![c] = "in"]
          /\ citizen_type' = citizen_type
  BY DEF Centre!Enter, CentreInv, CentreTyped
<1>2. PICK w : /\ w = Centre!Without(c, waiting_list[age]) /\ w \in Seq(Citizens)
               /\ OnceEach(w) /\ Listed(w) = Listed(waiting_list[age]) \ {c}
               /\ waiting_list[age] = <<>> => w = <<>>
  <2>1. waiting_list[age] \in Seq(Citizens) /\ OnceEach(waiting_list[age])
    BY DEF CentreInv, CentreTyped, CentreAge
  <2> QED BY <2>1, CentreWithout
<1>3. CentreTyped'
  BY <1>1, <1>2 DEF CentreInv, CentreTyped, CentrePCs
<1>4. ASSUME NEW k \in Centre!Types PROVE CentreAge(k)'
  <2>1. /\ CentreIn(k)' = IF k = age THEN CentreIn(k) \cup {c} ELSE CentreIn(k)
        /\ CentreAsleep(k)' = CentreAsleep(k)
        /\ CentreWoken(k)' = CentreWoken(k) \ {c}
        /\ c \notin CentreIn(k) /\ c \notin CentreAsleep(k)
        /\ c \in CentreWoken(k) => k = age
    BY <1>1 DEF CentreInv, CentreTyped, CentreIn, CentreAsleep, CentreWoken
  <2>2. /\ waiting_list'[k] = IF k = age THEN w ELSE waiting_list[k]
        /\ current'[k] = IF k = age THEN current[k] + 1 ELSE current[k]
        /\ current[k] \in Int /\ Capacity \in Nat
    BY <1>1, <1>2, CitizensAssumption DEF CentreInv, CentreTyped
  <2>3. /\ CentreIn(k) \in SUBSET Citizens /\ CentreWoken(k) \in SUBSET Citizens
    BY DEF CentreIn, CentreWoken
  <2>4. PICK n, m : n = Cardinality(CentreIn(k)) /\ m = Cardinality(CentreWoken(k))
    OBVIOUS
  <2>5. /\ n \in Nat /\ m \in Nat
        /\ Cardinality(CentreIn(k)') = IF k = age THEN n + 1 ELSE n
        /\ Cardinality(CentreWoken(k)') = IF c \in CentreWoken(k) THEN m - 1 ELSE m
    <3>1. n \in Nat /\ m \in Nat
      BY <2>3, <2>4, CentreSize
    <3>2. Cardinality(CentreIn(k)') = IF k = age THEN n + 1 ELSE n
      <4>1. CASE k = age
        <5>1. Cardinality(CentreIn(k) \cup {c}) = n + 1
          BY <2>1, <2>3, <2>4, CentreSize
        <5> QED BY <2>1, <4>1, <5>1
      <4>2. CASE k # age
        BY <2>1, <2>4, <4>2
      <4> QED BY <4>1, <4>2
    <3>3. Cardinality(CentreWoken(k)') = IF c \in CentreWoken(k) THEN m - 1 ELSE m
      <4>1. CASE c \in CentreWoken(k)
        <5>1. Cardinality(CentreWoken(k) \ {c}) = m - 1
          BY <2>3, <2>4, <4>1, CentreSize
        <5> QED BY <2>1, <4>1, <5>1
      <4>2. CASE c \notin CentreWoken(k)
        <5>1. CentreWoken(k) \ {c} = CentreWoken(k)
          BY <4>2
        <5> QED BY <2>1, <2>4, <4>2, <5>1
      <4> QED BY <4>1, <4>2
    <3> QED BY <3>1, <3>2, <3>3
  <2>6. /\ current[k] = n /\ current[k] <= Capacity
        /\ OnceEach(waiting_list[k])
        /\ Listed(waiting_list[k]) \subseteq CentreAsleep(k) \cup CentreWoken(k)
        /\ CentreAsleep(k) # {} /\ waiting_list[k] # <<>> => current[k] + m >= Capacity
    BY <2>4 DEF CentreInv, CentreAge
  <2>7. OnceEach(waiting_list'[k])
    BY <1>2, <2>2, <2>6
  <2>8. Listed(waiting_list'[k]) \subseteq CentreAsleep(k)' \cup CentreWoken(k)'
    <3>1. CASE k = age
      BY <1>2, <2>1, <2>2, <2>6, <3>1
    <3>2. CASE k # age
      BY <2>1, <2>2, <2>6, <3>2
    <3> QED BY <3>1, <3>2
  <2>9. /\ current'[k] = Cardinality(CentreIn(k)') /\ current'[k] <= Capacity
        /\ CentreAsleep(k)' # {} /\ waiting_list'[k] # <<>> =>
               current'[k] + Cardinality(CentreWoken(k)') >= Capacity
    BY <1>1, <1>2, <2>1, <2>2, <2>5, <2>6
  <2> QED BY <2>7, <2>8, <2>9 DEF CentreAge
<1> QED BY <1>3, <1>4 DEF CentreInv

\* Whoever finds none waits, and joins the list when it comes.
LEMMA CentreWaits ==
    ASSUME CentreInv, NEW c \in Citizens, Centre!Wait(c)
    PROVE  CentreInv'
<1>1. PICK age \in Centre!Types :
          /\ age = citizen_type[c] /\ vaccination_pc[c] \in {"out", "woken"}
          /\ current[age] = Capacity
          /\ waiting_list' = [waiting_list EXCEPT
                                 ![age] = IF vaccination_pc[c] = "out" THEN Append(@, c) ELSE @]
          /\ vaccination_pc' = [vaccination_pc EXCEPT ![c] = "asleep"]
          /\ citizen_type' = citizen_type /\ current' = current
  BY DEF Centre!Wait, CentreInv, CentreTyped
<1>2. PICK w : /\ w = (IF vaccination_pc[c] = "out" THEN Append(waiting_list[age], c)
                                                    ELSE waiting_list[age])
               /\ w \in Seq(Citizens) /\ OnceEach(w)
               /\ Listed(w) \subseteq Listed(waiting_list[age]) \cup {c}
  <2>1. /\ waiting_list[age] \in Seq(Citizens) /\ OnceEach(waiting_list[age])
        /\ Listed(waiting_list[age]) \subseteq CentreAsleep(age) \cup CentreWoken(age)
    BY DEF CentreInv, CentreTyped, CentreAge
  <2>2. CASE vaccination_pc[c] = "out"
    <3>1. c \notin Listed(waiting_list[age])
      BY <2>1, <2>2 DEF CentreAsleep, CentreWoken
    <3>2. \E w : /\ w = Append(waiting_list[age], c) /\ w \in Seq(Citizens) /\ OnceEach(w)
                 /\ Listed(w) = Listed(waiting_list[age]) \cup {c}
      BY <2>1, <3>1, JoinsList
    <3> QED BY <2>2, <3>2
  <2>3. CASE vaccination_pc[c] # "out"
    BY <2>1, <2>3
  <2> QED BY <2>2, <2>3
<1>3. waiting_list' = [waiting_list EXCEPT ![age] = w]
  BY <1>1, <1>2
<1>4. CentreTyped'
  BY <1>1, <1>2, <1>3 DEF CentreInv, CentreTyped, CentrePCs
<1>5. ASSUME NEW k \in Centre!Types PROVE CentreAge(k)'
  <2>1. /\ CentreIn(k)' = CentreIn(k)
        /\ CentreAsleep(k)' = IF k = age THEN CentreAsleep(k) \cup {c} ELSE CentreAsleep(k)
        /\ CentreWoken(k)' = CentreWoken(k) \ {c}
        /\ c \in CentreWoken(k) => k = age
    BY <1>1 DEF CentreInv, CentreTyped, CentreIn, CentreAsleep, CentreWoken
  <2>2. /\ waiting_list'[k] = IF k = age THEN w ELSE waiting_list[k]
        /\ current'[k] = current[k] /\ current[k] \in Int /\ Capacity \in Nat
    BY <1>1, <1>3, CitizensAssumption DEF CentreInv, CentreTyped
  <2>3. /\ current[k] = Cardinality(CentreIn(k)) /\ current[k] <= Capacity
        /\ OnceEach(waiting_list[k])
        /\ Listed(waiting_list[k]) \subseteq CentreAsleep(k) \cup CentreWoken(k)
        /\ CentreAsleep(k) # {} /\ waiting_list[k] # <<>> =>
               current[k] + Cardinality(CentreWoken(k)) >= Capacity
    BY DEF CentreInv, CentreAge
  <2>4. Cardinality(CentreWoken(k)') \in Nat
    <3>1. CentreWoken(k)' \in SUBSET Citizens
      BY DEF CentreWoken
    <3> QED BY <3>1, CentreSize
  <2>5. CASE k = age
    BY <1>1, <1>2, <2>1, <2>2, <2>3, <2>4, <2>5 DEF CentreAge
  <2>6. CASE k # age
    <3>1. CentreWoken(k)' = CentreWoken(k)
      BY <2>1, <2>6
    <3> QED BY <2>1, <2>2, <2>3, <2>6, <3>1 DEF CentreAge
  <2> QED BY <2>5, <2>6
<1> QED BY <1>4, <1>5 DEF CentreInv

\* A citizen is vaccinated, or wakes without a signal.
LEMMA CentreGoesOn ==
    ASSUME CentreInv, NEW c \in Citizens, Centre!ApplyVaccine(c) \/ Centre!SpuriousWakeup(c)
    PROVE  CentreInv'
<1>1. PICK p \in {"vaccinated", "woken"} :
          /\ vaccination_pc[c] = IF p = "woken" THEN "asleep" ELSE "in"
          /\ vaccination_pc' = [vaccination_pc EXCEPT ![c] = p]
          /\ UNCHANGED <<citizen_type, current, waiting_list>>
  BY DEF Centre!ApplyVaccine, Centre!SpuriousWakeup
<1>2. CentreTyped'
  BY <1>1 DEF CentreInv, CentreTyped, CentrePCs
<1>3. ASSUME NEW k \in Centre!Types PROVE CentreAge(k)'
  <2>1. /\ CentreIn(k)' = CentreIn(k)
        /\ CentreAsleep(k)' = CentreAsleep(k) \ {c}
        /\ CentreWoken(k)' = IF p = "woken" /\ citizen_type[c] = k THEN CentreWoken(k) \cup {c}
                                                                   ELSE CentreWoken(k)
        /\ c \in CentreAsleep(k) => p = "woken" /\ citizen_type[c] = k
        /\ c \notin CentreWoken(k)
    BY <1>1 DEF CentreInv, CentreTyped, CentreIn, CentreAsleep, CentreWoken
  <2>2. /\ Cardinality(CentreWoken(k)) \in Nat
        /\ Cardinality(CentreWoken(k) \cup {c}) = Cardinality(CentreWoken(k)) + 1
    <3>1. CentreWoken(k) \in SUBSET Citizens
      BY DEF CentreWoken
    <3> QED BY <2>1, <3>1, CentreSize
  <2>3. /\ current[k] = Cardinality(CentreIn(k)) /\ current[k] <= Capacity
        /\ OnceEach(waiting_list[k])
        /\ Listed(waiting_list[k]) \subseteq CentreAsleep(k) \cup CentreWoken(k)
        /\ CentreAsleep(k) # {} /\ waiting_list[k] # <<>> =>
               current[k] + Cardinality(CentreWoken(k)) >= Capacity
        /\ current[k] \in Int /\ Capacity \in Nat
    BY CitizensAssumption DEF CentreInv, CentreAge, CentreTyped
  <2>4. Cardinality(CentreWoken(k)') >= Cardinality(CentreWoken(k))
    BY <2>1, <2>2
  <2>5. Cardinality(CentreWoken(k)') \in Nat
    BY <2>1, <2>2
  <2> QED BY <1>1, <2>1, <2>2, <2>3, <2>4, <2>5 DEF CentreAge
<1> QED BY <1>2, <1>3 DEF CentreInv

\* default_next_citizen: one that leaves looks at the list of its own age first.
LEMMA CentreNextType ==
    ASSUME NEW k \in Centre!Types
    PROVE  /\ \A n \in Centre!NextType(k) :
                  /\ n \in Centre!Types /\ waiting_list[n] # <<>>
                  /\ waiting_list[k] # <<>> => n = k
           /\ Centre!NextType(k) = {} => waiting_list[k] = <<>>
<1> DEFINE some == {i \in 1..4 : waiting_list[Centre!Order(k)[i]] # <<>>}
<1>1. /\ k \in Int /\ 0 <= k /\ k <= 3
      /\ \A i \in 1..4 : Centre!Order(k)[i] = (k + i - 1) % 4
  BY DEF Centre!Types, Centre!Order
<1>2. /\ Centre!Order(k)[1] = k
      /\ \A i \in 1..4 : Centre!Order(k)[i] \in Centre!Types
  BY <1>1 DEF Centre!Types
<1>3. Centre!NextType(k) = {Centre!Order(k)[i] : i \in {i \in some : \A j \in some : i <= j}}
  BY DEF Centre!NextType
<1>4. waiting_list[k] # <<>> => 1 \in some /\ \A i \in some : i <= 1 <=> i = 1
  BY <1>2
<1>5. waiting_list[k] # <<>> => k \in Centre!NextType(k)
  <2> SUFFICES ASSUME waiting_list[k] # <<>> PROVE k \in Centre!NextType(k)
    OBVIOUS
  <2>1. 1 \in some /\ \A j \in some : 1 <= j
    BY <1>4
  <2> QED BY <1>2, <1>3, <2>1
<1>6. ASSUME NEW n \in Centre!NextType(k)
      PROVE  /\ n \in Centre!Types /\ waiting_list[n] # <<>>
             /\ waiting_list[k] # <<>> => n = k
  <2>1. PICK i \in some : n = Centre!Order(k)[i] /\ \A j \in some : i <= j
    BY <1>3
  <2>2. waiting_list[k] # <<>> => i = 1
    BY <1>4, <2>1
  <2> QED BY <1>2, <2>1, <2>2
<1> QED BY <1>5, <1>6

\* One that leaves makes room; if its age's list holds somebody, it takes the first
\* off and wakes one of the age, if one is asleep.
LEMMA CentreLeaves ==
    ASSUME CentreInv, NEW c \in Citizens, Centre!Exit(c)
    PROVE  CentreInv'
<1>1. PICK age \in Centre!Types :
          /\ age = citizen_type[c] /\ vaccination_pc[c] = "vaccinated"
          /\ current' = [current EXCEPT ![age] = @ - 1]
          /\ citizen_type' = citizen_type
          /\ \/ /\ Centre!NextType(age) = {}
                /\ vaccination_pc' = [vaccination_pc EXCEPT ![c] = "done"]
                /\ UNCHANGED waiting_list
             \/ \E n \in Centre!NextType(age) :
                /\ waiting_list' = [waiting_list EXCEPT ![n] = Tail(@)]
                /\ \/ /\ Centre!OfType(n, "asleep") = {}
                      /\ vaccination_pc' = [vaccination_pc EXCEPT ![c] = "done"]
                   \/ \E w \in Centre!OfType(n, "asleep") :
                      vaccination_pc' = [vaccination_pc EXCEPT ![c] = "done", ![w] = "woken"]
  BY DEF Centre!Exit, CentreInv, CentreTyped
<1>2. \* Whom the signal wakes, and what is left of the list.
      PICK n \in Centre!Types, W \in SUBSET Citizens, w \in Seq(Citizens) :
          /\ waiting_list' = [waiting_list EXCEPT ![n] = w]
          /\ vaccination_pc' = [x \in Citizens |-> IF x = c THEN "done" ELSE
                                                   IF x \in W THEN "woken"
                                                              ELSE vaccination_pc[x]]
          /\ W \subseteq CentreAsleep(n)
          /\ OnceEach(w) /\ Listed(w) \subseteq Listed(waiting_list[n])
          /\ waiting_list[age] # <<>> => n = age
          /\ waiting_list[n] # <<>> =>
                 IF CentreAsleep(n) = {} THEN W = {} ELSE \E x \in Citizens : W = {x}
          /\ waiting_list[n] = <<>> => w = <<>> /\ W = {}
  <2>0. /\ vaccination_pc \in [Citizens -> CentrePCs]
        /\ waiting_list \in [Centre!Types -> Seq(Citizens)]
        /\ \A k \in Centre!Types : OnceEach(waiting_list[k])
    BY DEF CentreInv, CentreTyped, CentreAge
  <2>1. CASE /\ Centre!NextType(age) = {}
             /\ vaccination_pc' = [vaccination_pc EXCEPT ![c] = "done"]
             /\ UNCHANGED waiting_list
    <3>1. waiting_list[age] = <<>>
      BY <2>1, CentreNextType
    <3>2. waiting_list' = [waiting_list EXCEPT ![age] = waiting_list[age]]
      BY <2>0, <2>1
    <3>3. vaccination_pc' = [x \in Citizens |-> IF x = c THEN "done" ELSE
                                                IF x \in {} THEN "woken"
                                                            ELSE vaccination_pc[x]]
      BY <2>0, <2>1
    <3>4. {} \in SUBSET Citizens /\ {} \subseteq CentreAsleep(age)
      OBVIOUS
    <3>5. waiting_list[age] \in Seq(Citizens) /\ OnceEach(waiting_list[age])
      BY <2>0
    <3> QED BY <3>1, <3>2, <3>3, <3>4, <3>5
  <2>2. ASSUME NEW n \in Centre!NextType(age), NEW W \in SUBSET Citizens,
               waiting_list' = [waiting_list EXCEPT ![n] = Tail(@)],
               W \subseteq CentreAsleep(n),
               IF CentreAsleep(n) = {} THEN W = {} ELSE \E x \in Citizens : W = {x},
               vaccination_pc' = [x \in Citizens |-> IF x = c THEN "done" ELSE
                                                     IF x \in W THEN "woken"
                                                                ELSE vaccination_pc[x]]
        PROVE  \E w \in Seq(Citizens) :
                   /\ waiting_list' = [waiting_list EXCEPT ![n] = w]
                   /\ OnceEach(w) /\ Listed(w) \subseteq Listed(waiting_list[n])
                   /\ n \in Centre!Types /\ waiting_list[n] # <<>>
                   /\ waiting_list[age] # <<>> => n = age
    <3>1. n \in Centre!Types /\ waiting_list[n] # <<>> /\ (waiting_list[age] # <<>> => n = age)
      BY CentreNextType
    <3>2. waiting_list[n] \in Seq(Citizens) /\ OnceEach(waiting_list[n])
      BY <2>0, <3>1
    <3>3. PICK w : /\ w = Tail(waiting_list[n]) /\ w \in Seq(Citizens) /\ OnceEach(w)
                   /\ Listed(w) = Listed(waiting_list[n]) \ {Head(waiting_list[n])}
      BY <3>1, <3>2, LeavesFirst
    <3>4. waiting_list' = [waiting_list EXCEPT ![n] = w]
      BY <2>2, <3>3
    <3> QED BY <3>1, <3>3, <3>4
  <2>3. ASSUME NEW n \in Centre!NextType(age),
               waiting_list' = [waiting_list EXCEPT ![n] = Tail(@)],
               \/ /\ Centre!OfType(n, "asleep") = {}
                  /\ vaccination_pc' = [vaccination_pc EXCEPT ![c] = "done"]
               \/ \E w \in Centre!OfType(n, "asleep") :
                  vaccination_pc' = [vaccination_pc EXCEPT ![c] = "done", ![w] = "woken"]
        PROVE  \E W \in SUBSET Citizens :
                   /\ W \subseteq CentreAsleep(n)
                   /\ IF CentreAsleep(n) = {} THEN W = {} ELSE \E x \in Citizens : W = {x}
                   /\ vaccination_pc' = [x \in Citizens |-> IF x = c THEN "done" ELSE
                                                            IF x \in W THEN "woken"
                                                                       ELSE vaccination_pc[x]]
    <3>0. Centre!OfType(n, "asleep") = CentreAsleep(n) /\ c \notin CentreAsleep(n)
      BY <1>1 DEF Centre!OfType, CentreAsleep
    <3>1. CASE /\ CentreAsleep(n) = {}
               /\ vaccination_pc' = [vaccination_pc EXCEPT ![c] = "done"]
      <4>1. vaccination_pc' = [x \in Citizens |-> IF x = c THEN "done" ELSE
                                                  IF x \in {} THEN "woken"
                                                              ELSE vaccination_pc[x]]
        BY <2>0, <3>1
      <4>2. {} \in SUBSET Citizens /\ {} \subseteq CentreAsleep(n)
        OBVIOUS
      <4> QED BY <3>1, <4>1, <4>2
    <3>2. ASSUME NEW u \in CentreAsleep(n),
                 vaccination_pc' = [vaccination_pc EXCEPT ![c] = "done", ![u] = "woken"]
          PROVE  /\ {u} \in SUBSET Citizens /\ {u} \subseteq CentreAsleep(n)
                 /\ CentreAsleep(n) # {} /\ u \in Citizens
                 /\ vaccination_pc' = [x \in Citizens |-> IF x = c THEN "done" ELSE
                                                          IF x \in {u} THEN "woken"
                                                                       ELSE vaccination_pc[x]]
      BY <2>0, <3>0, <3>2 DEF CentreAsleep
    <3> QED BY <2>3, <3>0, <3>1, <3>2
  <2>4. CASE \E n \in Centre!NextType(age) :
                /\ waiting_list' = [waiting_list EXCEPT ![n] = Tail(@)]
                /\ \/ /\ Centre!OfType(n, "asleep") = {}
                      /\ vaccination_pc' = [vaccination_pc EXCEPT ![c] = "done"]
                   \/ \E w \in Centre!OfType(n, "asleep") :
                      vaccination_pc' = [vaccination_pc EXCEPT ![c] = "done", ![w] = "woken"]
    <3>1. PICK n \in Centre!NextType(age) :
              /\ waiting_list' = [waiting_list EXCEPT ![n] = Tail(@)]
              /\ \E W \in SUBSET Citizens :
                   /\ W \subseteq CentreAsleep(n)
                   /\ IF CentreAsleep(n) = {} THEN W = {} ELSE \E x \in Citizens : W = {x}
                   /\ vaccination_pc' = [x \in Citizens |-> IF x = c THEN "done" ELSE
                                                            IF x \in W THEN "woken"
                                                                       ELSE vaccination_pc[x]]
      BY <2>3, <2>4
    <3>2. PICK W \in SUBSET Citizens :
              /\ W \subseteq CentreAsleep(n)
              /\ IF CentreAsleep(n) = {} THEN W = {} ELSE \E x \in Citizens : W = {x}
              /\ vaccination_pc' = [x \in Citizens |-> IF x = c THEN "done" ELSE
                                                       IF x \in W THEN "woken"
                                                                  ELSE vaccination_pc[x]]
      BY <3>1
    <3>3. PICK w \in Seq(Citizens) :
              /\ waiting_list' = [waiting_list EXCEPT ![n] = w]
              /\ OnceEach(w) /\ Listed(w) \subseteq Listed(waiting_list[n])
              /\ n \in Centre!Types /\ waiting_list[n] # <<>>
              /\ waiting_list[age] # <<>> => n = age
      BY <2>2, <3>1, <3>2
    <3> QED BY <3>2, <3>3
  <2> QED BY <1>1, <2>1, <2>4
<1>3. CentreTyped'
  <2>1. vaccination_pc' \in [Citizens -> CentrePCs]
    BY <1>2 DEF CentreInv, CentreTyped, CentrePCs
  <2>2. /\ waiting_list' \in [Centre!Types -> Seq(Citizens)]
        /\ current' \in [Centre!Types -> Int] /\ citizen_type' \in [Citizens -> Centre!Types]
    <3>1. /\ waiting_list' = [waiting_list EXCEPT ![n] = w]
          /\ current' = [current EXCEPT ![age] = @ - 1] /\ citizen_type' = citizen_type
      BY <1>1, <1>2
    <3> QED BY <3>1 DEF CentreInv, CentreTyped
  <2> QED BY <2>1, <2>2 DEF CentreTyped
<1>4. ASSUME NEW k \in Centre!Types PROVE CentreAge(k)'
  <2>1. /\ CentreIn(k)' = IF k = age THEN CentreIn(k) \ {c} ELSE CentreIn(k)
        /\ CentreAsleep(k)' = CentreAsleep(k) \ W
        /\ CentreWoken(k)' = IF k = n THEN CentreWoken(k) \cup W ELSE CentreWoken(k)
        /\ k = age => c \in CentreIn(k)
        /\ k = n => W \cap CentreWoken(k) = {}
    <3>1. W \subseteq {x \in Citizens : citizen_type[x] = n /\ vaccination_pc[x] = "asleep"}
      BY <1>2 DEF CentreAsleep
    <3>2. \A x \in Citizens : vaccination_pc'[x] = IF x = c THEN "done" ELSE
                                                   IF x \in W THEN "woken"
                                                              ELSE vaccination_pc[x]
      BY <1>2
    <3>3. citizen_type' = citizen_type /\ citizen_type[c] = age /\ vaccination_pc[c] = "vaccinated"
      BY <1>1
    <3> QED BY <3>1, <3>2, <3>3 DEF CentreIn, CentreAsleep, CentreWoken
  <2>2. /\ waiting_list'[k] = IF k = n THEN w ELSE waiting_list[k]
        /\ current'[k] = IF k = age THEN current[k] - 1 ELSE current[k]
        /\ current[k] \in Int /\ Capacity \in Nat
    BY <1>1, <1>2, CitizensAssumption DEF CentreInv, CentreTyped
  <2>3. CentreIn(k) \in SUBSET Citizens /\ CentreWoken(k) \in SUBSET Citizens
    BY DEF CentreIn, CentreWoken
  <2>4. PICK i, m : i = Cardinality(CentreIn(k)) /\ m = Cardinality(CentreWoken(k))
    OBVIOUS
  <2>5. /\ i \in Nat /\ m \in Nat
        /\ Cardinality(CentreIn(k)') = IF k = age THEN i - 1 ELSE i
        /\ \A x \in Citizens : W = {x} =>
               Cardinality(CentreWoken(k)') = IF k = n THEN m + 1 ELSE m
        /\ W = {} => Cardinality(CentreWoken(k)') = m
        /\ k # n => Cardinality(CentreWoken(k)') = m
    <3>1. \A x \in Citizens : W = {x} /\ k = n => x \notin CentreWoken(k)
      BY <2>1
    <3>2. W = {} => CentreWoken(k)' = CentreWoken(k)
      BY <2>1
    <3>3. \A x \in Citizens : x \notin CentreWoken(k) =>
              Cardinality(CentreWoken(k) \cup {x}) = m + 1
      BY <2>3, <2>4, CentreSize
    <3>4. i \in Nat /\ m \in Nat /\ (k = age => Cardinality(CentreIn(k) \ {c}) = i - 1)
      BY <2>1, <2>3, <2>4, CentreSize
    <3> QED BY <2>1, <2>4, <3>1, <3>2, <3>3, <3>4
  <2>6. /\ current[k] = i /\ current[k] <= Capacity
        /\ OnceEach(waiting_list[k])
        /\ Listed(waiting_list[k]) \subseteq CentreAsleep(k) \cup CentreWoken(k)
        /\ CentreAsleep(k) # {} /\ waiting_list[k] # <<>> => current[k] + m >= Capacity
    BY <2>4 DEF CentreInv, CentreAge
  <2>7. OnceEach(waiting_list'[k])
    BY <1>2, <2>2, <2>6
  <2>8. Listed(waiting_list'[k]) \subseteq CentreAsleep(k)' \cup CentreWoken(k)'
    <3>1. CASE k = n
      BY <1>2, <2>1, <2>2, <2>6, <3>1
    <3>2. CASE k # n
      <4>1. W \cap CentreAsleep(k) = {}
        BY <1>2, <3>2 DEF CentreAsleep
      <4> QED BY <2>1, <2>2, <2>6, <3>2, <4>1
    <3> QED BY <3>1, <3>2
  <2>9. current'[k] = Cardinality(CentreIn(k)') /\ current'[k] <= Capacity
    BY <2>2, <2>5, <2>6
  <2>10. CentreAsleep(k)' # {} /\ waiting_list'[k] # <<>> =>
             current'[k] + Cardinality(CentreWoken(k)') >= Capacity
    <3> SUFFICES ASSUME CentreAsleep(k)' # {}, waiting_list'[k] # <<>>
                 PROVE  current'[k] + Cardinality(CentreWoken(k)') >= Capacity
      OBVIOUS
    <3>1. CentreAsleep(k) # {} /\ waiting_list[k] # <<>>
      BY <1>2, <2>1, <2>2
    <3>2. current[k] + m >= Capacity
      BY <2>6, <3>1
    <3>3. CASE k = n
      <4>1. \E x \in Citizens : W = {x}
        BY <1>2, <3>1, <3>3
      <4>2. Cardinality(CentreWoken(k)') = m + 1
        BY <2>5, <3>3, <4>1
      <4> QED BY <2>2, <2>5, <3>2, <4>2
    <3>4. CASE k # n
      <4>1. k # age
        BY <1>2, <3>1, <3>4
      <4> QED BY <2>2, <2>5, <3>2, <3>4, <4>1
    <3> QED BY <3>3, <3>4
  <2> QED BY <2>7, <2>8, <2>9, <2>10 DEF CentreAge
<1> QED BY <1>3, <1>4 DEF CentreInv

LEMMA CentreKeeps == CentreInv /\ [Centre!Next]_Centre!vars => CentreInv'
<1> SUFFICES ASSUME CentreInv, [Centre!Next]_Centre!vars PROVE CentreInv'
  OBVIOUS
<1>1. CASE UNCHANGED Centre!vars
  <2>1. UNCHANGED <<citizen_type, current, waiting_list, vaccination_pc>>
    BY <1>1 DEF Centre!vars
  <2>2. CentreTyped'
    BY <2>1 DEF CentreInv, CentreTyped
  <2>3. ASSUME NEW k \in Centre!Types PROVE CentreAge(k)'
    <3>1. /\ CentreIn(k)' = CentreIn(k) /\ CentreAsleep(k)' = CentreAsleep(k)
          /\ CentreWoken(k)' = CentreWoken(k)
      BY <2>1 DEF CentreIn, CentreAsleep, CentreWoken
    <3> QED BY <2>1, <3>1 DEF CentreInv, CentreAge
  <2> QED BY <2>2, <2>3 DEF CentreInv
<1>2. ASSUME NEW c \in Citizens, Centre!Step(c)
      PROVE  CentreInv'
  BY <1>2, CentreEnters, CentreWaits, CentreGoesOn, CentreLeaves DEF Centre!Step
<1> QED BY <1>1, <1>2, CentreGoesOn DEF Centre!Next

LEMMA CentreAlways == SyncSpec => []CentreInv
<1>1. Centre!Spec => []CentreInv
  BY CentreStarts, CentreKeeps, PTL DEF Centre!Spec
<1> QED BY <1>1, CentreRuns, PTL

LEMMA CentreSameCardinality ==
    ASSUME NEW S
    PROVE  Centre!Cardinality(S) = Cardinality(S)
BY DEF Centre!Cardinality, Cardinality

\* An age's counter is the number of its citizens that are in, and stays within
\* the room; each list holds citizens that wait, each once, so it is no longer than
\* there are citizens.
LEMMA CentreKeepsRoom == CentreInv => Centre!TypeOK /\ Centre!RoomKept /\ Centre!ListsExact
<1> SUFFICES ASSUME CentreInv PROVE Centre!TypeOK /\ Centre!RoomKept /\ Centre!ListsExact
  OBVIOUS
<1>1. ASSUME NEW k \in Centre!Types
      PROVE  /\ waiting_list[k] \in Seq(Citizens)
             /\ Len(waiting_list[k]) <= Cardinality(Citizens)
  <2>1. waiting_list[k] \in Seq(Citizens) /\ OnceEach(waiting_list[k])
    BY DEF CentreInv, CentreTyped, CentreAge
  <2>2. PICK S : S = Listed(waiting_list[k])
    OBVIOUS
  <2>3. S \in SUBSET Citizens /\ Cardinality(S) = Len(waiting_list[k])
    BY <2>1, <2>2, ListSize
  <2> QED BY <2>1, <2>3, CentreSize
<1>2. ASSUME NEW k \in Centre!Types
      PROVE  /\ current[k] = Cardinality(Centre!OfType(k, "in"))
                                 + Cardinality(Centre!OfType(k, "vaccinated"))
             /\ current[k] \in 0..Capacity
  <2>1. PICK S, V : S = Centre!OfType(k, "in") /\ V = Centre!OfType(k, "vaccinated")
    OBVIOUS
  <2>2. /\ S \in SUBSET Citizens /\ V \in SUBSET Citizens /\ S \cap V = {}
        /\ CentreIn(k) = S \cup V /\ CentreIn(k) \in SUBSET Citizens
    BY <2>1 DEF Centre!OfType, CentreIn
  <2>3. IsFiniteSet(S) /\ IsFiniteSet(V)
    BY <2>2, CitizensAssumption, FS_Subset
  <2>4. Cardinality(S \cup V) = Cardinality(S) + Cardinality(V) - Cardinality(S \cap V)
    BY <2>3, FS_Union
  <2>5. Cardinality(S \cap V) = 0 /\ Cardinality(S) \in Nat /\ Cardinality(V) \in Nat
    BY <2>2, <2>3, FS_EmptySet, FS_CardinalityType
  <2>6. current[k] = Cardinality(CentreIn(k)) /\ current[k] <= Capacity
    BY DEF CentreInv, CentreAge
  <2> QED BY <2>1, <2>2, <2>4, <2>5, <2>6, CitizensAssumption
<1>3. Centre!TypeOK
  <2>1. current \in [Centre!Types -> 0..Capacity]
    BY <1>2 DEF CentreInv, CentreTyped
  <2> QED BY <1>1, <2>1, CentreSameCardinality
          DEF CentreInv, CentreTyped, CentrePCs, Centre!TypeOK
<1>4. Centre!RoomKept
  BY <1>2, CitizensAssumption, CentreSameCardinality DEF Centre!RoomKept
<1>5. ASSUME NEW k \in Centre!Types
      PROVE  /\ \A i \in 1..Len(waiting_list[k]) :
                    waiting_list[k][i] \in Centre!OfType(k, "asleep") \cup Centre!OfType(k, "woken")
             /\ \A i, j \in 1..Len(waiting_list[k]) :
                    waiting_list[k][i] = waiting_list[k][j] => i = j
  <2>1. /\ OnceEach(waiting_list[k])
        /\ Listed(waiting_list[k]) \subseteq CentreAsleep(k) \cup CentreWoken(k)
        /\ DOMAIN waiting_list[k] = 1..Len(waiting_list[k])
    BY <1>1, LenProperties DEF CentreInv, CentreAge
  <2> QED BY <2>1 DEF OnceEach, Listed, CentreAsleep, CentreWoken, Centre!OfType
<1> QED BY <1>3, <1>4, <1>5 DEF Centre!ListsExact

\* Whoever is listed and asleep is not left beside an empty place.
LEMMA CentreWakeup == CentreInv => Centre!ListedAreWoken
<1> SUFFICES ASSUME CentreInv, NEW k \in Centre!Types,
                    Centre!OfType(k, "asleep") # {}, current[k] < Capacity,
                    Centre!OfType(k, "woken") = {}
             PROVE  waiting_list[k] = <<>>
  BY DEF Centre!ListedAreWoken
<1>1. CentreAsleep(k) # {} /\ CentreWoken(k) = {}
  BY DEF CentreAsleep, CentreWoken, Centre!OfType
<1>2. Cardinality(CentreWoken(k)) = 0
  BY <1>1, FS_EmptySet
<1>3. current[k] \in Int /\ Capacity \in Nat
  BY CitizensAssumption DEF CentreInv, CentreTyped
<1>4. waiting_list[k] # <<>> => current[k] + Cardinality(CentreWoken(k)) >= Capacity
  BY <1>1 DEF CentreInv, CentreAge
<1> QED BY <1>2, <1>3, <1>4

-----------------------------------------------------------------------------
(* The first monitor *)

LEMMA FirstRuns == SyncSpec => First!Spec
<1>1. SyncInit => First!Init
  BY DEF SyncInit
<1>2. [SyncNext]_syncVars => [First!Next]_First!vars
  BY DEF SyncNext, syncVars, varsFirst, First!vars, OthersBarrier, OthersSem, OthersPair,
         OthersPause, OthersQueue, OthersLight, OthersStrict, OthersBiased, OthersTurn,
         OthersCentre, OthersDining, OthersRing
<1> QED BY <1>1, <1>2, PTL DEF SyncSpec, First!Spec

\* Who has the resource, or is on the way to it.
FirstBusy == {t \in First!Users : first_monitor_pc[t] \in {"in", "woken"}}

FirstTyped ==
    /\ clients \in SUBSET First!Users
    /\ first_monitor_disturbed \in BOOLEAN
    /\ first_monitor_resource_status \in First!Statuses
    /\ using_q \in SUBSET First!In
    /\ reader_wait_q \in Seq(Readers) /\ writer_wait_q \in Seq(Writers)
    /\ first_monitor_pc \in [First!Users -> {"out", "asleep", "woken", "in"}]
    /\ \A t \in First!Users : first_monitor_pc[t] # "out" => t \in clients

\* Whoever sleeps is listed; whoever is listed sleeps, or has woken without a signal.
FirstListed ==
    /\ OnceEach(reader_wait_q) /\ OnceEach(writer_wait_q)
    /\ \A t \in Listed(reader_wait_q) \cup Listed(writer_wait_q) :
           \/ first_monitor_pc[t] = "asleep"
           \/ first_monitor_disturbed /\ first_monitor_pc[t] = "woken"
    /\ \A t \in Readers : first_monitor_pc[t] = "asleep" => t \in Listed(reader_wait_q)
    /\ \A t \in Writers : first_monitor_pc[t] = "asleep" => t \in Listed(writer_wait_q)

\* While the resource is taken or somebody sleeps, somebody is there to release it.
FirstHeld ==
    FirstBusy = {} =>
        /\ first_monitor_resource_status = "available"
        /\ \A t \in First!Users : first_monitor_pc[t] # "asleep"

\* With one reader at most nobody shares, and the status tells who it is.
FirstAlone ==
    ~first_monitor_disturbed /\ (\A r, s \in clients \cap Readers : r = s) =>
        \A t \in FirstBusy :
            /\ first_monitor_resource_status = First!BusyBy(t)
            /\ \A u \in FirstBusy : u = t

FirstInv == FirstTyped /\ FirstListed /\ FirstHeld /\ FirstAlone

\* One that joins the front of a list it is not on.
LEMMA JoinsFront ==
    ASSUME NEW S, NEW q \in Seq(S), OnceEach(q), NEW t \in S, t \notin Listed(q)
    PROVE  \E w : /\ w = <<t>> \o q
                  /\ w \in Seq(S) /\ OnceEach(w) /\ Listed(w) = Listed(q) \cup {t}
<1>0. PICK w : w = <<t>> \o q
  OBVIOUS
<1>1. <<t>> \in Seq(S) /\ Len(<<t>>) = 1 /\ <<t>>[1] = t
  OBVIOUS
<1>2. /\ w \in Seq(S) /\ Len(w) = 1 + Len(q)
      /\ \A i \in 1..(1 + Len(q)) : w[i] = IF i <= 1 THEN <<t>>[i] ELSE q[i - 1]
  BY <1>0, <1>1, ConcatProperties
<1>3. Len(q) \in Nat /\ DOMAIN q = 1..Len(q) /\ DOMAIN w = 1..(1 + Len(q))
  BY <1>2, LenProperties
<1>4. w[1] = t /\ 1 \in DOMAIN w
  BY <1>1, <1>2, <1>3
<1>5. \A i \in DOMAIN w : i # 1 => i - 1 \in DOMAIN q /\ w[i] = q[i - 1]
  BY <1>2, <1>3
<1>6. \A i \in DOMAIN q : i + 1 \in DOMAIN w /\ w[i + 1] = q[i]
  BY <1>2, <1>3
<1>7. OnceEach(w)
  BY <1>3, <1>4, <1>5 DEF OnceEach, Listed
<1>8. Listed(w) = Listed(q) \cup {t}
  <2>1. \A i \in DOMAIN w : w[i] \in Listed(q) \cup {t}
    BY <1>4, <1>5 DEF Listed
  <2>2. \A i \in DOMAIN q : q[i] \in Listed(w)
    BY <1>6 DEF Listed
  <2>3. t \in Listed(w)
    BY <1>4 DEF Listed
  <2> QED BY <2>1, <2>2, <2>3 DEF Listed
<1> QED BY <1>0, <1>2, <1>7, <1>8

LEMMA FirstWithout ==
    ASSUME NEW S, NEW q \in Seq(S), OnceEach(q), NEW t
    PROVE  \E w : /\ w = First!Without(t, q) /\ w \in Seq(S)
                  /\ OnceEach(w) /\ Listed(w) = Listed(q) \ {t}
<1>1. CASE t \notin Listed(q)
  <2>1. First!Without(t, q) = q
    BY <1>1 DEF First!Without, Listed
  <2> QED BY <1>1, <2>1
<1>2. CASE t \in Listed(q)
  <2>1. PICK n : n = CHOOSE j \in DOMAIN q : q[j] = t
    OBVIOUS
  <2>2. n \in DOMAIN q /\ q[n] = t
    BY <1>2, <2>1 DEF Listed
  <2>3. First!Without(t, q) = SubSeq(q, 1, n - 1) \o SubSeq(q, n + 1, Len(q))
    BY <2>1, <2>2 DEF First!Without
  <2> HIDE <2>1
  <2>4. PICK w : IsLeft(w, q, n, S)
    BY <2>2, LeavesList, Zenon
  <2>5. /\ w = SubSeq(q, 1, n - 1) \o SubSeq(q, n + 1, Len(q))
        /\ w \in Seq(S) /\ OnceEach(w) /\ Listed(w) = Listed(q) \ {q[n]}
    BY <2>4, Zenon DEF IsLeft
  <2>6. w = First!Without(t, q)
    BY <2>3, <2>5, Zenon
  <2> QED BY <2>2, <2>5, <2>6, Zenon
<1> QED BY <1>1, <1>2

LEMMA FirstKinds ==
    /\ First!Users = Readers \cup Writers /\ Readers \cap Writers = {}
    /\ \A t \in First!Users :
           /\ First!BusyBy(t) \in First!Statuses /\ First!BusyBy(t) # "available"
           /\ t \notin Readers => t \in Writers
           /\ First!BusyBy(t) = "busy_by_reader" <=> t \in Readers
BY LockUsersAssumption DEF First!Users, First!BusyBy, First!Statuses

\* On the lists are threads.
LEMMA FirstOnLists ==
    ASSUME FirstTyped
    PROVE  /\ Listed(reader_wait_q) \in SUBSET Readers /\ Listed(writer_wait_q) \in SUBSET Writers
           /\ Len(reader_wait_q) \in Nat /\ Len(writer_wait_q) \in Nat
           /\ First!Set(reader_wait_q) = Listed(reader_wait_q)
           /\ First!Set(writer_wait_q) = Listed(writer_wait_q)
<1>1. /\ DOMAIN reader_wait_q = 1..Len(reader_wait_q) /\ Len(reader_wait_q) \in Nat
      /\ DOMAIN writer_wait_q = 1..Len(writer_wait_q) /\ Len(writer_wait_q) \in Nat
      /\ \A i \in 1..Len(reader_wait_q) : reader_wait_q[i] \in Readers
      /\ \A i \in 1..Len(writer_wait_q) : writer_wait_q[i] \in Writers
  BY LenProperties, ElementOfSeq DEF FirstTyped
<1> QED BY <1>1 DEF Listed, First!Set

LEMMA FirstStarts == First!Init => FirstInv
<1> SUFFICES ASSUME First!Init PROVE FirstInv
  OBVIOUS
<1>1. FirstTyped
  BY DEF First!Init, FirstTyped, First!Statuses
<1>2. /\ Listed(reader_wait_q) = {} /\ Listed(writer_wait_q) = {}
      /\ OnceEach(reader_wait_q) /\ OnceEach(writer_wait_q)
  <2>1. DOMAIN <<>> = {}
    OBVIOUS
  <2> QED BY <2>1 DEF First!Init, Listed, OnceEach
<1>3. \A t \in First!Users : first_monitor_pc[t] = "out"
  BY DEF First!Init
<1> QED BY <1>1, <1>2, <1>3, FirstKinds
        DEF First!Init, FirstInv, FirstListed, FirstHeld, FirstAlone, FirstBusy

\* monitor_request_access_permission finds the resource free, or shared.
LEMMA FirstGrants ==
    ASSUME FirstInv, NEW t \in clients, First!Grant(t)
    PROVE  FirstInv'
<1>1. /\ first_monitor_pc[t] = "out" /\ t \in First!Users
      /\ \/ first_monitor_resource_status = "available"
         \/ t \in Readers /\ first_monitor_resource_status = "busy_by_reader"
      /\ first_monitor_resource_status' = First!BusyBy(t)
      /\ using_q' = using_q \cup {t}
      /\ first_monitor_pc' = [first_monitor_pc EXCEPT ![t] = "in"]
      /\ UNCHANGED <<clients, first_monitor_disturbed, reader_wait_q, writer_wait_q>>
  BY DEF First!Grant, FirstInv, FirstTyped
<1>2. /\ first_monitor_pc \in [First!Users -> {"out", "asleep", "woken", "in"}]
      /\ first_monitor_pc'[t] = "in"
      /\ \A u \in First!Users \ {t} : first_monitor_pc'[u] = first_monitor_pc[u]
  BY <1>1 DEF FirstInv, FirstTyped
<1>3. First!In' = First!In \cup {t} /\ FirstBusy' = FirstBusy \cup {t} /\ t \notin FirstBusy
  BY <1>1, <1>2 DEF First!In, FirstBusy
<1>4. FirstTyped'
  BY <1>1, <1>3, FirstKinds DEF FirstInv, FirstTyped
<1>5. FirstListed'
  <2>1. /\ Listed(reader_wait_q) \in SUBSET First!Users
        /\ Listed(writer_wait_q) \in SUBSET First!Users
    BY FirstOnLists, FirstKinds DEF FirstInv
  <2>2. t \notin Listed(reader_wait_q) \cup Listed(writer_wait_q)
    BY <1>1 DEF FirstInv, FirstListed
  <2> QED BY <1>1, <1>2, <2>1, <2>2, FirstKinds DEF FirstInv, FirstListed
<1>6. FirstHeld'
  BY <1>3 DEF FirstHeld
<1>7. FirstAlone'
  <2> SUFFICES ASSUME ~first_monitor_disturbed', \A r, s \in clients' \cap Readers : r = s
               PROVE  FirstBusy = {}
    BY <1>1, <1>3 DEF FirstAlone
  <2>1. ASSUME NEW u \in FirstBusy PROVE FALSE
    <3>1. first_monitor_resource_status = First!BusyBy(u) /\ u \in First!Users
      BY <1>1, <2>1 DEF FirstInv, FirstAlone, FirstBusy
    <3>2. t \in Readers /\ u \in Readers
      BY <1>1, <3>1, FirstKinds
    <3>3. u \in clients
      BY <2>1 DEF FirstBusy, FirstInv, FirstTyped
    <3> QED BY <1>1, <1>3, <2>1, <3>2, <3>3
  <2> QED BY <2>1
<1> QED BY <1>4, <1>5, <1>6, <1>7 DEF FirstInv

\* It finds it taken: the thread waits at the front of its list.
LEMMA FirstWaits ==
    ASSUME FirstInv, NEW t \in clients, First!Wait(t)
    PROVE  FirstInv'
<1>1. /\ first_monitor_pc[t] = "out" /\ t \in First!Users
      /\ first_monitor_resource_status # "available"
      /\ IF t \in Readers
         THEN reader_wait_q' = <<t>> \o reader_wait_q /\ UNCHANGED writer_wait_q
         ELSE writer_wait_q' = <<t>> \o writer_wait_q /\ UNCHANGED reader_wait_q
      /\ first_monitor_pc' = [first_monitor_pc EXCEPT ![t] = "asleep"]
      /\ UNCHANGED <<clients, first_monitor_disturbed, first_monitor_resource_status, using_q>>
  BY DEF First!Wait, FirstInv, FirstTyped
<1>2. /\ first_monitor_pc \in [First!Users -> {"out", "asleep", "woken", "in"}]
      /\ first_monitor_pc'[t] = "asleep"
      /\ \A u \in First!Users \ {t} : first_monitor_pc'[u] = first_monitor_pc[u]
  BY <1>1 DEF FirstInv, FirstTyped
<1>3. First!In' = First!In /\ FirstBusy' = FirstBusy
  BY <1>1, <1>2 DEF First!In, FirstBusy
<1>4. PICK r, w :
          /\ r = reader_wait_q' /\ w = writer_wait_q'
          /\ r \in Seq(Readers) /\ OnceEach(r) /\ w \in Seq(Writers) /\ OnceEach(w)
          /\ Listed(r) = IF t \in Readers THEN Listed(reader_wait_q) \cup {t}
                                          ELSE Listed(reader_wait_q)
          /\ Listed(w) = IF t \in Readers THEN Listed(writer_wait_q)
                                          ELSE Listed(writer_wait_q) \cup {t}
  <2>1. /\ reader_wait_q \in Seq(Readers) /\ OnceEach(reader_wait_q)
        /\ writer_wait_q \in Seq(Writers) /\ OnceEach(writer_wait_q)
        /\ t \notin Listed(reader_wait_q) /\ t \notin Listed(writer_wait_q)
    BY <1>1 DEF FirstInv, FirstTyped, FirstListed
  <2>2. CASE t \in Readers
    <3>1. \E r : /\ r = <<t>> \o reader_wait_q /\ r \in Seq(Readers) /\ OnceEach(r)
                 /\ Listed(r) = Listed(reader_wait_q) \cup {t}
      BY <2>1, <2>2, JoinsFront
    <3> QED BY <1>1, <2>1, <2>2, <3>1
  <2>3. CASE t \notin Readers
    <3>1. t \in Writers
      BY <1>1, <2>3, FirstKinds
    <3>2. \E w : /\ w = <<t>> \o writer_wait_q /\ w \in Seq(Writers) /\ OnceEach(w)
                 /\ Listed(w) = Listed(writer_wait_q) \cup {t}
      BY <2>1, <3>1, JoinsFront
    <3> QED BY <1>1, <2>1, <2>3, <3>2
  <2> QED BY <2>2, <2>3
<1>5. FirstTyped'
  BY <1>1, <1>2, <1>3, <1>4 DEF FirstInv, FirstTyped
<1>6. FirstListed'
  <2>1. /\ Listed(reader_wait_q) \in SUBSET First!Users
        /\ Listed(writer_wait_q) \in SUBSET First!Users
    BY FirstOnLists, FirstKinds DEF FirstInv
  <2>2. OnceEach(reader_wait_q') /\ OnceEach(writer_wait_q')
    BY <1>4
  <2>3. /\ Listed(reader_wait_q)' = IF t \in Readers THEN Listed(reader_wait_q) \cup {t}
                                                     ELSE Listed(reader_wait_q)
        /\ Listed(writer_wait_q)' = IF t \in Readers THEN Listed(writer_wait_q)
                                                     ELSE Listed(writer_wait_q) \cup {t}
    BY <1>4
  <2> QED BY <1>1, <1>2, <2>1, <2>2, <2>3, FirstKinds DEF FirstInv, FirstListed
<1>7. FirstHeld' /\ FirstAlone'
  BY <1>1, <1>2, <1>3 DEF FirstInv, FirstHeld, FirstAlone
<1> QED BY <1>5, <1>6, <1>7 DEF FirstInv

\* A woken thread has the resource, whatever has become of it.
LEMMA FirstResumes ==
    ASSUME FirstInv, NEW t \in clients, First!Resume(t)
    PROVE  FirstInv'
<1>1. /\ first_monitor_pc[t] = "woken" /\ t \in First!Users
      /\ first_monitor_resource_status' = First!BusyBy(t)
      /\ reader_wait_q' = First!Without(t, reader_wait_q)
      /\ writer_wait_q' = First!Without(t, writer_wait_q)
      /\ first_monitor_pc' = [first_monitor_pc EXCEPT ![t] = "in"]
      /\ UNCHANGED <<clients, first_monitor_disturbed, using_q>>
  BY DEF First!Resume, FirstInv, FirstTyped
<1>2. /\ first_monitor_pc \in [First!Users -> {"out", "asleep", "woken", "in"}]
      /\ first_monitor_pc'[t] = "in"
      /\ \A u \in First!Users \ {t} : first_monitor_pc'[u] = first_monitor_pc[u]
  BY <1>1 DEF FirstInv, FirstTyped
<1>3. First!In' = First!In \cup {t} /\ FirstBusy' = FirstBusy /\ t \in FirstBusy
  BY <1>1, <1>2 DEF First!In, FirstBusy
<1>4. PICK r, w :
          /\ r = reader_wait_q' /\ w = writer_wait_q'
          /\ r \in Seq(Readers) /\ OnceEach(r) /\ w \in Seq(Writers) /\ OnceEach(w)
          /\ Listed(r) = Listed(reader_wait_q) \ {t}
          /\ Listed(w) = Listed(writer_wait_q) \ {t}
  <2>1. /\ reader_wait_q \in Seq(Readers) /\ OnceEach(reader_wait_q)
        /\ writer_wait_q \in Seq(Writers) /\ OnceEach(writer_wait_q)
    BY DEF FirstInv, FirstTyped, FirstListed
  <2>2. \E r : /\ r = First!Without(t, reader_wait_q) /\ r \in Seq(Readers) /\ OnceEach(r)
               /\ Listed(r) = Listed(reader_wait_q) \ {t}
    BY <2>1, FirstWithout
  <2>3. \E w : /\ w = First!Without(t, writer_wait_q) /\ w \in Seq(Writers) /\ OnceEach(w)
               /\ Listed(w) = Listed(writer_wait_q) \ {t}
    BY <2>1, FirstWithout
  <2> QED BY <1>1, <2>2, <2>3
<1>5. FirstTyped'
  BY <1>1, <1>2, <1>3, <1>4, FirstKinds DEF FirstInv, FirstTyped
<1>6. FirstListed'
  <2>1. /\ Listed(reader_wait_q) \in SUBSET First!Users
        /\ Listed(writer_wait_q) \in SUBSET First!Users
    BY FirstOnLists, FirstKinds DEF FirstInv
  <2>2. OnceEach(reader_wait_q') /\ OnceEach(writer_wait_q')
    BY <1>4
  <2>3. /\ Listed(reader_wait_q)' = Listed(reader_wait_q) \ {t}
        /\ Listed(writer_wait_q)' = Listed(writer_wait_q) \ {t}
    BY <1>4
  <2> QED BY <1>1, <1>2, <2>1, <2>2, <2>3, FirstKinds DEF FirstInv, FirstListed
<1>7. FirstHeld'
  BY <1>3 DEF FirstHeld
<1>8. FirstAlone'
  BY <1>1, <1>3 DEF FirstInv, FirstAlone
<1> QED BY <1>5, <1>6, <1>7, <1>8 DEF FirstInv

LEMMA FirstSpurious ==
    ASSUME FirstInv, NEW t \in First!Users, First!SpuriousWakeup(t)
    PROVE  FirstInv'
<1>1. /\ first_monitor_disturbed /\ first_monitor_pc[t] = "asleep"
      /\ first_monitor_pc' = [first_monitor_pc EXCEPT ![t] = "woken"]
      /\ UNCHANGED <<clients, first_monitor_disturbed, first_monitor_resource_status, using_q,
                     reader_wait_q, writer_wait_q>>
  BY DEF First!SpuriousWakeup
<1>2. /\ first_monitor_pc \in [First!Users -> {"out", "asleep", "woken", "in"}]
      /\ first_monitor_pc'[t] = "woken"
      /\ \A u \in First!Users \ {t} : first_monitor_pc'[u] = first_monitor_pc[u]
  BY <1>1 DEF FirstInv, FirstTyped
<1>3. First!In' = First!In /\ FirstBusy' = FirstBusy \cup {t}
  BY <1>1, <1>2 DEF First!In, FirstBusy
<1>4. FirstTyped'
  BY <1>1, <1>2, <1>3 DEF FirstInv, FirstTyped
<1>5. FirstListed'
  <2>1. /\ Listed(reader_wait_q) \in SUBSET First!Users
        /\ Listed(writer_wait_q) \in SUBSET First!Users
    BY FirstOnLists, FirstKinds DEF FirstInv
  <2> QED BY <1>1, <1>2, <2>1, FirstKinds DEF FirstInv, FirstListed
<1>6. FirstHeld' /\ FirstAlone'
  BY <1>1, <1>3 DEF FirstHeld, FirstAlone
<1> QED BY <1>4, <1>5, <1>6 DEF FirstInv

\* What every release does: t is out, and those of S that sleep are woken.
LEMMA FirstReleases ==
    ASSUME FirstInv, NEW t \in clients, First!Release(t), NEW S \in SUBSET First!Users,
           First!Wake(S, t)
    PROVE  /\ t \in First!Users /\ first_monitor_pc[t] = "in"
           /\ UNCHANGED <<clients, first_monitor_disturbed>>
           /\ first_monitor_pc' \in [First!Users -> {"out", "asleep", "woken", "in"}]
           /\ first_monitor_pc'[t] = "out"
           /\ \A u \in First!Users \ {t} :
                  first_monitor_pc'[u] = IF u \in S /\ first_monitor_pc[u] = "asleep"
                                         THEN "woken" ELSE first_monitor_pc[u]
           /\ using_q' = using_q \ {t} /\ using_q' \in SUBSET First!In'
           /\ \A u \in First!Users : first_monitor_pc'[u] # "out" => u \in clients
           /\ FirstBusy' = (FirstBusy \ {t})
                               \cup {u \in S : first_monitor_pc[u] = "asleep"}
           /\ t \in FirstBusy
           /\ t \notin Listed(reader_wait_q) /\ t \notin Listed(writer_wait_q)
<1>1. /\ t \in First!Users /\ first_monitor_pc[t] = "in" /\ using_q' = using_q \ {t}
      /\ UNCHANGED <<clients, first_monitor_disturbed>>
  BY DEF First!Release, FirstInv, FirstTyped
<1>2. /\ first_monitor_pc' \in [First!Users -> {"out", "asleep", "woken", "in"}]
      /\ first_monitor_pc'[t] = "out"
      /\ \A u \in First!Users \ {t} :
             first_monitor_pc'[u] = IF u \in S /\ first_monitor_pc[u] = "asleep"
                                    THEN "woken" ELSE first_monitor_pc[u]
  BY <1>1 DEF First!Wake, FirstInv, FirstTyped
<1>3. using_q' \in SUBSET First!In'
  BY <1>1, <1>2 DEF FirstInv, FirstTyped, First!In
<1>4. \A u \in First!Users : first_monitor_pc'[u] # "out" => u \in clients
  BY <1>1, <1>2 DEF FirstInv, FirstTyped
<1>5. /\ t \in FirstBusy
      /\ FirstBusy' = (FirstBusy \ {t}) \cup {u \in S : first_monitor_pc[u] = "asleep"}
  BY <1>1, <1>2 DEF FirstBusy
<1>6. t \notin Listed(reader_wait_q) /\ t \notin Listed(writer_wait_q)
  BY <1>1 DEF FirstInv, FirstListed
<1> QED BY <1>1, <1>2, <1>3, <1>4, <1>5, <1>6

\* Nobody shares: whoever leaves was alone.
LEMMA FirstLeavesNobody ==
    ASSUME FirstInv, NEW t \in FirstBusy, ~first_monitor_disturbed,
           \A r, s \in clients \cap Readers : r = s
    PROVE  FirstBusy \ {t} = {}
BY DEF FirstInv, FirstAlone

\* Users are listed, or nobody waits.
LEMMA FirstReleasesOnly ==
    ASSUME FirstInv, NEW t \in clients, First!Release(t),
           First!ReleaseShared(t) \/ First!ReleaseToNobody(t)
    PROVE  FirstInv'
<1>0. {} \in SUBSET First!Users /\ First!Wake({}, t)
  BY DEF First!ReleaseShared, First!ReleaseToNobody
<1>1. /\ t \in First!Users /\ UNCHANGED <<clients, first_monitor_disturbed>>
      /\ first_monitor_pc' \in [First!Users -> {"out", "asleep", "woken", "in"}]
      /\ first_monitor_pc'[t] = "out"
      /\ \A u \in First!Users \ {t} : first_monitor_pc'[u] = first_monitor_pc[u]
      /\ using_q' \in SUBSET First!In' /\ using_q' = using_q \ {t}
      /\ \A u \in First!Users : first_monitor_pc'[u] # "out" => u \in clients
      /\ FirstBusy' = FirstBusy \ {t} /\ t \in FirstBusy
      /\ t \notin Listed(reader_wait_q) /\ t \notin Listed(writer_wait_q)
  BY <1>0, FirstReleases
<1>2. /\ UNCHANGED <<reader_wait_q, writer_wait_q>>
      /\ \/ using_q' # {} /\ first_monitor_resource_status' = first_monitor_resource_status
         \/ first_monitor_resource_status' = "available"
  BY <1>1 DEF First!ReleaseShared, First!ReleaseToNobody
<1>3. FirstTyped'
  BY <1>1, <1>2 DEF FirstInv, FirstTyped, First!Statuses
<1>4. FirstListed'
  <2>1. /\ Listed(reader_wait_q) \in SUBSET First!Users
        /\ Listed(writer_wait_q) \in SUBSET First!Users
    BY FirstOnLists, FirstKinds DEF FirstInv
  <2> QED BY <1>1, <1>2, <2>1, FirstKinds DEF FirstInv, FirstListed
<1>5. FirstHeld'
  <2>1. First!In' \subseteq FirstBusy'
    BY DEF First!In, FirstBusy
  <2>2. CASE First!ReleaseShared(t)
    BY <1>1, <2>1, <2>2 DEF First!ReleaseShared, FirstHeld
  <2>3. CASE First!ReleaseToNobody(t)
    <3>1. Listed(reader_wait_q) = {} /\ Listed(writer_wait_q) = {}
      <4>1. DOMAIN <<>> = {}
        OBVIOUS
      <4> QED BY <2>3, <4>1 DEF First!ReleaseToNobody, Listed
    <3>2. \A u \in First!Users : first_monitor_pc'[u] # "asleep"
      BY <1>1, <3>1, FirstKinds DEF FirstInv, FirstListed
    <3>3. first_monitor_resource_status' = "available"
      BY <2>3 DEF First!ReleaseToNobody
    <3> QED BY <3>2, <3>3 DEF FirstHeld
  <2> QED BY <2>2, <2>3
<1>6. FirstAlone'
  BY <1>1, FirstLeavesNobody DEF FirstAlone
<1> QED BY <1>3, <1>4, <1>5, <1>6 DEF FirstInv

\* All readers that wait go next.
LEMMA FirstLetsReaders ==
    ASSUME FirstInv, NEW t \in clients, First!Release(t), First!ReleaseToReaders(t)
    PROVE  FirstInv'
<1>a. PICK S : S = Listed(reader_wait_q)
  OBVIOUS
<1>0. /\ S \in SUBSET Readers /\ S \in SUBSET First!Users /\ S # {}
      /\ First!Wake(S, t)
      /\ Listed(writer_wait_q) \in SUBSET Writers
      /\ Listed(writer_wait_q) \in SUBSET First!Users
      /\ Listed(writer_wait_q) \cap S = {}
  <2>1. /\ S \in SUBSET Readers /\ First!Set(reader_wait_q) = S
        /\ Listed(writer_wait_q) \in SUBSET Writers
    BY <1>a, FirstOnLists DEF FirstInv
  <2>2. S # {}
    <3>1. reader_wait_q # <<>> /\ reader_wait_q \in Seq(Readers) /\ OnceEach(reader_wait_q)
      BY DEF First!ReleaseToReaders, FirstInv, FirstTyped, FirstListed
    <3> QED BY <1>a, <3>1, LeavesFirst
  <2>3. First!Wake(S, t)
    BY <2>1 DEF First!ReleaseToReaders
  <2> QED BY <2>1, <2>2, <2>3, FirstKinds
<1>1. /\ t \in First!Users /\ UNCHANGED <<clients, first_monitor_disturbed>>
      /\ first_monitor_pc' \in [First!Users -> {"out", "asleep", "woken", "in"}]
      /\ first_monitor_pc'[t] = "out" /\ first_monitor_pc[t] = "in"
      /\ \A u \in First!Users \ {t} :
             first_monitor_pc'[u] = IF u \in S /\ first_monitor_pc[u] = "asleep"
                                    THEN "woken" ELSE first_monitor_pc[u]
      /\ using_q' \in SUBSET First!In'
      /\ \A u \in First!Users : first_monitor_pc'[u] # "out" => u \in clients
      /\ FirstBusy' = (FirstBusy \ {t}) \cup {u \in S : first_monitor_pc[u] = "asleep"}
      /\ t \in FirstBusy /\ t \notin S /\ t \notin Listed(writer_wait_q)
  BY <1>0, <1>a, FirstReleases
<1>2. /\ reader_wait_q' = <<>> /\ UNCHANGED writer_wait_q
      /\ first_monitor_resource_status' = "busy_by_reader"
  BY DEF First!ReleaseToReaders
<1>3. FirstTyped'
  BY <1>1, <1>2 DEF FirstInv, FirstTyped, First!Statuses
<1>4. FirstListed'
  <2>1. Listed(reader_wait_q') = {} /\ OnceEach(reader_wait_q')
    BY <1>2 DEF Listed, OnceEach
  <2>2. \A u \in Readers : first_monitor_pc'[u] # "asleep"
    BY <1>0, <1>1, <1>a, FirstKinds DEF FirstInv, FirstListed
  <2>3. \A u \in Listed(writer_wait_q) : first_monitor_pc'[u] = first_monitor_pc[u]
    BY <1>0, <1>1
  <2>4. \A u \in Writers : first_monitor_pc'[u] = "asleep" => u \in Listed(writer_wait_q)
    BY <1>0, <1>1, FirstKinds DEF FirstInv, FirstListed
  <2> QED BY <1>1, <1>2, <2>1, <2>2, <2>3, <2>4 DEF FirstInv, FirstListed
<1>5. FirstHeld'
  <2>1. PICK u \in S : TRUE
    BY <1>0
  <2>2. u \in First!Users /\ u # t /\ first_monitor_pc[u] \in {"asleep", "woken"}
    BY <1>0, <1>1, <1>a, <2>1 DEF FirstInv, FirstListed
  <2>3. u \in FirstBusy'
    BY <1>1, <2>2 DEF FirstBusy
  <2> QED BY <2>3 DEF FirstHeld
<1>6. FirstAlone'
  <2> SUFFICES ASSUME ~first_monitor_disturbed', \A r, s \in clients' \cap Readers : r = s,
                      NEW x \in FirstBusy'
               PROVE  /\ first_monitor_resource_status' = First!BusyBy(x)
                      /\ \A y \in FirstBusy' : y = x
    BY DEF FirstAlone, First!BusyBy
  <2>1. FirstBusy \ {t} = {}
    BY <1>1, FirstLeavesNobody
  <2>2. \A y \in FirstBusy' : y \in S /\ y \in Readers /\ first_monitor_pc[y] = "asleep"
    BY <1>0, <1>1, <2>1
  <2>3. \A y \in FirstBusy' : y \in clients \cap Readers
    <3>1. \A y \in S : first_monitor_pc[y] # "out" => y \in clients
      BY <1>0 DEF FirstInv, FirstTyped
    <3> QED BY <2>2, <3>1
  <2>4. \A y \in FirstBusy' : y = x
    BY <1>1, <2>3
  <2> QED BY <1>2, <2>2, <2>4 DEF First!BusyBy
<1> QED BY <1>3, <1>4, <1>5, <1>6 DEF FirstInv

\* The writer that came last goes next.
LEMMA FirstLetsWriter ==
    ASSUME FirstInv, NEW t \in clients, First!Release(t), First!ReleaseToWriter(t)
    PROVE  FirstInv'
<1>a. PICK x, w : x = Head(writer_wait_q) /\ w = writer_wait_q'
  OBVIOUS
<1>0. /\ x \in Listed(writer_wait_q) /\ x \in Writers /\ x \in First!Users /\ x \notin Readers
      /\ {x} \in SUBSET First!Users /\ First!Wake({x}, t)
      /\ w \in Seq(Writers) /\ OnceEach(w) /\ Listed(w) = Listed(writer_wait_q) \ {x}
      /\ Listed(reader_wait_q) = {}
      /\ Listed(writer_wait_q) \in SUBSET First!Users
  <2>1. /\ writer_wait_q # <<>> /\ writer_wait_q \in Seq(Writers) /\ OnceEach(writer_wait_q)
        /\ w = Tail(writer_wait_q) /\ First!Wake({x}, t) /\ reader_wait_q = <<>>
    BY <1>a DEF First!ReleaseToWriter, FirstInv, FirstTyped, FirstListed
  <2>2. /\ Head(writer_wait_q) \in Listed(writer_wait_q)
        /\ \E v : /\ v = Tail(writer_wait_q)
                  /\ v \in Seq(Writers) /\ OnceEach(v)
                  /\ Listed(v) = Listed(writer_wait_q) \ {Head(writer_wait_q)}
    BY <2>1, LeavesFirst
  <2>3. Listed(reader_wait_q) = {}
    <3>1. DOMAIN <<>> = {}
      OBVIOUS
    <3> QED BY <2>1, <3>1 DEF Listed
  <2>4. Listed(writer_wait_q) \in SUBSET Writers
    BY FirstOnLists DEF FirstInv
  <2> QED BY <1>a, <2>1, <2>2, <2>3, <2>4, FirstKinds
<1>1. /\ t \in First!Users /\ UNCHANGED <<clients, first_monitor_disturbed>>
      /\ first_monitor_pc' \in [First!Users -> {"out", "asleep", "woken", "in"}]
      /\ first_monitor_pc'[t] = "out" /\ first_monitor_pc[t] = "in"
      /\ \A u \in First!Users \ {t} :
             first_monitor_pc'[u] = IF u = x /\ first_monitor_pc[u] = "asleep"
                                    THEN "woken" ELSE first_monitor_pc[u]
      /\ using_q' \in SUBSET First!In'
      /\ \A u \in First!Users : first_monitor_pc'[u] # "out" => u \in clients
      /\ FirstBusy' \subseteq (FirstBusy \ {t}) \cup {x}
      /\ t \in FirstBusy /\ t \notin Listed(writer_wait_q)
  BY <1>0, FirstReleases
<1>2. /\ UNCHANGED reader_wait_q /\ first_monitor_resource_status' = "busy_by_writer"
  BY DEF First!ReleaseToWriter
<1>3. FirstTyped'
  BY <1>0, <1>1, <1>2, <1>a DEF FirstInv, FirstTyped, First!Statuses
<1>4. FirstListed'
  <2>1. Listed(reader_wait_q') = {} /\ OnceEach(reader_wait_q')
    BY <1>0, <1>2 DEF FirstInv, FirstListed
  <2>2. OnceEach(writer_wait_q') /\ Listed(writer_wait_q') = Listed(writer_wait_q) \ {x}
    BY <1>0, <1>a
  <2>3. \A u \in Readers : first_monitor_pc'[u] # "asleep"
    BY <1>0, <1>1, FirstKinds DEF FirstInv, FirstListed
  <2>4. \A u \in Listed(writer_wait_q) \ {x} : first_monitor_pc'[u] = first_monitor_pc[u]
    BY <1>0, <1>1
  <2>5. \A u \in Writers :
            first_monitor_pc'[u] = "asleep" => u \in Listed(writer_wait_q) \ {x}
    BY <1>0, <1>1, FirstKinds DEF FirstInv, FirstListed
  <2> QED BY <1>1, <2>1, <2>2, <2>3, <2>4, <2>5 DEF FirstInv, FirstListed
<1>5. FirstHeld'
  <2>1. x # t /\ first_monitor_pc[x] \in {"asleep", "woken"}
    BY <1>0, <1>1 DEF FirstInv, FirstListed
  <2>2. x \in FirstBusy'
    BY <1>0, <1>1, <2>1 DEF FirstBusy
  <2> QED BY <2>2 DEF FirstHeld
<1>6. FirstAlone'
  <2> SUFFICES ASSUME ~first_monitor_disturbed', \A r, s \in clients' \cap Readers : r = s
               PROVE  \A y \in FirstBusy' : /\ first_monitor_resource_status' = First!BusyBy(y)
                                            /\ \A z \in FirstBusy' : z = y
    BY DEF FirstAlone, First!BusyBy
  <2>1. FirstBusy \ {t} = {}
    BY <1>1, FirstLeavesNobody
  <2>2. \A y \in FirstBusy' : y = x
    BY <1>1, <2>1
  <2> QED BY <1>0, <1>2, <2>2 DEF First!BusyBy
<1> QED BY <1>3, <1>4, <1>5, <1>6 DEF FirstInv

LEMMA FirstKeeps == FirstInv /\ [First!Next]_First!vars => FirstInv'
<1> SUFFICES ASSUME FirstInv, [First!Next]_First!vars PROVE FirstInv'
  OBVIOUS
<1>1. CASE UNCHANGED First!vars
  BY <1>1 DEF First!vars, FirstInv, FirstTyped, FirstListed, FirstHeld, FirstAlone,
              FirstBusy, First!In, First!BusyBy
<1>2. ASSUME NEW t \in First!Users, First!Step(t)
      PROVE  FirstInv'
  <2>1. t \in clients /\ (First!Grant(t) \/ First!Wait(t) \/ First!Resume(t) \/ First!Release(t))
    BY <1>2 DEF First!Step
  <2>2. CASE First!Release(t)
    BY <2>1, <2>2, FirstReleasesOnly, FirstLetsReaders, FirstLetsWriter DEF First!Release
  <2> QED BY <2>1, <2>2, FirstGrants, FirstWaits, FirstResumes
<1> QED BY <1>1, <1>2, FirstSpurious DEF First!Next

LEMMA FirstAlways == SyncSpec => []FirstInv
<1>1. First!Spec => []FirstInv
  BY FirstStarts, FirstKeeps, PTL DEF First!Spec
<1> QED BY <1>1, FirstRuns, PTL

LEMMA FirstSameCardinality ==
    ASSUME NEW S
    PROVE  First!Cardinality(S) = Cardinality(S)
BY DEF First!Cardinality, Cardinality

LEMMA FirstIsTyped == FirstInv => First!TypeOK
<1> SUFFICES ASSUME FirstInv PROVE First!TypeOK
  OBVIOUS
<1>1. /\ First!Set(reader_wait_q) = Listed(reader_wait_q)
      /\ First!Set(writer_wait_q) = Listed(writer_wait_q)
      /\ Listed(reader_wait_q) \subseteq Readers /\ Listed(writer_wait_q) \subseteq Writers
  BY FirstOnLists DEF FirstInv
<1>2. /\ Cardinality(Listed(reader_wait_q)) = Len(reader_wait_q)
      /\ Cardinality(Listed(writer_wait_q)) = Len(writer_wait_q)
  <2>1. /\ reader_wait_q \in Seq(Readers) /\ OnceEach(reader_wait_q)
        /\ writer_wait_q \in Seq(Writers) /\ OnceEach(writer_wait_q)
    BY DEF FirstInv, FirstTyped, FirstListed
  <2> QED BY <2>1, ListSize
<1>3. using_q \subseteq clients
  BY DEF FirstInv, FirstTyped, First!In
<1> QED BY <1>1, <1>2, <1>3, FirstSameCardinality DEF FirstInv, FirstTyped, First!TypeOK

\* With one reader at most, nobody shares the resource.
LEMMA FirstExcludes == FirstInv => First!Exclusive
<1> SUFFICES ASSUME FirstInv, ~first_monitor_disturbed, Cardinality(clients \cap Readers) <= 1
             PROVE  First!In \subseteq Readers \/ Cardinality(First!In) = 1
  BY FirstSameCardinality DEF First!Exclusive
<1>1. \A r, s \in clients \cap Readers : r = s
  <2> SUFFICES ASSUME NEW r \in clients \cap Readers, NEW s \in clients \cap Readers, r # s
               PROVE  FALSE
    OBVIOUS
  <2>1. IsFiniteSet(clients \cap Readers)
    BY LockUsersAssumption, FS_Subset
  <2>2. {r, s} \subseteq clients \cap Readers
    OBVIOUS
  <2>3. Cardinality({r, s}) <= Cardinality(clients \cap Readers) /\ IsFiniteSet({r, s})
    BY <2>1, <2>2, FS_Subset
  <2>4. Cardinality({r}) = 1 /\ IsFiniteSet({r})
    BY FS_Singleton
  <2>5. {r} \cup {s} = {r, s} /\ s \notin {r}
    OBVIOUS
  <2>6. Cardinality({r} \cup {s}) = Cardinality({r}) + 1
    BY <2>4, <2>5, FS_AddElement
  <2>7. Cardinality(clients \cap Readers) \in Nat
    BY <2>1, FS_CardinalityType
  <2> QED BY <2>3, <2>4, <2>5, <2>6, <2>7
<1>2. CASE First!In = {}
  BY <1>2
<1>3. ASSUME NEW t \in First!In
      PROVE  Cardinality(First!In) = 1
  <2>1. First!In = {t}
    BY <1>1, <1>3 DEF FirstInv, FirstAlone, FirstBusy, First!In
  <2> QED BY <2>1, FS_Singleton
<1> QED BY <1>2, <1>3

\* Somebody is there to wake who sleeps, and the lists are exact.
LEMMA FirstWakeup == FirstInv => First!NoLostWakeup /\ First!ListsExact
<1> SUFFICES ASSUME FirstInv PROVE First!NoLostWakeup /\ First!ListsExact
  OBVIOUS
<1>1. First!ListsExact
  <2>1. /\ First!Set(reader_wait_q) = Listed(reader_wait_q)
        /\ First!Set(writer_wait_q) = Listed(writer_wait_q)
        /\ Listed(reader_wait_q) \subseteq Readers /\ Listed(writer_wait_q) \subseteq Writers
    BY FirstOnLists DEF FirstInv
  <2> QED BY <2>1, FirstKinds DEF FirstInv, FirstTyped, FirstListed, First!ListsExact
<1>2. First!NoLostWakeup
  BY DEF FirstInv, FirstHeld, FirstBusy, First!NoLostWakeup
<1> QED BY <1>1, <1>2

-----------------------------------------------------------------------------
(* The monitor under strict alternation: what is proved of the monitor for *)
(* all its parameters, with the parameters it has here                     *)

StrictProved == INSTANCE Monitor_proofs
    WITH Readers <- StrictReaders, Writers <- StrictWriters,
         n_readers_max_limit <- 1, n_writers_max_limit <- 1,
         strict_alternation <- TRUE, ShutsDown <- FALSE,
         Rounds <- StrictRounds,
         resource_status <- strict_monitor_resource_status,
         thread_wait_count <- strict_monitor_thread_wait_count,
         pc <- strict_monitor_pc

LEMMA StrictAssumptions ==
    /\ StrictProved!ThreadsAssumption /\ StrictProved!LimitsAssumption
    /\ StrictProved!ClientAssumption
BY StrictClientsAssumption
   DEF StrictProved!ThreadsAssumption, StrictProved!LimitsAssumption,
       StrictProved!ClientAssumption, StrictProved!Threads, IsFiniteSet,
       StrictProved!IsFiniteSet

\* The two instances of the monitor have the same names for the same things.
LEMMA StrictMoves ==
    ASSUME NEW t
    PROVE  Strict!Step(t) <=> StrictProved!Step(t)
<1>1. Strict!Request(t) <=> StrictProved!Request(t)
  BY DEF Strict!Request, StrictProved!Request, Strict!Goes, StrictProved!Goes,
         Strict!resource, StrictProved!resource, Strict!queues, StrictProved!queues,
         Strict!flags, StrictProved!flags
<1>2. Strict!Enter(t) <=> StrictProved!Enter(t)
  BY DEF Strict!Enter, StrictProved!Enter, Strict!Granted, StrictProved!Granted,
         Strict!Goes, StrictProved!Goes, Strict!Available, StrictProved!Available,
         Strict!kind, StrictProved!kind, Strict!max_limit, StrictProved!max_limit,
         Strict!queues, StrictProved!queues, Strict!flags, StrictProved!flags
<1>3. Strict!Wait(t) <=> StrictProved!Wait(t)
  BY DEF Strict!Wait, StrictProved!Wait, Strict!Goes, StrictProved!Goes, Strict!Available,
         StrictProved!Available, Strict!kind, StrictProved!kind, Strict!max_limit,
         StrictProved!max_limit, Strict!resource, StrictProved!resource, Strict!flags,
         StrictProved!flags
<1>4. Strict!WakeEnter(t) <=> StrictProved!WakeEnter(t)
  BY DEF Strict!WakeEnter, StrictProved!WakeEnter, Strict!Granted, StrictProved!Granted,
         Strict!Goes, StrictProved!Goes, Strict!Available, StrictProved!Available,
         Strict!Without, StrictProved!Without, Strict!kind, StrictProved!kind,
         Strict!max_limit, StrictProved!max_limit, Strict!flags, StrictProved!flags
<1>5. Strict!WakeWait(t) <=> StrictProved!WakeWait(t)
  BY DEF Strict!WakeWait, StrictProved!WakeWait, Strict!Goes, StrictProved!Goes,
         Strict!Available, StrictProved!Available, Strict!Without, StrictProved!Without,
         Strict!kind, StrictProved!kind, Strict!max_limit, StrictProved!max_limit,
         Strict!resource, StrictProved!resource, Strict!flags, StrictProved!flags
<1>6. Strict!Release(t) <=> StrictProved!Release(t)
  BY DEF Strict!Release, StrictProved!Release, Strict!Uses, StrictProved!Uses,
         Strict!NobodyWaits, StrictProved!NobodyWaits,
         Strict!WokenBy, StrictProved!WokenBy, Strict!Signalled, StrictProved!Signalled,
         Strict!Broadcast, StrictProved!Broadcast, Strict!Threads, StrictProved!Threads,
         Strict!Kinds, StrictProved!Kinds, Strict!kind, StrictProved!kind, Strict!other,
         StrictProved!other, Strict!queues, StrictProved!queues
<1>7. Strict!Leave(t) <=> StrictProved!Leave(t)
  BY DEF Strict!Leave, StrictProved!Leave, Strict!Goes, StrictProved!Goes, Strict!resource,
         StrictProved!resource, Strict!queues, StrictProved!queues
<1>8. Strict!ReleaseFails(t) <=> StrictProved!ReleaseFails(t)
  BY DEF Strict!ReleaseFails, StrictProved!ReleaseFails, Strict!Uses, StrictProved!Uses,
         Strict!Goes, StrictProved!Goes, Strict!kind, StrictProved!kind, Strict!resource,
         StrictProved!resource, Strict!queues, StrictProved!queues, Strict!flags,
         StrictProved!flags
<1> QED BY <1>1, <1>2, <1>3, <1>4, <1>5, <1>6, <1>7, <1>8 DEF Strict!Step, StrictProved!Step

LEMMA StrictRuns == SyncSpec => StrictProved!Spec
<1>1. SyncInit => StrictProved!Init
  BY DEF SyncInit, Strict!Init, StrictProved!Init, Strict!Threads, StrictProved!Threads,
         Strict!Kinds, StrictProved!Kinds
<1>2. [SyncNext]_syncVars => [StrictProved!Next]_StrictProved!vars
  <2>1. [SyncNext]_syncVars => [Strict!Next]_Strict!vars
    BY DEF SyncNext, syncVars, varsStrict, Strict!vars, Strict!resource, Strict!queues,
           Strict!flags, OthersBarrier, OthersSem, OthersPair, OthersPause, OthersQueue,
           OthersLight, OthersBiased, OthersTurn, OthersCentre, OthersFirst, OthersDining,
           OthersRing
  <2>2. Strict!vars = StrictProved!vars /\ Strict!vars' = StrictProved!vars'
        /\ Strict!Threads = StrictProved!Threads
    BY DEF Strict!vars, StrictProved!vars, Strict!resource, StrictProved!resource,
           Strict!queues, StrictProved!queues, Strict!flags, StrictProved!flags,
           Strict!Threads, StrictProved!Threads
  <2>3. Strict!Next => StrictProved!Next
    <3>1. ASSUME NEW t PROVE Strict!SpuriousWakeup(t) <=> StrictProved!SpuriousWakeup(t)
      BY DEF Strict!SpuriousWakeup, StrictProved!SpuriousWakeup, Strict!Goes,
             StrictProved!Goes, Strict!resource, StrictProved!resource, Strict!queues,
             StrictProved!queues, Strict!flags, StrictProved!flags
    <3>2. Strict!ShutDown <=> StrictProved!ShutDown
      BY DEF Strict!ShutDown, StrictProved!ShutDown, Strict!resource,
             StrictProved!resource, Strict!queues, StrictProved!queues
    <3>3. Strict!Running <=> StrictProved!Running
      BY DEF Strict!Running, StrictProved!Running, Strict!Threads, StrictProved!Threads
    <3>4. Strict!Finished <=> StrictProved!Finished
      BY <3>3 DEF Strict!Finished, StrictProved!Finished, Strict!Done, StrictProved!Done,
             Strict!OwnTurnOver, StrictProved!OwnTurnOver, Strict!vars, StrictProved!vars,
             Strict!resource, StrictProved!resource, Strict!queues, StrictProved!queues,
             Strict!flags, StrictProved!flags, Strict!Threads, StrictProved!Threads,
             Strict!kind, StrictProved!kind
    <3>5. CASE Strict!Running /\ \E t \in Strict!Threads : Strict!Step(t)
      <4>1. PICK t \in StrictProved!Threads : Strict!Running /\ Strict!Step(t)
        BY <2>2, <3>5
      <4> QED BY <3>3, <4>1, StrictMoves DEF StrictProved!Next
    <3>6. CASE Strict!Running /\ \E t \in Strict!Threads : Strict!SpuriousWakeup(t)
      <4>1. PICK t \in StrictProved!Threads : Strict!Running /\ Strict!SpuriousWakeup(t)
        BY <2>2, <3>6
      <4> QED BY <3>1, <3>3, <4>1 DEF StrictProved!Next
    <3>7. CASE (Strict!Running /\ Strict!ShutDown) \/ Strict!Finished
      BY <3>2, <3>4, <3>7, <3>3 DEF StrictProved!Next
    <3> QED BY <3>5, <3>6, <3>7 DEF Strict!Next
  <2> QED BY <2>1, <2>2, <2>3
<1> QED BY <1>1, <1>2, PTL DEF SyncSpec, StrictProved!Spec

\* What is said of the one is said of the other.
LEMMA StrictSays ==
    /\ Strict!TypeOK <=> StrictProved!TypeOK
    /\ Strict!MonitorSound <=> StrictProved!MonitorSound
BY DEF Strict!TypeOK, StrictProved!TypeOK, Strict!MonitorSound, StrictProved!MonitorSound,
       Strict!monitor_sanity_check, StrictProved!monitor_sanity_check,
       Strict!BookkeepingExact, StrictProved!BookkeepingExact, Strict!NoLostWakeup,
       StrictProved!NoLostWakeup, Strict!Users, StrictProved!Users, Strict!Waiters,
       StrictProved!Waiters, Strict!Available, StrictProved!Available, Strict!Threads,
       StrictProved!Threads, Strict!Kinds, StrictProved!Kinds, Strict!PCs,
       StrictProved!PCs, Strict!kind, StrictProved!kind, Strict!max_limit,
       StrictProved!max_limit, Strict!Cardinality, StrictProved!Cardinality

LEMMA StrictIsTyped == SyncSpec => []Strict!TypeOK
<1>1. StrictProved!Spec => []StrictProved!TypeOK
  BY StrictAssumptions, StrictProved!TypeCorrect DEF StrictProved!TypeCorrect
<1>2. StrictProved!TypeOK => Strict!TypeOK
  BY StrictSays
<1> QED BY <1>1, <1>2, StrictRuns, PTL

\* One reader and one writer take turns, and neither sleeps past its turn.
LEMMA StrictTakesTurns ==
    ASSUME NEW r, NEW w, StrictReaders = {r}, StrictWriters = {w}
    PROVE  SyncSpec => []Strict!MonitorSound
<1>1. \A t, u \in StrictProved!Threads : StrictProved!kind(t) = StrictProved!kind(u) => t = u
  BY DEF StrictProved!Threads, StrictProved!kind
<1>2. StrictProved!Spec => []StrictProved!MonitorSound
  BY <1>1, StrictAssumptions, StrictProved!SoundInTurns DEF StrictProved!SoundInTurns
<1>3. StrictProved!MonitorSound => Strict!MonitorSound
  BY StrictSays
<1> QED BY <1>2, <1>3, StrictRuns, PTL

-----------------------------------------------------------------------------
(* All components together                                                 *)

\* The barrier of MC_Sync runs as the barrier alone, about which the first theorems are.
LEMMA BarrierRuns == SyncSpec => Spec
<1>1. SyncInit => Init
  BY DEF SyncInit
<1>2. [SyncNext]_syncVars => [Next]_vars
  BY DEF SyncNext, syncVars, OthersSem, OthersPair, OthersPause, OthersQueue, OthersLight,
         OthersStrict, OthersBiased, OthersTurn, OthersCentre, OthersFirst, OthersDining,
         OthersRing
<1> QED BY <1>1, <1>2, PTL DEF SyncSpec, Spec

\* Every component's variables keep to their types and bounds: the counters of
\* threads that wait or hold a lock, and the lists that the code keeps of them, are
\* never larger than there are threads.
THEOREM SyncIsTyped == SyncSpec => []SyncTypeOK
<1>1. SemInv /\ PauseInv /\ LightInv /\ DiningInv /\ RingInv /\ CentreInv /\ FirstInv =>
          /\ Sem!TypeOK /\ Pause!TypeOK /\ Light!TypeOK /\ Dining!TypeOK /\ Ring!TypeOK
          /\ Centre!TypeOK /\ First!TypeOK
  BY SemIsTyped, RingIsTyped, CentreKeepsRoom, FirstIsTyped DEF PauseInv, LightInv, DiningInv
<1>2. /\ SyncSpec => []Pair!TypeOK /\ []Queue!TypeOK /\ []Biased!TypeOK /\ []Turn!TypeOK
      /\ SyncSpec => []Strict!TypeOK
  BY PairTypeCorrect, QueueTypeCorrect, BiasedTypeCorrect, TurnTypeCorrect, StrictIsTyped
<1>3. SyncSpec => []TypeOK
  BY BarrierRuns, TypeCorrect, PTL
<1> QED BY <1>1, <1>2, <1>3, SemAlways, PauseAlways, LightAlways, DiningAlways, RingAlways,
           CentreAlways, FirstAlways, PTL DEF SyncTypeOK

\* Who goes on does so by right, in each component: the permits of
\* sema_post go to the waiters it signals, and no more threads use the resource than
\* there are permits; a response answers its request; the caller of thread_pause goes
\* on when the worker has stopped; one direction of cars writes the log; asserts and
\* checks of the locks hold, and assert(0) is met in a biased lock only; the
\* vaccination centre counts who is in, and has room for them; the first monitor
\* excludes while there is one reader; a philosopher eats with two spoons; the
\* consumers take the numbers in the order in which the producers made them.
THEOREM GoesByRight == SyncSpec => []RightOfWay
<1>1. SemInv => Sem!PermitsConserved /\ Sem!Limited /\ Sem!Alternates
  BY SemConserves, SemLimits
<1>2. PauseInv /\ LightInv /\ DiningInv =>
          Pause!StoppedWhenTold /\ Pause!LastCommandHolds /\ Light!LogExclusive
              /\ Dining!EatsWithBoth
  BY LightLog DEF PauseInv, DiningInv
<1>3. CentreInv /\ FirstInv => Centre!RoomKept /\ First!Exclusive
  BY CentreKeepsRoom, FirstExcludes
<1>4. RingInv => Ring!AssertsHold /\ Ring!FirstInFirstOut
  BY RingFIFO DEF RingInv, RingTurns
<1> QED BY <1>1, <1>2, <1>3, <1>4, SemAlways, PauseAlways, LightAlways, DiningAlways,
           RingAlways, CentreAlways, FirstAlways, PairHandsOver, BiasedRightOfWay,
           TurnRightOfWay, PTL DEF RightOfWay

\* Nobody sleeps without somebody who will end it, where threads of any number wait:
\* in the wait queues, at the traffic light, in the biased and the turn-taking lock,
\* in the vaccination centre, in the first monitor and at the philosophers' table,
\* where they block each other in a full ring only.
THEOREM WaitersAreReached ==
    SyncSpec => [](/\ Queue!QueueExact /\ Queue!NoLostWakeup /\ Queue!MutexThere
               /\ Light!NoLostWakeup
               /\ Biased!NoLostWakeup
               /\ Turn!NoLostWakeup /\ Turn!DoorsReopen
               /\ Centre!ListsExact /\ Centre!ListedAreWoken
               /\ First!NoLostWakeup /\ First!ListsExact
               /\ Dining!NoLostWakeup /\ Dining!BlockedInRingOnly)
<1>1. LightInv => Light!NoLostWakeup
  BY DEF LightInv, Light!NoLostWakeup
<1>2. CentreInv => Centre!ListsExact /\ Centre!ListedAreWoken
  BY CentreKeepsRoom, CentreWakeup
<1>3. FirstInv => First!NoLostWakeup /\ First!ListsExact
  BY FirstWakeup
<1>4. DiningInv => Dining!NoLostWakeup /\ Dining!BlockedInRingOnly
  BY DiningBlocked DEF DiningInv
<1> QED BY <1>1, <1>2, <1>3, <1>4, LightAlways, CentreAlways, FirstAlways, DiningAlways,
           QueueIsExact, QueueWakeup, BiasedWakeup, TurnWakeup, PTL

\* With one reader and one writer at the monitor that alternates strictly, as in the
\* program that asks for it, no wake-up is lost there either.  (With more threads of a
\* kind a release may signal one of the kind whose turn is over.)
THEOREM NoWakeupIsLost ==
    ASSUME NEW r, NEW w, StrictReaders = {r}, StrictWriters = {w}
    PROVE  SyncSpec => []SyncNoLostWakeup
<1>1. SyncSpec => []Strict!MonitorSound
  BY StrictTakesTurns
<1> QED BY <1>1, WaitersAreReached, PTL DEF SyncNoLostWakeup
=============================================================================
