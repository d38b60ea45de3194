----------------------------- MODULE Data_proofs -----------------------------
(***************************************************************************)
(* Proofs about what threads hand on and share: the components of MC_Data, *)
(* for any objects, threads and nodes and any bounds; and, before them,    *)
(* about the readers-writers lock of rw_locks.c, for any finite set of     *)
(* threads, any nesting depth and any number of rounds.                    *)
(***************************************************************************)
EXTENDS MC_Data, Lists_proofs

-----------------------------------------------------------------------------
(* The readers-writers lock *)

\* A thread in a wait loop holds nothing; the flags say which kind of lock is
\* held, and by whom if it is a write lock.
Holders ==
    /\ asleep \cap woken = {}
    /\ \A t \in asleep \cup woken : depth[t] = 0 /\ mode[t] # "none"
    /\ \A t \in LockThreads :
           /\ mode[t] = "none" => depth[t] = 0
           /\ depth[t] > 0 => /\ is_locked_by_reader <=> mode[t] = "read"
                              /\ is_locked_by_writer <=> mode[t] = "write"

IInv ==
    /\ TypeOK /\ Holders /\ AssertsHold
    /\ LocksCounted /\ WaitersCounted /\ NoLostWakeup

-----------------------------------------------------------------------------
(* Counting locks *)

LEMMA TokensFinite ==
    IsFiniteSet(Tokens) /\ Cardinality(Tokens) \in Nat
<1>1. IsFiniteSet(1..MaxDepth)
  BY BoundsAssumption, FS_Interval
<1>2. IsFiniteSet(LockThreads \X (1..MaxDepth))
  BY <1>1, ThreadsAssumption, FS_Product
<1>3. Tokens \in SUBSET (LockThreads \X (1..MaxDepth))
  BY DEF Tokens
<1>4. IsFiniteSet(Tokens)
  BY <1>2, <1>3, FS_Subset
<1> QED BY <1>4, FS_CardinalityType

\* One more lock of a thread is one more token.
LEMMA TokensGet ==
    ASSUME TypeOK, NEW t \in LockThreads, depth[t] < MaxDepth, Gets(t)
    PROVE  Cardinality(Tokens') = Cardinality(Tokens) + 1
<1> DEFINE k == <<t, depth[t] + 1>>
<1> USE BoundsAssumption DEF TypeOK
<1>1. k \in LockThreads \X (1..MaxDepth) /\ k \notin Tokens
  BY DEF Tokens
<1>2. Tokens' = Tokens \cup {k}
  <2>1. ASSUME NEW u \in LockThreads, NEW i \in 1..MaxDepth
        PROVE  <<u, i>> \in Tokens' <=> <<u, i>> \in Tokens \cup {k}
    BY <2>1 DEF Tokens, Gets
  <2>2. Tokens' \subseteq LockThreads \X (1..MaxDepth)
    BY DEF Tokens
  <2>3. Tokens \cup {k} \subseteq LockThreads \X (1..MaxDepth)
    BY <1>1 DEF Tokens
  <2> HIDE DEF k
  <2> QED BY <2>1, <2>2, <2>3
<1> QED BY <1>1, <1>2, TokensFinite, FS_AddElement

\* One lock less is one token less.
LEMMA TokensGiveBack ==
    ASSUME TypeOK, NEW t \in LockThreads, GivesBack(t)
    PROVE  Cardinality(Tokens') = Cardinality(Tokens) - 1
<1> DEFINE k == <<t, depth[t]>>
<1> USE BoundsAssumption DEF TypeOK
<1>1. k \in LockThreads \X (1..MaxDepth) /\ k \in Tokens
  BY DEF Tokens, GivesBack
<1>2. Tokens' = Tokens \ {k}
  <2>1. ASSUME NEW u \in LockThreads, NEW i \in 1..MaxDepth
        PROVE  <<u, i>> \in Tokens' <=> <<u, i>> \in Tokens \ {k}
    BY <2>1 DEF Tokens, GivesBack
  <2>2. Tokens' \subseteq LockThreads \X (1..MaxDepth)
    BY DEF Tokens
  <2>3. Tokens \ {k} \subseteq LockThreads \X (1..MaxDepth)
    BY DEF Tokens
  <2> HIDE DEF k
  <2> QED BY <2>1, <2>2, <2>3
<1> QED BY <1>1, <1>2, TokensFinite, FS_RemoveElement

LEMMA TokensSame ==
    ASSUME UNCHANGED depth
    PROVE  Tokens' = Tokens
BY DEF Tokens

\* No token, no holder.
LEMMA NoTokens ==
    ASSUME TypeOK', Cardinality(Tokens') = 0
    PROVE  \A t \in LockThreads : depth'[t] = 0
<1> USE BoundsAssumption DEF TypeOK
<1>1. IsFiniteSet(Tokens')
  <2>0. IsFiniteSet(1..MaxDepth)
    BY FS_Interval
  <2>1. IsFiniteSet(LockThreads \X (1..MaxDepth))
    BY <2>0, ThreadsAssumption, FS_Product
  <2>2. Tokens' \in SUBSET (LockThreads \X (1..MaxDepth))
    BY DEF Tokens
  <2> QED BY <2>1, <2>2, FS_Subset
<1>2. Tokens' = {}
  BY <1>1, FS_EmptySet
<1>3. ASSUME NEW t \in LockThreads, depth'[t] # 0 PROVE FALSE
  <2>1. <<t, depth'[t]>> \in LockThreads \X (1..MaxDepth)
    BY <1>3
  <2>2. <<t, depth'[t]>> \in Tokens'
    BY <2>1 DEF Tokens
  <2> QED BY <1>2, <2>2
<1> QED BY <1>3

-----------------------------------------------------------------------------
(* Counting the threads of the wait loops *)

LEMMA LoopSize ==
    ASSUME NEW S \in SUBSET LockThreads
    PROVE  /\ Cardinality(S) \in 0..Cardinality(LockThreads)
           /\ Cardinality(LockThreads) \in Nat
           /\ \A t \in LockThreads :
                  /\ t \notin S => Cardinality(S \cup {t}) = Cardinality(S) + 1
                  /\ t \in S => Cardinality(S \ {t}) = Cardinality(S) - 1
<1>1. IsFiniteSet(S) /\ Cardinality(S) <= Cardinality(LockThreads)
  BY ThreadsAssumption, FS_Subset
<1>2. Cardinality(S) \in Nat /\ Cardinality(LockThreads) \in Nat
  BY <1>1, ThreadsAssumption, FS_CardinalityType
<1> QED BY <1>1, <1>2, FS_AddElement, FS_RemoveElement

LEMMA LoopsInThreads ==
    ASSUME TypeOK, NEW kind
    PROVE  WaitLoop(kind) \in SUBSET LockThreads
BY DEF TypeOK, WaitLoop

\* A thread that enters a wait loop is counted once, in the counter of its kind.
LEMMA LoopEnter ==
    ASSUME IInv, NEW t \in LockThreads, RdWait(t) \/ WrWait(t)
    PROVE  WaitersCounted' /\ n_reader_waiting' \in 0..Cardinality(LockThreads)
                           /\ n_writer_waiting' \in 0..Cardinality(LockThreads)
<1>0. mode[t] = "none" /\ t \notin asleep \cup woken
  BY DEF RdWait, WrWait, Asks, IInv, Holders
<1>1. CASE RdWait(t)
  <2>1. /\ WaitLoop("read")' = WaitLoop("read") \cup {t}
        /\ WaitLoop("write")' = WaitLoop("write")
        /\ t \notin WaitLoop("read")
    BY <1>0, <1>1 DEF RdWait, Asks, WaitLoop, IInv, TypeOK
  <2>2. WaitLoop("read") \in SUBSET LockThreads /\ WaitLoop("read") \cup {t} \in SUBSET LockThreads
    BY LoopsInThreads DEF IInv
  <2>3. Cardinality(WaitLoop("read")') = n_reader_waiting + 1
    BY <2>1, <2>2, LoopSize DEF IInv, WaitersCounted
  <2>4. Cardinality(WaitLoop("read")') \in 0..Cardinality(LockThreads)
    BY <2>1, <2>2, LoopSize
  <2> QED BY <1>1, <2>1, <2>3, <2>4 DEF RdWait, WaitersCounted, IInv, TypeOK
<1>2. CASE WrWait(t)
  <2>1. /\ WaitLoop("write")' = WaitLoop("write") \cup {t}
        /\ WaitLoop("read")' = WaitLoop("read")
        /\ t \notin WaitLoop("write")
    BY <1>0, <1>2 DEF WrWait, Asks, WaitLoop, IInv, TypeOK
  <2>2. WaitLoop("write") \in SUBSET LockThreads /\ WaitLoop("write") \cup {t} \in SUBSET LockThreads
    BY LoopsInThreads DEF IInv
  <2>3. Cardinality(WaitLoop("write")') = n_writer_waiting + 1
    BY <2>1, <2>2, LoopSize DEF IInv, WaitersCounted
  <2>4. Cardinality(WaitLoop("write")') \in 0..Cardinality(LockThreads)
    BY <2>1, <2>2, LoopSize
  <2> QED BY <1>2, <2>1, <2>3, <2>4 DEF WrWait, WaitersCounted, IInv, TypeOK
<1> QED BY <1>1, <1>2

LEMMA LoopLeave ==
    ASSUME IInv, NEW t \in LockThreads, RdWakeAcquire(t) \/ WrWakeAcquire(t)
    PROVE  WaitersCounted' /\ n_reader_waiting' \in 0..Cardinality(LockThreads)
                           /\ n_writer_waiting' \in 0..Cardinality(LockThreads)
<1>1. CASE RdWakeAcquire(t)
  <2>1. /\ WaitLoop("read")' = WaitLoop("read") \ {t}
        /\ WaitLoop("write")' = WaitLoop("write")
        /\ t \in WaitLoop("read")
    BY <1>1 DEF RdWakeAcquire, WaitLoop, IInv, TypeOK, Holders
  <2>2. WaitLoop("read") \in SUBSET LockThreads /\ WaitLoop("read") \ {t} \in SUBSET LockThreads
    BY LoopsInThreads DEF IInv
  <2>3. Cardinality(WaitLoop("read")') = n_reader_waiting - 1
    BY <2>1, <2>2, LoopSize DEF IInv, WaitersCounted
  <2>4. Cardinality(WaitLoop("read")') \in 0..Cardinality(LockThreads)
    BY <2>1, <2>2, LoopSize
  <2> QED BY <1>1, <2>1, <2>3, <2>4 DEF RdWakeAcquire, WaitersCounted, IInv, TypeOK
<1>2. CASE WrWakeAcquire(t)
  <2>1. /\ WaitLoop("write")' = WaitLoop("write") \ {t}
        /\ WaitLoop("read")' = WaitLoop("read")
        /\ t \in WaitLoop("write")
    BY <1>2 DEF WrWakeAcquire, WaitLoop, IInv, TypeOK, Holders
  <2>2. WaitLoop("write") \in SUBSET LockThreads /\ WaitLoop("write") \ {t} \in SUBSET LockThreads
    BY LoopsInThreads DEF IInv
  <2>3. Cardinality(WaitLoop("write")') = n_writer_waiting - 1
    BY <2>1, <2>2, LoopSize DEF IInv, WaitersCounted
  <2>4. Cardinality(WaitLoop("write")') \in 0..Cardinality(LockThreads)
    BY <2>1, <2>2, LoopSize
  <2> QED BY <1>2, <2>1, <2>3, <2>4 DEF WrWakeAcquire, WaitersCounted, IInv, TypeOK
<1> QED BY <1>1, <1>2

\* Steps that move nobody into or out of a wait loop.
LEMMA LoopSame ==
    ASSUME IInv, NEW t \in LockThreads,
           RdLock(t) \/ WrLock(t) \/ WakeWait(t) \/ SpuriousWakeup(t)
               \/ UnlockInner(t) \/ UnlockLast(t)
    PROVE  WaitersCounted'
<1>1. WaitLoop("read")' = WaitLoop("read") /\ WaitLoop("write")' = WaitLoop("write")
  <2>1. CASE RdLock(t) \/ WrLock(t)
    BY <2>1 DEF RdLock, WrLock, Asks, NestsLock, WaitLoop, IInv, TypeOK, Holders
  <2>2. CASE WakeWait(t) \/ SpuriousWakeup(t)
    BY <2>2 DEF WakeWait, SpuriousWakeup, client, WaitLoop
  <2>3. CASE UnlockInner(t) \/ UnlockLast(t)
    <3>1. t \notin asleep \cup woken
      BY <2>3 DEF UnlockInner, UnlockLast, GivesBack, IInv, TypeOK, Holders
    <3>2. (asleep \cup woken)' = asleep \cup woken
      BY <2>3 DEF UnlockInner, UnlockLast
    <3>3. \A u \in asleep \cup woken : mode'[u] = mode[u]
      BY <2>3, <3>1 DEF UnlockInner, UnlockLast, GivesBack, IInv, TypeOK
    <3> QED BY <3>2, <3>3 DEF WaitLoop
  <2> QED BY <2>1, <2>2, <2>3
<1>2. UNCHANGED waiters
  BY DEF RdLock, WrLock, WakeWait, SpuriousWakeup, UnlockInner, UnlockLast
<1> QED BY <1>1, <1>2 DEF waiters, IInv, WaitersCounted

-----------------------------------------------------------------------------
(* The invariant *)

LEMMA InitEstablishes == Init => IInv
<1> SUFFICES ASSUME Init PROVE IInv
  OBVIOUS
<1> USE ThreadsAssumption, BoundsAssumption
<1>1. Cardinality({}) = 0 /\ Cardinality(LockThreads) \in Nat
  BY FS_EmptySet, LoopSize
<1>2. TypeOK /\ Holders /\ AssertsHold /\ NoLostWakeup
  <2>1. TypeOK
    <3>1. 0 \in 0..Cardinality(LockThreads) /\ 0 \in 0..MaxDepth /\ Rounds \in 0..Rounds
      BY <1>1
    <3>2. /\ mode \in [LockThreads -> {"none", "read", "write"}]
          /\ depth \in [LockThreads -> 0..MaxDepth]
          /\ rounds \in [LockThreads -> 0..Rounds]
      BY <3>1 DEF Init
    <3> QED BY <3>1, <3>2 DEF Init, TypeOK
  <2>2. Holders /\ NoLostWakeup
    BY DEF Init, Holders, NoLostWakeup
  <2>3. AssertsHold
    BY DEF Init, AssertsHold
  <2> QED BY <2>1, <2>2, <2>3
<1>3. Tokens = {}
  BY DEF Init, Tokens
<1>4. WaitLoop("read") = {} /\ WaitLoop("write") = {}
  BY DEF Init, WaitLoop
<1> QED BY <1>1, <1>2, <1>3, <1>4 DEF Init, IInv, LocksCounted, WaitersCounted

\* A thread gets a lock: one more token, and the flags fit its kind.
LEMMA AcquireKeeps ==
    ASSUME IInv, NEW t \in LockThreads,
           RdLock(t) \/ WrLock(t) \/ RdWakeAcquire(t) \/ WrWakeAcquire(t)
    PROVE  IInv'
<1> USE ThreadsAssumption, BoundsAssumption DEF IInv
<1>1. depth[t] < MaxDepth /\ Gets(t) /\ n_locks' = n_locks + 1
  BY DEF RdLock, WrLock, RdWakeAcquire, WrWakeAcquire, Asks, NestsLock, TypeOK, Holders
<1>2. LocksCounted'
  BY <1>1, TokensGet DEF LocksCounted
<1>3. WaitersCounted' /\ n_reader_waiting' \in 0..Cardinality(LockThreads)
                      /\ n_writer_waiting' \in 0..Cardinality(LockThreads)
  <2>1. CASE RdLock(t) \/ WrLock(t)
    BY <2>1, LoopSame DEF RdLock, WrLock, waiters, TypeOK
  <2>2. CASE RdWakeAcquire(t) \/ WrWakeAcquire(t)
    BY <2>2, LoopLeave
  <2> QED BY <2>1, <2>2
<1>4. TypeOK'
  <2>1. CASE RdLock(t)
    BY <1>1, <1>3, <2>1 DEF RdLock, Asks, NestsLock, Gets, TypeOK
  <2>2. CASE WrLock(t)
    BY <1>1, <1>3, <2>2 DEF WrLock, Asks, NestsLock, Gets, TypeOK
  <2>3. CASE RdWakeAcquire(t)
    BY <1>1, <1>3, <2>3 DEF RdWakeAcquire, Gets, TypeOK
  <2>4. CASE WrWakeAcquire(t)
    BY <1>1, <1>3, <2>4 DEF WrWakeAcquire, Gets, TypeOK
  <2> QED BY <2>1, <2>2, <2>3, <2>4
<1>5. AssertsHold' /\ Holders' /\ NoLostWakeup'
  <2>1. CASE RdLock(t)
    BY <1>1, <2>1 DEF RdLock, Asks, NestsLock, Gets, TypeOK, AssertsHold, Holders, NoLostWakeup
  <2>2. CASE WrLock(t)
    BY <1>1, <2>2 DEF WrLock, Asks, NestsLock, Gets, TypeOK, AssertsHold, Holders, NoLostWakeup
  <2>3. CASE RdWakeAcquire(t)
    <3>1. is_locked_by_reader'
      BY <2>3 DEF RdWakeAcquire, AssertsHold, TypeOK
    <3>2. AssertsHold' /\ Holders'
      BY <1>1, <1>4, <2>3, <3>1 DEF RdWakeAcquire, Gets, TypeOK, AssertsHold, Holders
    <3>3. NoLostWakeup'
      BY <2>3, <3>1 DEF RdWakeAcquire, NoLostWakeup
    <3> QED BY <3>2, <3>3
  <2>4. CASE WrWakeAcquire(t)
    BY <1>1, <2>4 DEF WrWakeAcquire, Gets, TypeOK, AssertsHold, Holders, NoLostWakeup
  <2> QED BY <2>1, <2>2, <2>3, <2>4
<1> QED BY <1>2, <1>3, <1>4, <1>5

LEMMA SleepKeeps ==
    ASSUME IInv, NEW t \in LockThreads,
           RdWait(t) \/ WrWait(t) \/ WakeWait(t) \/ SpuriousWakeup(t)
    PROVE  IInv'
<1> USE ThreadsAssumption, BoundsAssumption DEF IInv
<1>1. LocksCounted'
  BY TokensSame DEF RdWait, WrWait, WakeWait, SpuriousWakeup, lock, client, LocksCounted
<1>2. CASE RdWait(t) \/ WrWait(t)
  <2>1. WaitersCounted' /\ n_reader_waiting' \in 0..Cardinality(LockThreads)
                        /\ n_writer_waiting' \in 0..Cardinality(LockThreads)
    BY <1>2, LoopEnter
  <2>2. TypeOK'
    BY <1>2, <2>1 DEF RdWait, WrWait, Asks, lock, TypeOK
  <2>3. AssertsHold' /\ Holders' /\ NoLostWakeup'
    BY <1>2 DEF RdWait, WrWait, Asks, lock, TypeOK, AssertsHold, Holders, NoLostWakeup
  <2> QED BY <1>1, <2>1, <2>2, <2>3
<1>3. CASE WakeWait(t) \/ SpuriousWakeup(t)
  <2>1. WaitersCounted'
    BY <1>3, LoopSame
  <2>2. TypeOK'
    BY <1>3 DEF WakeWait, SpuriousWakeup, lock, waiters, client, TypeOK
  <2>3. AssertsHold' /\ Holders' /\ NoLostWakeup'
    BY <1>3 DEF WakeWait, SpuriousWakeup, lock, waiters, client, TypeOK, AssertsHold, Holders, NoLostWakeup
  <2> QED BY <1>1, <2>1, <2>2, <2>3
<1> QED BY <1>2, <1>3

LEMMA UnlockKeeps ==
    ASSUME IInv, NEW t \in LockThreads, UnlockInner(t) \/ UnlockLast(t)
    PROVE  IInv'
<1> USE ThreadsAssumption, BoundsAssumption DEF IInv
<1>1. GivesBack(t) /\ n_locks' = n_locks - 1 /\ n_locks' \in Nat
  BY DEF UnlockInner, UnlockLast, TypeOK
<1>2. LocksCounted'
  BY <1>1, TokensGiveBack DEF LocksCounted
<1>3. WaitersCounted'
  BY LoopSame
<1>4. TypeOK'
  <2>1. CASE UnlockInner(t)
    BY <1>1, <2>1 DEF UnlockInner, GivesBack, waiters, TypeOK
  <2>2. CASE UnlockLast(t)
    <3>1. /\ asleep' \subseteq LockThreads /\ woken' \subseteq LockThreads
          /\ UNCHANGED <<n_reader_waiting, n_writer_waiting, rounds>>
      BY <1>1, <2>2 DEF UnlockLast, GivesBack, waiters, TypeOK
    <3>2. /\ is_locked_by_reader' \in BOOLEAN /\ is_locked_by_writer' \in BOOLEAN
          /\ writer_thread' \in LockThreads \cup {NoThread}
      BY <2>2 DEF UnlockLast, TypeOK
    <3>3. /\ depth' \in [LockThreads -> 0..MaxDepth]
          /\ mode' \in [LockThreads -> {"none", "read", "write"}]
      BY <1>1 DEF GivesBack, TypeOK
    <3> QED BY <1>1, <3>1, <3>2, <3>3 DEF TypeOK
  <2> QED BY <2>1, <2>2
<1>5. CASE UnlockInner(t)
  BY <1>1, <1>2, <1>3, <1>4, <1>5
     DEF UnlockInner, GivesBack, TypeOK, AssertsHold, Holders, NoLostWakeup
<1>6. CASE UnlockLast(t)
  <2>1. \A u \in LockThreads : depth'[u] = 0
    BY <1>2, <1>4, <1>6, NoTokens DEF UnlockLast, LocksCounted
  <2>2. asleep' = {}
    <3>1. CASE asleep = {}
      BY <1>6, <3>1 DEF UnlockLast
    <3>2. CASE asleep # {}
      <4>1. PICK u \in asleep : u \in WaitLoop("read") \/ u \in WaitLoop("write")
        BY <3>2 DEF WaitLoop, Holders, TypeOK
      <4>2. WaitLoop("read") # {} => Cardinality(WaitLoop("read")) # 0
        BY ThreadsAssumption, LoopsInThreads, FS_Subset, FS_EmptySet
      <4>3. WaitLoop("write") # {} => Cardinality(WaitLoop("write")) # 0
        BY ThreadsAssumption, LoopsInThreads, FS_Subset, FS_EmptySet
      <4>4. n_reader_waiting > 0 \/ n_writer_waiting > 0
        BY <4>1, <4>2, <4>3 DEF WaitersCounted, TypeOK
      <4> QED BY <1>6, <4>4 DEF UnlockLast
    <3> QED BY <3>1, <3>2
  <2>3. \A u \in (asleep \cup woken)' : mode'[u] # "none"
    BY <1>6 DEF UnlockLast, GivesBack, Holders, TypeOK
  <2>4. ~is_locked_by_reader' /\ ~is_locked_by_writer' /\ writer_thread' = NoThread
    BY <1>6 DEF UnlockLast, GivesBack, AssertsHold, Holders, TypeOK
  <2>5. Holders' /\ AssertsHold' /\ NoLostWakeup'
    BY <1>4, <1>6, <2>1, <2>2, <2>3, <2>4
       DEF UnlockLast, AssertsHold, Holders, NoLostWakeup, TypeOK
  <2> QED BY <1>2, <1>3, <1>4, <2>5
<1> QED BY <1>5, <1>6

LEMMA NextKeeps == IInv /\ [Next]_vars => IInv'
<1> SUFFICES ASSUME IInv, [Next]_vars PROVE IInv'
  OBVIOUS
<1>1. ASSUME NEW t \in LockThreads, Step(t) \/ SpuriousWakeup(t) PROVE IInv'
  BY <1>1, AcquireKeeps, SleepKeeps, UnlockKeeps DEF Step
<1>2. CASE UNCHANGED vars
  BY <1>2 DEF vars, lock, waiters, client, IInv, TypeOK, Holders, AssertsHold,
     LocksCounted, WaitersCounted, NoLostWakeup, Tokens, WaitLoop
<1> QED BY <1>1, <1>2 DEF Next, Finished

LEMMA Invariance == Spec => []IInv
BY InitEstablishes, NextKeeps, PTL DEF Spec

-----------------------------------------------------------------------------

\* Every variable keeps its type.
THEOREM TypeCorrect == Spec => []TypeOK
<1>1. IInv => TypeOK
  BY DEF IInv
<1> QED BY <1>1, Invariance, PTL

\* A thread that writes is alone between its lock and its unlock.
THEOREM ExclusionTheorem == Spec => []ReadersOrOneWriter
<1>1. IInv => ReadersOrOneWriter
  BY DEF IInv, Holders, AssertsHold, ReadersOrOneWriter
<1> QED BY <1>1, Invariance, PTL

\* No assert of rd_lock, wr_lock and unlock can fail.
THEOREM AssertsTheorem == Spec => []AssertsHold
<1>1. IInv => AssertsHold
  BY DEF IInv
<1> QED BY <1>1, Invariance, PTL

\* n_locks counts the locks of all threads, nested ones included, and the
\* waiting counters the threads in the two wait loops.
THEOREM CountersTheorem == Spec => []CountersExact
<1>1. IInv => CountersExact
  BY DEF IInv, CountersExact
<1> QED BY <1>1, Invariance, PTL

\* Nobody sleeps beside a lock that is available to it.
THEOREM WakeupTheorem == Spec => []NoLostWakeup
<1>1. IInv => NoLostWakeup
  BY DEF IInv
<1> QED BY <1>1, Invariance, PTL

-----------------------------------------------------------------------------
(* Refinement of the abstract readers-writers lock *)

\* The abstract module brings its own copy of the library's Cardinality.
LEMMA SameCardinality ==
    ASSUME NEW S
    PROVE  Abstract!Cardinality(S) = Cardinality(S)
BY DEF Cardinality, Abstract!Cardinality

\* A lock that is taken is a read or a write lock more of the caller, while
\* nobody holds the other kind.
LEMMA AcquireRefines ==
    ASSUME IInv, NEW t \in LockThreads,
           RdLock(t) \/ WrLock(t) \/ RdWakeAcquire(t) \/ WrWakeAcquire(t)
    PROVE  Abstract!Next
<1> USE DEF IInv, TypeOK
<1>1. CASE RdLock(t) \/ RdWakeAcquire(t)
  <2>1. /\ Reading' = [Reading EXCEPT ![t] = @ + 1] /\ Writing' = Writing
        /\ depth'[t] = depth[t] + 1 /\ mode'[t] = "read"
    BY <1>1 DEF RdLock, RdWakeAcquire, Asks, NestsLock, Gets, Holders, Reading, Writing
  <2>2. {u \in LockThreads : Writing[u] > 0} = {}
    BY <1>1 DEF RdLock, RdWakeAcquire, Holders, Writing
  <2>3. Reading[t] > 0 \/ Cardinality({u \in LockThreads : Reading[u] > 0}) < Cardinality(LockThreads)
    <3> DEFINE R == {u \in LockThreads : Reading[u] > 0}
    <3>1. CASE t \in R
      BY <3>1
    <3>2. CASE t \notin R
      <4>1. R \in SUBSET LockThreads /\ R \cup {t} \in SUBSET LockThreads
        OBVIOUS
      <4> HIDE DEF R
      <4>2. Cardinality(R \cup {t}) = Cardinality(R) + 1 /\ Cardinality(R) \in Nat
        BY <3>2, <4>1, LoopSize
      <4>3. Cardinality(R \cup {t}) \in 0..Cardinality(LockThreads) /\ Cardinality(LockThreads) \in Nat
        BY <4>1, LoopSize
      <4>4. Cardinality(R) < Cardinality(LockThreads)
        BY <4>2, <4>3
      <4> QED BY <4>4 DEF R
    <3> QED BY <3>1, <3>2
  <2>4. Abstract!EnterRead(t)
    BY <2>1, <2>2, <2>3, SameCardinality DEF Abstract!EnterRead, Abstract!Inside
  <2> QED BY <2>4 DEF Abstract!Next
<1>2. CASE WrLock(t) \/ WrWakeAcquire(t)
  <2>1. /\ Writing' = [Writing EXCEPT ![t] = @ + 1] /\ Reading' = Reading
        /\ depth'[t] = depth[t] + 1 /\ mode'[t] = "write"
    BY <1>2 DEF WrLock, WrWakeAcquire, Asks, NestsLock, Gets, Holders, Reading, Writing
  <2>2. {u \in LockThreads : Reading[u] > 0} = {}
    BY <1>2 DEF WrLock, WrWakeAcquire, Holders, AssertsHold, Reading
  <2>3. Writing[t] > 0 \/ {u \in LockThreads : Writing[u] > 0} = {}
    BY <1>2 DEF WrLock, WrWakeAcquire, NestsLock, Holders, AssertsHold, Writing
  <2>4. Writing[t] > 0 \/ Cardinality({u \in LockThreads : Writing[u] > 0}) < 1
    BY <2>3, FS_EmptySet
  <2>5. Abstract!EnterWrite(t)
    BY <2>1, <2>2, <2>4, SameCardinality DEF Abstract!EnterWrite, Abstract!Inside
  <2> QED BY <2>5 DEF Abstract!Next
<1> QED BY <1>1, <1>2

LEMMA UnlockRefines ==
    ASSUME IInv, NEW t \in LockThreads, UnlockInner(t) \/ UnlockLast(t)
    PROVE  Abstract!Next
<1> USE DEF IInv, TypeOK
<1>1. GivesBack(t)
  BY DEF UnlockInner, UnlockLast
<1>2. CASE mode[t] = "read"
  <2>1. /\ Reading'[t] = Reading[t] - 1 /\ Reading[t] > 0 /\ Writing' = Writing
        /\ \A u \in LockThreads \ {t} : Reading'[u] = Reading[u]
    BY <1>1, <1>2 DEF GivesBack, Reading, Writing
  <2>2. Reading' = [Reading EXCEPT ![t] = @ - 1]
    BY <2>1 DEF Reading
  <2> QED BY <2>1, <2>2 DEF Abstract!Next, Abstract!Leave
<1>3. CASE mode[t] = "write"
  <2>1. /\ Writing'[t] = Writing[t] - 1 /\ Writing[t] > 0 /\ Reading' = Reading
        /\ \A u \in LockThreads \ {t} : Writing'[u] = Writing[u]
    BY <1>1, <1>3 DEF GivesBack, Reading, Writing
  <2>2. Writing' = [Writing EXCEPT ![t] = @ - 1]
    BY <2>1 DEF Writing
  <2> QED BY <2>1, <2>2 DEF Abstract!Next, Abstract!Leave
<1> QED BY <1>1, <1>2, <1>3 DEF GivesBack, Holders

\* Every behaviour of the lock is one of the abstract readers-writers lock
\* with any number of readers and one writer.
THEOREM Refinement == Spec => ImplementsReadersWriters
<1>1. Init => Abstract!Init
  BY DEF Init, Abstract!Init, Reading, Writing
<1>2. IInv /\ [Next]_vars => [Abstract!Next]_<<Reading, Writing>>
  <2> SUFFICES ASSUME IInv, [Next]_vars PROVE [Abstract!Next]_<<Reading, Writing>>
    OBVIOUS
  <2>1. ASSUME NEW t \in LockThreads, Step(t) \/ SpuriousWakeup(t)
        PROVE  Abstract!Next \/ UNCHANGED <<Reading, Writing>>
    <3>1. CASE RdLock(t) \/ WrLock(t) \/ RdWakeAcquire(t) \/ WrWakeAcquire(t)
      BY <3>1, AcquireRefines
    <3>2. CASE UnlockInner(t) \/ UnlockLast(t)
      BY <3>2, UnlockRefines
    <3>3. CASE RdWait(t) \/ WrWait(t)
      BY <3>3 DEF RdWait, WrWait, Asks, IInv, TypeOK, Holders, Reading, Writing
    <3>4. CASE WakeWait(t) \/ SpuriousWakeup(t)
      BY <3>4 DEF WakeWait, SpuriousWakeup, client, Reading, Writing
    <3> QED BY <2>1, <3>1, <3>2, <3>3, <3>4 DEF Step
  <2>2. CASE UNCHANGED vars
    BY <2>2 DEF vars, client, Reading, Writing
  <2> QED BY <2>1, <2>2 DEF Next, Finished
<1> QED BY <1>1, <1>2, Invariance, PTL DEF Spec, ImplementsReadersWriters, Abstract!Spec

-----------------------------------------------------------------------------
(* The students with reference counts *)

LEMMA CrudRuns == DataSpec => Crud!Spec
<1>1. DataInit => Crud!Init
  BY DEF DataInit
<1>2. [DataNext]_dataVars => [Crud!Next]_Crud!vars
  BY DEF DataNext, dataVars, varsCrud, Crud!vars, OthersLine, OthersReduce, OthersNfc, OthersList,
         OthersGlue, OthersRw
<1> QED BY <1>1, <1>2, PTL DEF DataSpec, Crud!Spec

\* Who is counted in the ref_count of a student, but for the list.
Users(o) ==
    {t \in Crud!Threads : ref_crud_hand[t] = o /\ ref_crud_pc[t] \in {"locking", "using", "done"}}

CrudTyped ==
    /\ stud_lst \subseteq Addresses /\ alive \subseteq Addresses
    /\ roll_no \in [Addresses -> Rolls \cup {NULL}]
    /\ ref_count \in [Addresses -> Nat]
    /\ ref_crud_hand \in [Crud!Threads -> Addresses \cup {NULL}]
    /\ ref_crud_pc \in [Crud!Threads -> Crud!PCs]

CrudCounted ==
    \A o \in Addresses : ref_count[o] = Cardinality(Users(o)) + (IF o \in stud_lst THEN 1 ELSE 0)

\* A student whose count has come to zero is known to nobody but the thread
\* that is to free it.
LastUserFrees ==
    \A t \in Crud!Threads : ref_crud_pc[t] = "destroy" =>
        /\ ref_crud_hand[t] \notin stud_lst
        /\ \A u \in Crud!Threads \ {t} :
               ref_crud_pc[u] # "idle" => ref_crud_hand[u] # ref_crud_hand[t]

CrudInv == CrudTyped /\ Crud!NoUseAfterFree /\ CrudCounted /\ LastUserFrees

LEMMA CrudThreads == IsFiniteSet(Crud!Threads)
<1>1. IsFiniteSet({}) /\ \A S, x : IsFiniteSet(S) => IsFiniteSet(S \cup {x})
  BY FS_EmptySet, FS_AddElement
<1>2. Crud!Threads = ((({} \cup {"READER_TH"}) \cup {"UPDATE_TH"}) \cup {"CREATE_TH"}) \cup {"DELETE_TH"}
  BY DEF Crud!Threads
<1>3. IsFiniteSet({} \cup {"READER_TH"})
  BY <1>1
<1>4. IsFiniteSet(({} \cup {"READER_TH"}) \cup {"UPDATE_TH"})
  BY <1>1, <1>3
<1>5. IsFiniteSet((({} \cup {"READER_TH"}) \cup {"UPDATE_TH"}) \cup {"CREATE_TH"})
  BY <1>1, <1>4
<1> QED BY <1>1, <1>2, <1>5

LEMMA UsersSize ==
    ASSUME NEW U \in SUBSET Crud!Threads
    PROVE  /\ Cardinality(U) \in Nat
           /\ U = {} <=> Cardinality(U) = 0
           /\ \A t \in Crud!Threads :
                  /\ t \notin U => Cardinality(U \cup {t}) = Cardinality(U) + 1
                  /\ t \in U => Cardinality(U \ {t}) = Cardinality(U) - 1
BY CrudThreads, SubsetSize

LEMMA CrudStarts == Crud!Init => CrudInv
<1> SUFFICES ASSUME Crud!Init PROVE CrudInv
  OBVIOUS
<1>1. CrudTyped
  BY DEF Crud!Init, CrudTyped, Crud!PCs
<1>2. ASSUME NEW o \in Addresses PROVE ref_count[o] = Cardinality(Users(o)) /\ o \notin stud_lst
  <2>1. Users(o) = {}
    BY DEF Crud!Init, Users
  <2> QED BY <2>1, FS_EmptySet DEF Crud!Init
<1>3. CrudCounted
  BY <1>1, <1>2 DEF CrudCounted, CrudTyped
<1> QED BY <1>1, <1>3 DEF CrudInv, Crud!Init, Crud!NoUseAfterFree, LastUserFrees

\* What a step of t does to who is counted: t joins the users of its student,
\* leaves them, or stays.
LEMMA UsersMove ==
    ASSUME CrudTyped, NEW t \in Crud!Threads, NEW place, NEW s, NEW o,
           Crud!At(t, place, s)
    PROVE  /\ s # o \/ place \notin {"locking", "using", "done"} => Users(o)' = Users(o) \ {t}
           /\ s = o /\ place \in {"locking", "using", "done"} => Users(o)' = Users(o) \cup {t}
           /\ Users(o) \in SUBSET Crud!Threads
BY DEF CrudTyped, Crud!At, Users

LEMMA CrudFinds ==
    ASSUME CrudInv, NEW t \in Crud!Threads, Crud!Find(t)
    PROVE  CrudInv'
<1> USE DEF CrudInv
<1>1. PICK o \in stud_lst :
          /\ ref_crud_pc[t] = "idle"
          /\ Crud!UsingObject(o) /\ Crud!At(t, "locking", o)
          /\ UNCHANGED <<stud_lst, alive, roll_no>>
  BY DEF Crud!Find, Crud!Lookup
<1>2. CrudTyped'
  BY <1>1 DEF CrudTyped, Crud!At, Crud!UsingObject, Crud!PCs
<1>3. Crud!NoUseAfterFree'
  BY <1>1 DEF CrudTyped, Crud!At, Crud!NoUseAfterFree
<1>4. LastUserFrees'
  BY <1>1 DEF CrudTyped, Crud!At, LastUserFrees
<1>5. ASSUME NEW p \in Addresses
      PROVE  ref_count'[p] = Cardinality(Users(p)') + (IF p \in stud_lst' THEN 1 ELSE 0)
  <2>1. t \notin Users(p) /\ Users(p) \in SUBSET Crud!Threads
    BY <1>1 DEF Users
  <2>2. CASE p = o
    <3>1. Users(p)' = Users(p) \cup {t}
      BY <1>1, <2>2, UsersMove
    <3>2. Cardinality(Users(p) \cup {t}) = Cardinality(Users(p)) + 1 /\ Cardinality(Users(p)) \in Nat
      BY <2>1, UsersSize
    <3> QED BY <1>1, <2>2, <3>1, <3>2 DEF CrudTyped, CrudCounted, Crud!UsingObject
  <2>3. CASE p # o
    <3>1. Users(p)' = Users(p)
      BY <1>1, <2>1, <2>3, UsersMove
    <3> QED BY <1>1, <2>3, <3>1 DEF CrudTyped, CrudCounted, Crud!UsingObject
  <2> QED BY <2>2, <2>3
<1> QED BY <1>2, <1>3, <1>4, <1>5 DEF CrudCounted

LEMMA CrudCreates ==
    ASSUME CrudInv, NEW t \in Crud!Threads, Crud!Create(t)
    PROVE  CrudInv'
<1> USE DEF CrudInv
<1>1. PICK r \in Rolls, o \in Addresses \ alive :
          /\ Crud!Lookup(r) = {} /\ Crud!Allocate(o, r) /\ Crud!Insert(o)
          /\ UNCHANGED <<ref_crud_hand, ref_crud_pc>>
  BY DEF Crud!Create
<1>2. CrudTyped'
  BY <1>1 DEF CrudTyped, Crud!Allocate, Crud!Insert
<1>3. Crud!NoUseAfterFree'
  BY <1>1 DEF CrudTyped, Crud!Allocate, Crud!Insert, Crud!Lookup, Crud!NoUseAfterFree
<1>4. LastUserFrees'
  BY <1>1 DEF CrudTyped, Crud!Allocate, Crud!Insert, Crud!NoUseAfterFree, LastUserFrees
<1>5. Users(o) = {} /\ o \notin stud_lst
  BY <1>1 DEF Users, Crud!NoUseAfterFree
<1>6. ASSUME NEW p \in Addresses
      PROVE  ref_count'[p] = Cardinality(Users(p)') + (IF p \in stud_lst' THEN 1 ELSE 0)
  <2>1. Users(p)' = Users(p)
    BY <1>1 DEF Users
  <2>2. CASE p = o
    <3>1. Cardinality(Users(p)) = 0
      BY <1>5, <2>2, FS_EmptySet
    <3> QED BY <1>1, <2>1, <2>2, <3>1 DEF CrudTyped, Crud!Allocate, Crud!Insert
  <2>3. CASE p # o
    BY <1>1, <2>1, <2>3 DEF CrudTyped, CrudCounted, Crud!Allocate, Crud!Insert
  <2> QED BY <2>2, <2>3
<1> QED BY <1>2, <1>3, <1>4, <1>6 DEF CrudCounted

LEMMA CrudDeletes ==
    ASSUME CrudInv, NEW t \in Crud!Threads, Crud!Delete(t)
    PROVE  CrudInv'
<1> USE DEF CrudInv
<1>1. PICK o \in stud_lst :
          /\ ref_crud_pc[t] = "idle"
          /\ Crud!Remove(o) /\ Crud!At(t, "done", o)
          /\ UNCHANGED <<alive, roll_no, ref_count>>
  BY DEF Crud!Delete, Crud!Lookup
<1>2. CrudTyped'
  BY <1>1 DEF CrudTyped, Crud!At, Crud!Remove, Crud!PCs
<1>3. Crud!NoUseAfterFree'
  BY <1>1 DEF CrudTyped, Crud!At, Crud!Remove, Crud!NoUseAfterFree
<1>4. LastUserFrees'
  BY <1>1 DEF CrudTyped, Crud!At, Crud!Remove, LastUserFrees
<1>5. ASSUME NEW p \in Addresses
      PROVE  ref_count'[p] = Cardinality(Users(p)') + (IF p \in stud_lst' THEN 1 ELSE 0)
  <2>1. t \notin Users(p) /\ Users(p) \in SUBSET Crud!Threads
    BY <1>1 DEF Users
  <2>2. CASE p = o
    <3>1. Users(p)' = Users(p) \cup {t}
      BY <1>1, <2>2, UsersMove
    <3>2. Cardinality(Users(p) \cup {t}) = Cardinality(Users(p)) + 1 /\ Cardinality(Users(p)) \in Nat
      BY <2>1, UsersSize
    <3> QED BY <1>1, <2>2, <3>1, <3>2 DEF CrudTyped, CrudCounted, Crud!Remove
  <2>3. CASE p # o
    <3>1. Users(p)' = Users(p)
      BY <1>1, <2>1, <2>3, UsersMove
    <3> QED BY <1>1, <2>3, <3>1 DEF CrudTyped, CrudCounted, Crud!Remove
  <2> QED BY <2>2, <2>3
<1> QED BY <1>2, <1>3, <1>4, <1>5 DEF CrudCounted

LEMMA CrudLocks ==
    ASSUME CrudInv, NEW t \in Crud!Threads, Crud!LockStudent(t) \/ Crud!UnlockStudent(t)
    PROVE  CrudInv'
<1> USE DEF CrudInv
<1>1. PICK place \in {"using", "done"} :
          /\ ref_crud_pc[t] \in {"locking", "using"}
          /\ Crud!At(t, place, ref_crud_hand[t])
          /\ UNCHANGED <<stud_lst, alive, roll_no, ref_count>>
  BY DEF Crud!LockStudent, Crud!UnlockStudent
<1>2. CrudTyped'
  BY <1>1 DEF CrudTyped, Crud!At, Crud!PCs
<1>3. Crud!NoUseAfterFree' /\ LastUserFrees'
  BY <1>1 DEF CrudTyped, Crud!At, Crud!NoUseAfterFree, LastUserFrees
<1>4. ASSUME NEW p \in Addresses PROVE Users(p)' = Users(p)
  BY <1>1 DEF CrudTyped, Crud!At, Users
<1>5. CrudCounted'
  BY <1>1, <1>4 DEF CrudCounted
<1> QED BY <1>2, <1>3, <1>5

LEMMA CrudDone ==
    ASSUME CrudInv, NEW t \in Crud!Threads, Crud!Done(t)
    PROVE  CrudInv'
<1> USE DEF CrudInv
<1>1. PICK o \in alive : o = ref_crud_hand[t] /\ o \in Addresses /\ t \in Users(o)
  BY DEF Crud!Done, CrudTyped, Crud!NoUseAfterFree, Users
<1>2. /\ ref_crud_pc[t] = "done"
      /\ ref_count' = [ref_count EXCEPT ![o] = @ - 1]
      /\ ref_count[o] = 1 => Crud!At(t, "destroy", o)
      /\ ref_count[o] # 1 => Crud!At(t, "idle", NULL)
      /\ UNCHANGED <<stud_lst, alive, roll_no>>
  BY <1>1 DEF Crud!Done
<1>3. Users(o) \in SUBSET Crud!Threads
  BY DEF Users
<1>4. /\ Cardinality(Users(o) \ {t}) = Cardinality(Users(o)) - 1
      /\ Cardinality(Users(o) \ {t}) \in Nat /\ Cardinality(Users(o)) \in Nat
      /\ Cardinality(Users(o) \ {t}) = 0 <=> Users(o) \ {t} = {}
  <2>1. Users(o) \ {t} \in SUBSET Crud!Threads
    BY <1>3
  <2> QED BY <1>1, <1>3, <2>1, UsersSize
<1>5. ref_count[o] = Cardinality(Users(o)) + (IF o \in stud_lst THEN 1 ELSE 0)
  BY <1>1 DEF CrudCounted
<1>6. ref_count[o] = 1 => Users(o) \ {t} = {} /\ o \notin stud_lst
  BY <1>4, <1>5
<1>7. CrudTyped'
  <2>1. ref_count[o] - 1 \in Nat
    BY <1>4, <1>5
  <2> QED BY <1>1, <1>2, <2>1 DEF CrudTyped, Crud!At, Crud!PCs
<1>8. Crud!NoUseAfterFree'
  BY <1>1, <1>2 DEF CrudTyped, Crud!At, Crud!NoUseAfterFree
<1>9. LastUserFrees'
  <2>1. \A u \in Crud!Threads : ref_crud_hand[u] = o => ref_crud_pc[u] # "destroy"
    BY <1>1, <1>2 DEF LastUserFrees, CrudTyped
  <2>2. ref_count[o] = 1 =>
            \A u \in Crud!Threads \ {t} : ref_crud_hand[u] = o => ref_crud_pc[u] = "idle"
    BY <1>6, <2>1 DEF Users, CrudTyped, Crud!PCs
  <2> QED BY <1>1, <1>2, <1>6, <2>1, <2>2 DEF CrudTyped, Crud!At, LastUserFrees
<1>10. ASSUME NEW p \in Addresses
       PROVE  ref_count'[p] = Cardinality(Users(p)') + (IF p \in stud_lst' THEN 1 ELSE 0)
  <2>1. Users(p)' = Users(p) \ {t}
    BY <1>2, UsersMove DEF CrudTyped, Crud!At, Users
  <2>2. CASE p = o
    BY <1>2, <1>4, <1>5, <2>1, <2>2 DEF CrudTyped
  <2>3. CASE p # o
    <3>1. Users(p)' = Users(p)
      BY <1>1, <2>1, <2>3 DEF Users
    <3> QED BY <1>2, <2>3, <3>1 DEF CrudTyped, CrudCounted
  <2> QED BY <2>2, <2>3
<1> QED BY <1>7, <1>8, <1>9, <1>10 DEF CrudCounted

LEMMA CrudDestroys ==
    ASSUME CrudInv, NEW t \in Crud!Threads, Crud!Destroy(t)
    PROVE  CrudInv'
<1> USE DEF CrudInv
<1>1. /\ ref_crud_pc[t] = "destroy" /\ ref_crud_hand[t] \in alive
      /\ alive' = alive \ {ref_crud_hand[t]}
      /\ Crud!At(t, "idle", NULL)
      /\ UNCHANGED <<stud_lst, roll_no, ref_count>>
  BY DEF Crud!Destroy, Crud!NoUseAfterFree
<1>2. CrudTyped'
  BY <1>1 DEF CrudTyped, Crud!At, Crud!PCs
<1>3. Crud!NoUseAfterFree'
  BY <1>1 DEF CrudTyped, Crud!At, Crud!NoUseAfterFree, LastUserFrees
<1>4. LastUserFrees'
  BY <1>1 DEF CrudTyped, Crud!At, LastUserFrees
<1>5. ASSUME NEW p \in Addresses PROVE Users(p)' = Users(p)
  BY <1>1 DEF CrudTyped, Crud!At, Users
<1>6. CrudCounted'
  BY <1>1, <1>5 DEF CrudCounted
<1> QED BY <1>2, <1>3, <1>4, <1>6

LEMMA CrudKeeps == CrudInv /\ [Crud!Next]_Crud!vars => CrudInv'
<1>1. ASSUME CrudInv, UNCHANGED Crud!vars PROVE CrudInv'
  <2>1. ASSUME NEW p \in Addresses PROVE Users(p)' = Users(p)
    BY <1>1 DEF Crud!vars, Users
  <2>2. CrudCounted'
    BY <1>1, <2>1 DEF Crud!vars, CrudInv, CrudCounted
  <2> QED BY <1>1, <2>2 DEF Crud!vars, CrudInv, CrudTyped, Crud!NoUseAfterFree, LastUserFrees
<1> QED BY <1>1, CrudFinds, CrudCreates, CrudDeletes, CrudLocks, CrudDone, CrudDestroys
        DEF Crud!Next, Crud!Step

LEMMA CrudAlways == DataSpec => []CrudInv
<1>1. Crud!Spec => []CrudInv
  BY CrudStarts, CrudKeeps, PTL DEF Crud!Spec
<1> QED BY <1>1, CrudRuns, PTL

LEMMA CrudSameCardinality == \A S : Crud!Cardinality(S) = Cardinality(S)
BY DEF Crud!Cardinality, Cardinality

\* The count of a student never exceeds the threads and the list.
LEMMA CrudIsTyped == CrudInv => Crud!TypeOK
<1> SUFFICES ASSUME CrudInv PROVE Crud!TypeOK
  OBVIOUS
<1>1. ASSUME NEW o \in Addresses PROVE ref_count[o] \in 0..(Crud!Cardinality(Crud!Threads) + 1)
  <2>1. Users(o) \in SUBSET Crud!Threads
    BY DEF Users
  <2>2. Cardinality(Users(o)) \in 0..Cardinality(Crud!Threads) /\ Cardinality(Crud!Threads) \in Nat
    BY <2>1, CrudThreads, SubsetSize
  <2>3. ref_count[o] \in 0..(Cardinality(Crud!Threads) + 1)
    BY <2>2 DEF CrudInv, CrudCounted
  <2>4. Crud!Cardinality(Crud!Threads) = Cardinality(Crud!Threads)
    BY CrudSameCardinality
  <2> QED BY <2>3, <2>4
<1> QED BY <1>1 DEF CrudInv, CrudTyped, Crud!TypeOK

\* No thread and no list has a student that was freed, and the count of a
\* student is the number of those who have it (thread_using_object_done).
LEMMA CrudIsSafe == CrudInv => Crud!NoUseAfterFree /\ Crud!RefCountExact
<1> SUFFICES ASSUME CrudInv, NEW o \in alive
             PROVE  ref_count[o] = Crud!Cardinality({t \in Crud!Threads :
                        ref_crud_hand[t] = o /\ ref_crud_pc[t] \in {"locking", "using", "done"}})
                      + (IF o \in stud_lst THEN 1 ELSE 0)
  BY DEF CrudInv, Crud!RefCountExact
<1>1. Crud!Cardinality(Users(o)) = Cardinality(Users(o))
  BY CrudSameCardinality
<1> QED BY <1>1 DEF CrudInv, CrudTyped, CrudCounted, Users

-----------------------------------------------------------------------------
(* Map-reduce *)

LEMMA ReduceRuns == DataSpec => Reduce!Spec
<1>1. DataInit => Reduce!Init
  BY DEF DataInit
<1>2. [DataNext]_dataVars => [Reduce!Next]_Reduce!vars
  BY DEF DataNext, dataVars, varsReduce, Reduce!vars, Reduce!slots, OthersLine, OthersCrud,
         OthersNfc, OthersList, OthersGlue, OthersRw
<1> QED BY <1>1, <1>2, PTL DEF DataSpec, Reduce!Spec

MapPlaces == {"none", "begun", "done", "ended"}

ReduceTyped ==
    /\ map_reduce_pc \in [Mappers \cup {"start", "reducer"} -> Reduce!StartPCs \cup Reduce!ThreadPCs]
    /\ map_reduce_pc["start"] \in Reduce!StartPCs
    /\ map_reduce_pc["reducer"] \in {"none", "begun", "flagged", "reduced", "posting", "ended"}
    /\ \A m \in Mappers : map_reduce_pc[m] \in MapPlaces
    /\ mapper_input_array \subseteq Mappers /\ reducer_result \subseteq Mappers
    /\ reducer_finished_semaphore \in 0..1
    /\ starts \in 0..Starts

\* The mappers that have not ended in the first start.
Unended == {m \in Mappers : map_reduce_pc[m] # "ended"}

\* While the first start runs, mappers_in_progress is exact, and a mapper past
\* mapper_fn has left its result.
MappersCounted ==
    map_reduce_pc["start"] \notin {"outside", "aborted"} =>
        /\ starts = 1
        /\ mappers_in_progress = Cardinality(Unended)
        /\ mapper_result_array = {m \in Mappers : map_reduce_pc[m] \in {"done", "ended"}}

\* Before and after it nobody else is there, and the count is as it was first
\* or as the mappers left it, so that a second start meets its first assert.
NobodyOutside ==
    map_reduce_pc["start"] \in {"outside", "aborted"} =>
        /\ \A m \in Mappers : map_reduce_pc[m] = "none"
        /\ map_reduce_pc["reducer"] = "none" /\ reducer_finished_semaphore = 0
        /\ mapper_result_array \subseteq Mappers
        /\ starts = 0 => /\ mapper_result_array = {}
                         /\ mappers_in_progress = Cardinality(Mappers)
        /\ starts > 0 => mappers_in_progress = 0
        /\ map_reduce_pc["start"] = "aborted" <=> starts > 1

\* The caller sleeps while mappers are in progress, and the reducer runs after.
CallerInStep ==
    /\ map_reduce_pc["start"] \in {"wait", "asleep", "woken"} =>
           \A m \in Mappers : map_reduce_pc[m] # "none"
    /\ map_reduce_pc["start"] = "asleep" => mappers_in_progress > 0
    /\ map_reduce_pc["start"] \in {"mapped", "reduce", "read"} => mappers_in_progress = 0
    /\ map_reduce_pc["start"] \in {"reduce", "read"} <=> map_reduce_pc["reducer"] # "none"
    /\ map_reduce_pc["start"] = "read" =>
           map_reduce_pc["reducer"] = "ended" /\ reducer_finished_semaphore = 0
    /\ map_reduce_pc["start"] # "read" =>
           (map_reduce_pc["reducer"] = "ended" <=> reducer_finished_semaphore = 1)

ReducerInStep ==
    /\ is_reducer_in_progress <=> map_reduce_pc["reducer"] \in {"flagged", "reduced"}
    /\ map_reduce_pc["reducer"] \in {"reduced", "posting", "ended"} => reducer_result = Mappers

ReduceInv ==
    /\ ReduceTyped /\ is_reducer_in_progress \in BOOLEAN
    /\ MappersCounted /\ NobodyOutside /\ CallerInStep /\ ReducerInStep

LEMMA ReduceSameCardinality == \A S : Reduce!Cardinality(S) = Cardinality(S)
BY DEF Reduce!Cardinality, Cardinality

LEMMA UnendedSize ==
    /\ Unended \in SUBSET Mappers
    /\ Cardinality(Unended) \in 0..Cardinality(Mappers) /\ Cardinality(Mappers) \in Nat \ {0}
    /\ Cardinality(Unended) = 0 <=> \A m \in Mappers : map_reduce_pc[m] = "ended"
    /\ Reduce!n_mappers = Cardinality(Mappers)
<1>1. Unended \in SUBSET Mappers
  BY DEF Unended
<1>2. Unended = {} <=> \A m \in Mappers : map_reduce_pc[m] = "ended"
  BY DEF Unended
<1>3. Mappers \in SUBSET Mappers
  OBVIOUS
<1>4. Cardinality(Mappers) \in Nat /\ Cardinality(Mappers) # 0
  BY <1>3, MappersAssumption, SubsetSize
<1>5. Cardinality(Unended) \in 0..Cardinality(Mappers) /\ (Unended = {} <=> Cardinality(Unended) = 0)
  BY <1>1, MappersAssumption, SubsetSize
<1> QED BY <1>1, <1>2, <1>4, <1>5, ReduceSameCardinality DEF Reduce!n_mappers

LEMMA ReduceStarts == Reduce!Init => ReduceInv
<1> SUFFICES ASSUME Reduce!Init PROVE ReduceInv
  OBVIOUS
<1> USE MappersAssumption
<1>0. /\ map_reduce_pc["start"] = "outside" /\ map_reduce_pc["reducer"] = "none"
      /\ \A m \in Mappers : map_reduce_pc[m] = "none"
      /\ map_reduce_pc \in [Mappers \cup {"start", "reducer"} -> {"outside", "none"}]
  BY DEF Reduce!Init
<1>1. ReduceTyped
  <2>1. map_reduce_pc \in [Mappers \cup {"start", "reducer"} -> Reduce!StartPCs \cup Reduce!ThreadPCs]
    BY DEF Reduce!Init, Reduce!StartPCs, Reduce!ThreadPCs
  <2>2. /\ mapper_input_array \subseteq Mappers /\ reducer_result \subseteq Mappers
        /\ reducer_finished_semaphore \in 0..1 /\ starts \in 0..Starts
    BY DEF Reduce!Init
  <2> QED BY <1>0, <2>1, <2>2 DEF ReduceTyped, Reduce!StartPCs, MapPlaces
<1>2. mappers_in_progress = Cardinality(Mappers)
  BY UnendedSize DEF Reduce!Init
<1>3. MappersCounted /\ CallerInStep /\ ReducerInStep /\ is_reducer_in_progress \in BOOLEAN
  <2>1. MappersCounted
    BY <1>0 DEF MappersCounted
  <2>2. is_reducer_in_progress = FALSE /\ reducer_finished_semaphore = 0
    BY DEF Reduce!Init
  <2>3. CallerInStep
    BY <1>0, <2>2 DEF CallerInStep
  <2>4. ReducerInStep
    BY <1>0, <2>2 DEF ReducerInStep
  <2> QED BY <2>1, <2>2, <2>3, <2>4
<1>4. NobodyOutside
  BY <1>0, <1>2 DEF Reduce!Init, NobodyOutside
<1> QED BY <1>1, <1>3, <1>4 DEF ReduceInv

LEMMA ReduceLaunches ==
    ASSUME ReduceInv, Reduce!Start \/ \E m \in Mappers : Reduce!Launch(m)
    PROVE  ReduceInv'
<1> USE MappersAssumption
    DEF ReduceInv, ReduceTyped, MapPlaces, Reduce!StartPCs, Reduce!ThreadPCs, Reduce!Goes, Reduce!slots
<1>1. CASE Reduce!Start
  <2>1. /\ Reduce!n_mappers = Cardinality(Mappers) /\ Cardinality(Mappers) # 0
        /\ starts \in Nat
    BY UnendedSize
  <2>2. CASE mappers_in_progress # Reduce!n_mappers
    BY <1>1, <2>1, <2>2
       DEF Reduce!Start, MappersCounted, NobodyOutside, CallerInStep, ReducerInStep
  <2>3. CASE mappers_in_progress = Reduce!n_mappers
    <3>1. starts = 0
      BY <1>1, <2>1, <2>3 DEF Reduce!Start, NobodyOutside
    <3>2. Unended' = Mappers
      BY <1>1, <2>3 DEF Reduce!Start, NobodyOutside, Unended
    <3>3. ReduceTyped'
      BY <1>1, <2>3 DEF Reduce!Start
    <3>4. MappersCounted'
      BY <1>1, <2>1, <2>3, <3>1, <3>2 DEF Reduce!Start, MappersCounted, NobodyOutside
    <3> QED BY <1>1, <2>3, <3>1, <3>3, <3>4
            DEF Reduce!Start, NobodyOutside, CallerInStep, ReducerInStep
  <2> QED BY <2>2, <2>3
<1>2. ASSUME NEW m \in Mappers, Reduce!Launch(m) PROVE ReduceInv'
  <2>1. Unended' = Unended
    BY <1>2 DEF Reduce!Launch, Unended
  <2>2. ReduceTyped'
    BY <1>2 DEF Reduce!Launch
  <2>3. MappersCounted'
    BY <1>2, <2>1 DEF Reduce!Launch, MappersCounted
  <2>4. CallerInStep'
    BY <1>2 DEF Reduce!Launch, CallerInStep
  <2> QED BY <1>2, <2>2, <2>3, <2>4
          DEF Reduce!Launch, NobodyOutside, ReducerInStep
<1> QED BY <1>1, <1>2

LEMMA ReduceWaits ==
    ASSUME ReduceInv,
           Reduce!TestAndWait \/ Reduce!SpuriousWakeup \/ Reduce!RunReducer \/ Reduce!ReducerFinished
    PROVE  ReduceInv'
<1> USE MappersAssumption
    DEF ReduceInv, ReduceTyped, MapPlaces, Reduce!StartPCs, Reduce!ThreadPCs, Reduce!Goes, Reduce!slots
<1>1. Unended' = Unended
  BY DEF Reduce!TestAndWait, Reduce!SpuriousWakeup, Reduce!RunReducer, Reduce!ReducerFinished, Unended
<1>2. map_reduce_pc["start"] \notin {"outside", "aborted"}
  BY DEF Reduce!TestAndWait, Reduce!SpuriousWakeup, Reduce!RunReducer, Reduce!ReducerFinished
<1>3. mappers_in_progress \in Nat
  BY <1>2, UnendedSize DEF MappersCounted
<1>4. CASE Reduce!TestAndWait
  BY <1>1, <1>2, <1>3, <1>4
     DEF Reduce!TestAndWait, Reduce!AnyMapperInProgress,
         MappersCounted, NobodyOutside, CallerInStep, ReducerInStep
<1>5. CASE Reduce!SpuriousWakeup
  BY <1>1, <1>2, <1>5
     DEF Reduce!SpuriousWakeup, MappersCounted, NobodyOutside, CallerInStep, ReducerInStep
<1>6. CASE Reduce!RunReducer
  BY <1>1, <1>2, <1>6
     DEF Reduce!RunReducer, MappersCounted, NobodyOutside, CallerInStep, ReducerInStep
<1>7. CASE Reduce!ReducerFinished
  BY <1>1, <1>2, <1>7
     DEF Reduce!ReducerFinished, MappersCounted, NobodyOutside, CallerInStep, ReducerInStep
<1> QED BY <1>4, <1>5, <1>6, <1>7

LEMMA ReduceReturns ==
    ASSUME ReduceInv, Reduce!ReadAndCleanup
    PROVE  ReduceInv'
<1> USE MappersAssumption
    DEF ReduceInv, ReduceTyped, MapPlaces, Reduce!StartPCs, Reduce!ThreadPCs, Reduce!ReadAndCleanup,
        Reduce!Cleaned
<1>1. \A m \in Mappers : map_reduce_pc[m] = "ended"
  BY UnendedSize DEF MappersCounted, CallerInStep
<1>2. /\ map_reduce_pc'["start"] = "outside" /\ map_reduce_pc'["reducer"] = "none"
      /\ \A m \in Mappers : map_reduce_pc'[m] = "none"
      /\ map_reduce_pc'
            \in [Mappers \cup {"start", "reducer"} -> Reduce!StartPCs \cup Reduce!ThreadPCs]
  BY <1>1 DEF CallerInStep
<1> QED BY <1>2 DEF MappersCounted, NobodyOutside, CallerInStep, ReducerInStep

LEMMA ReduceMaps ==
    ASSUME ReduceInv, NEW m \in Mappers, Reduce!Mapper(m)
    PROVE  ReduceInv'
<1> USE MappersAssumption
    DEF ReduceInv, ReduceTyped, MapPlaces, Reduce!StartPCs, Reduce!ThreadPCs, Reduce!Goes, Reduce!slots
<1>1. map_reduce_pc[m] \in {"begun", "done"}
  BY DEF Reduce!Mapper, Reduce!Map, Reduce!MapperEnds
<1>2. /\ mappers_in_progress = Cardinality(Unended)
      /\ mappers_in_progress \in Nat \ {0} /\ starts = 1
      /\ map_reduce_pc["start"] \in {"launch", "wait", "asleep", "woken"}
  BY <1>1, UnendedSize DEF NobodyOutside, MappersCounted, CallerInStep
<1>3. CASE Reduce!Map(m)
  <2>1. Unended' = Unended
    BY <1>3 DEF Reduce!Map, Unended
  <2>2. MappersCounted'
    BY <1>2, <1>3, <2>1 DEF Reduce!Map, MappersCounted
  <2> QED BY <1>2, <1>3, <2>2
          DEF Reduce!Map, NobodyOutside, CallerInStep, ReducerInStep
<1>4. CASE Reduce!MapperEnds(m)
  <2>1. Unended' = Unended \ {m} /\ m \in Unended
    BY <1>4 DEF Reduce!MapperEnds, Unended
  <2>2. Cardinality(Unended \ {m}) = Cardinality(Unended) - 1
    BY <2>1, MappersAssumption, UnendedSize, SubsetSize
  <2>3. MappersCounted'
    BY <1>2, <1>4, <2>1, <2>2 DEF Reduce!MapperEnds, MappersCounted
  <2>4. ReduceTyped'
    BY <1>4 DEF Reduce!MapperEnds, Reduce!Broadcast
  <2>5. map_reduce_pc'["start"] \in {"launch", "wait", "woken"}
    BY <1>2, <1>4 DEF Reduce!MapperEnds, Reduce!Broadcast
  <2> QED BY <1>2, <1>4, <2>3, <2>4, <2>5
          DEF Reduce!MapperEnds, Reduce!Broadcast, NobodyOutside, CallerInStep, ReducerInStep
<1> QED BY <1>3, <1>4 DEF Reduce!Mapper

LEMMA ReduceReduces ==
    ASSUME ReduceInv, Reduce!Reducer
    PROVE  ReduceInv'
<1> USE MappersAssumption
    DEF ReduceInv, ReduceTyped, MapPlaces, Reduce!StartPCs, Reduce!ThreadPCs, Reduce!Goes, Reduce!slots
<1>1. map_reduce_pc["reducer"] \in {"begun", "flagged", "reduced", "posting"}
  BY DEF Reduce!Reducer, Reduce!ReducerBegins, Reduce!Reduce, Reduce!ReducerEnds, Reduce!ReducerPosts
<1>2. map_reduce_pc["start"] = "reduce" /\ reducer_finished_semaphore = 0
  BY <1>1 DEF CallerInStep
<1>3. \A m \in Mappers : map_reduce_pc[m] = "ended"
  BY <1>2, UnendedSize DEF MappersCounted, CallerInStep
<1>4. mapper_result_array = Mappers
  BY <1>2, <1>3 DEF MappersCounted
<1>5. Unended' = Unended
  BY DEF Reduce!Reducer, Reduce!ReducerBegins, Reduce!Reduce, Reduce!ReducerEnds,
         Reduce!ReducerPosts, Unended
<1>6. MappersCounted'
  BY <1>2, <1>5
     DEF Reduce!Reducer, Reduce!ReducerBegins, Reduce!Reduce, Reduce!ReducerEnds,
         Reduce!ReducerPosts, MappersCounted
<1>7. CASE Reduce!ReducerBegins
  BY <1>2, <1>6, <1>7 DEF Reduce!ReducerBegins, NobodyOutside, CallerInStep, ReducerInStep
<1>8. CASE Reduce!Reduce
  BY <1>2, <1>4, <1>6, <1>8 DEF Reduce!Reduce, NobodyOutside, CallerInStep, ReducerInStep
<1>9. CASE Reduce!ReducerEnds
  BY <1>2, <1>6, <1>9 DEF Reduce!ReducerEnds, NobodyOutside, CallerInStep, ReducerInStep
<1>10. CASE Reduce!ReducerPosts
  BY <1>2, <1>6, <1>10 DEF Reduce!ReducerPosts, NobodyOutside, CallerInStep, ReducerInStep
<1> QED BY <1>7, <1>8, <1>9, <1>10 DEF Reduce!Reducer

LEMMA ReduceKeeps == ReduceInv /\ [Reduce!Next]_Reduce!vars => ReduceInv'
<1>1. ASSUME ReduceInv, UNCHANGED Reduce!vars PROVE ReduceInv'
  <2>1. Unended' = Unended
    BY <1>1 DEF Reduce!vars, Unended
  <2> QED BY <1>1, <2>1
          DEF Reduce!vars, Reduce!slots, ReduceInv, ReduceTyped, MappersCounted, NobodyOutside,
              CallerInStep, ReducerInStep
<1> QED BY <1>1, ReduceLaunches, ReduceWaits, ReduceReturns, ReduceMaps, ReduceReduces
        DEF Reduce!Next, Reduce!Caller, Reduce!Finished

LEMMA ReduceAlways == DataSpec => []ReduceInv
<1>1. Reduce!Spec => []ReduceInv
  BY ReduceStarts, ReduceKeeps, PTL DEF Reduce!Spec
<1> QED BY <1>1, ReduceRuns, PTL

LEMMA ReduceIsTyped == ReduceInv => Reduce!TypeOK
<1> SUFFICES ASSUME ReduceInv PROVE Reduce!TypeOK
  OBVIOUS
<1>1. mappers_in_progress \in 0..Reduce!n_mappers /\ mapper_result_array \subseteq Mappers
  BY UnendedSize DEF ReduceInv, ReduceTyped, MappersCounted, NobodyOutside
<1> QED BY <1>1 DEF ReduceInv, ReduceTyped, MapPlaces, Reduce!TypeOK, Reduce!ThreadPCs

\* The reducer reads all results, after the last was written, and the first
\* start leaves nothing in progress (map_reduce_start).
LEMMA ReduceLosesNothing ==
    ReduceInv => Reduce!ReducesAll /\ Reduce!IdleReported /\ Reduce!AssertsHold
<1> SUFFICES ASSUME ReduceInv
             PROVE  Reduce!ReducesAll /\ Reduce!IdleReported /\ Reduce!AssertsHold
  OBVIOUS
<1>1. map_reduce_pc["reducer"] \in {"flagged", "reduced"} =>
          /\ \A m \in Mappers : map_reduce_pc[m] = "ended"
          /\ mapper_result_array = Mappers
  BY UnendedSize DEF ReduceInv, ReduceTyped, CallerInStep, MappersCounted
<1> QED BY <1>1
        DEF ReduceInv, ReduceTyped, MappersCounted, NobodyOutside, CallerInStep, ReducerInStep,
            Reduce!ReducesAll, Reduce!IdleReported, Reduce!InProgress, Reduce!AssertsHold

-----------------------------------------------------------------------------
(* The staged assembly line *)

LEMMA LineRuns == DataSpec => Line!Spec
<1>1. DataInit => Line!Init
  BY DEF DataInit
<1>2. [DataNext]_dataVars => [Line!Next]_Line!vars
  BY DEF DataNext, dataVars, varsLine, Line!vars, Line!queues, OthersReduce, OthersCrud,
         OthersNfc, OthersList, OthersGlue, OthersRw
<1> QED BY <1>1, <1>2, PTL DEF DataSpec, Line!Spec

LineTyped ==
    /\ patient \in BOOLEAN /\ accept_new_object \in BOOLEAN
    /\ n_workers_in_operation \in Nat
    /\ object_queue \in [Line!StageSet -> Seq(Objects)]
    /\ staged_line_hand \in [Line!StageSet -> Seq(Objects)]
    /\ staged_line_pc \in [Objects \cup {"main"} -> Line!ClientPCs \cup Line!MainPCs]
    /\ staged_line_pc["main"] \in Line!MainPCs
    /\ \A o \in Objects : staged_line_pc[o] \in Line!ClientPCs
    /\ wpc \in [Line!StageSet -> Line!WorkerPCs]
    /\ cancelled \subseteq Line!StageSet /\ freed \subseteq Line!StageSet
    /\ accepted \in Seq(Objects) /\ emitted \in Seq(Objects)

\* A worker has an object in its hand while it processes, and for ever if it
\* died over it.
LineHands ==
    \A s \in Line!StageSet :
        /\ wpc[s] = "process" => staged_line_hand[s] # <<>>
        /\ wpc[s] \notin {"process", "dead"} => staged_line_hand[s] = <<>>
        /\ wpc[s] = "asleep" => object_queue[s] = <<>>
        /\ wpc[s] = "dead" => s \in cancelled

\* The workers that have not counted themselves out.
CountedIn == {s \in Line!StageSet : wpc[s] = "top" \/ staged_line_hand[s] # <<>>}

LineCounted == n_workers_in_operation = Cardinality(CountedIn)

\* c[s] is what the line has from stage s on, the oldest first.
Divides(c) ==
    /\ c[1] = accepted /\ c[Stages + 1] = emitted
    /\ \A s \in Line!StageSet : c[s] = (c[s + 1] \o staged_line_hand[s]) \o object_queue[s]

LineDivided == \E c \in [1..(Stages + 1) -> Seq(Objects)] : Divides(c)

\* A client pushes its object once.
PushedOnce ==
    /\ OnceEach(accepted)
    /\ \A o \in Listed(accepted) : staged_line_pc[o] = "ended"

\* Workers are cancelled after main has seen none in operation.
LineDestroyed ==
    /\ freed \subseteq cancelled
    /\ cancelled # {} => staged_line_pc["main"] \notin {"open", "destroy", "asleep"}

LineEmptied ==
    /\ emitted = accepted
    /\ \A s \in Line!StageSet : staged_line_hand[s] = <<>> /\ object_queue[s] = <<>>
    /\ \A o \in Objects : staged_line_pc[o] = "ended"

\* Patient as main is, it finds the line empty, and it stays so.
LinePatient ==
    patient =>
        /\ staged_line_pc["main"] \notin {"assert_failed", "used_after_free"}
        /\ \A o \in Objects : staged_line_pc[o] # "used_after_free"
        /\ staged_line_pc["main"] # "open" => LineEmptied
        /\ staged_line_pc["main"] \in {"cleanup", "destroyed"} => n_workers_in_operation = 0

LineInv ==
    /\ LineTyped /\ LineHands /\ LineCounted /\ LineDivided
    /\ PushedOnce /\ LineDestroyed /\ LinePatient

LEMMA LineSameCardinality == \A S : Line!Cardinality(S) = Cardinality(S)
BY DEF Line!Cardinality, Cardinality

LEMMA StagesFinite == IsFiniteSet(Line!StageSet) /\ Cardinality(Line!StageSet) = Stages
BY ObjectsAssumption, FS_Interval DEF Line!StageSet

LEMMA CountedSize ==
    ASSUME NEW S \in SUBSET Line!StageSet
    PROVE  /\ Cardinality(S) \in 0..Stages
           /\ S = {} <=> Cardinality(S) = 0
           /\ \A s \in Line!StageSet :
                  /\ s \notin S => Cardinality(S \cup {s}) = Cardinality(S) + 1
                  /\ s \in S => Cardinality(S \ {s}) = Cardinality(S) - 1
BY StagesFinite, SubsetSize

LEMMA StageNumbers ==
    /\ 1 \in Line!StageSet /\ Stages \in Line!StageSet
    /\ 1 \in 1..(Stages + 1) /\ Stages + 1 \in 1..(Stages + 1)
    /\ \A s \in Line!StageSet :
           s \in 1..(Stages + 1) /\ s + 1 \in 1..(Stages + 1) /\ s + 1 # s /\ s # Stages + 1
    /\ \A s \in Line!StageSet : s < Stages => s + 1 \in Line!StageSet
    /\ \A s, r \in Line!StageSet : s + 1 = r + 1 <=> s = r
    /\ \A s \in Line!StageSet : s + 1 # 1
BY ObjectsAssumption DEF Line!StageSet

LEMMA LineStarts == Line!Init => LineInv
<1> SUFFICES ASSUME Line!Init PROVE LineInv
  OBVIOUS
<1> USE ObjectsAssumption
<1>1. <<>> \in Seq(Objects) /\ {} \subseteq Line!StageSet /\ Stages \in Nat
  BY EmptySeq
<1>2. LineTyped
  <2>1. staged_line_pc \in [Objects \cup {"main"} -> Line!ClientPCs \cup Line!MainPCs]
    BY DEF Line!Init, Line!ClientPCs, Line!MainPCs
  <2>2. staged_line_pc["main"] = "open" /\ \A o \in Objects : staged_line_pc[o] = "start"
    BY DEF Line!Init
  <2>3. wpc \in [Line!StageSet -> Line!WorkerPCs]
    BY DEF Line!Init, Line!Started, Line!WorkerPCs
  <2> QED BY <1>1, <2>1, <2>2, <2>3 DEF Line!Init, LineTyped, Line!ClientPCs, Line!MainPCs
<1>3. LineHands
  BY DEF Line!Init, Line!Started, LineHands
<1>4. LineCounted
  <2>1. CountedIn = Line!StageSet
    BY DEF Line!Init, Line!Started, CountedIn
  <2> QED BY <2>1, StagesFinite DEF Line!Init, LineCounted
<1>5. LineDivided
  <2>1. PICK c \in [1..(Stages + 1) -> Seq(Objects)] : c = [s \in 1..(Stages + 1) |-> <<>>]
    BY <1>1
  <2>2. (<<>> \o <<>>) \o <<>> = <<>>
    BY <1>1, ConcatEmptySeq
  <2>3. \A s \in 1..(Stages + 1) : c[s] = <<>>
    BY <2>1
  <2>4. Divides(c)
    BY <2>2, <2>3, StageNumbers DEF Divides, Line!Init
  <2> QED BY <2>4 DEF LineDivided
<1>6. PushedOnce
  BY DEF Line!Init, PushedOnce, OnceEach, Listed
<1>7. LineDestroyed /\ LinePatient
  <2>1. staged_line_pc["main"] = "open" /\ \A o \in Objects : staged_line_pc[o] = "start"
    BY DEF Line!Init
  <2> QED BY <2>1 DEF Line!Init, LineDestroyed, LinePatient
<1> QED BY <1>2, <1>3, <1>4, <1>5, <1>6, <1>7 DEF LineInv

\* When all objects have left the line, it is empty and no client pushes more.
LEMMA LineIsEmptied ==
    ASSUME LineInv, Len(emitted) = Cardinality(Objects)
    PROVE  LineEmptied
<1> USE ObjectsAssumption DEF LineInv, LineTyped
<1>1. PICK c \in [1..(Stages + 1) -> Seq(Objects)] : Divides(c)
  BY DEF LineDivided
<1>2. ASSUME NEW s \in Line!StageSet
      PROVE  /\ Len(c[s]) = Len(c[s + 1]) + Len(staged_line_hand[s]) + Len(object_queue[s])
             /\ Len(c[s + 1]) \in Nat /\ Len(staged_line_hand[s]) \in Nat
             /\ Len(object_queue[s]) \in Nat /\ Len(c[s]) \in Nat
  <2>1. /\ c[s] \in Seq(Objects) /\ c[s + 1] \in Seq(Objects)
        /\ staged_line_hand[s] \in Seq(Objects) /\ object_queue[s] \in Seq(Objects)
    BY StageNumbers
  <2>2. PICK x : x = c[s + 1] \o staged_line_hand[s]
    OBVIOUS
  <2>3. x \in Seq(Objects) /\ Len(x) = Len(c[s + 1]) + Len(staged_line_hand[s])
    BY <2>1, <2>2, ConcatProperties
  <2>4. Len(x \o object_queue[s]) = Len(x) + Len(object_queue[s])
    <3>1. PICK q \in Seq(Objects) : q = object_queue[s]
      BY <2>1
    <3>2. PICK w \in Seq(Objects) : IsCat(w, x, q)
      BY <2>3, Joined, Zenon
    <3>3. w = x \o q /\ Len(w) = Len(x) + Len(q)
      BY <3>2, Zenon DEF IsCat
    <3> QED BY <3>1, <3>3
  <2>5. c[s] = x \o object_queue[s]
    BY <1>1, <2>2 DEF Divides
  <2> QED BY <2>1, <2>3, <2>4, <2>5, LenProperties
<1>3. Len(accepted) <= Cardinality(Objects) /\ Len(accepted) \in Nat
  <2>1. /\ IsFiniteSet(Listed(accepted)) /\ Cardinality(Listed(accepted)) = Len(accepted)
        /\ Listed(accepted) \in SUBSET Objects
    BY ListSize DEF PushedOnce
  <2> QED BY <2>1, FS_Subset, LenProperties
<1>4. c[1] = accepted /\ c[Stages + 1] = emitted /\ Stages \in Nat
  BY <1>1 DEF Divides
<1>5. \A s \in 1..(Stages + 1) : Len(c[s]) >= Len(emitted)
  <2>1. PICK G : G = {s \in 1..(Stages + 1) : Len(c[s]) >= Len(emitted)}
    OBVIOUS
  <2>2. Len(emitted) \in Nat
    BY LenProperties
  <2>3. Stages + 1 \in G
    BY <1>4, <2>1, <2>2, StageNumbers
  <2>4. ASSUME NEW i \in 1..Stages, i + 1 \in G PROVE i \in G
    <3>1. i \in Line!StageSet /\ i \in 1..(Stages + 1)
      BY DEF Line!StageSet
    <3>2. Len(c[i + 1]) >= Len(emitted)
      BY <2>1, <2>4
    <3>3. Len(c[i]) >= Len(emitted)
      BY <1>2, <2>2, <3>1, <3>2
    <3> QED BY <2>1, <3>1, <3>3
  <2>5. \A s \in 1..(Stages + 1) : s \in G
    BY <1>4, <2>3, <2>4, DownTo
  <2> QED BY <2>1, <2>5
<1>6. \A s \in 1..(Stages + 1) : Len(c[s]) <= Len(accepted)
  <2>1. PICK G : G = {s \in 1..(Stages + 1) : Len(c[s]) <= Len(accepted)}
    OBVIOUS
  <2>2. 1 \in G
    BY <1>3, <1>4, <2>1, StageNumbers
  <2>3. ASSUME NEW i \in 1..Stages, i \in G PROVE i + 1 \in G
    <3>1. i \in Line!StageSet /\ i + 1 \in 1..(Stages + 1)
      BY DEF Line!StageSet
    <3>2. Len(c[i]) <= Len(accepted)
      BY <2>1, <2>3
    <3>3. Len(c[i + 1]) <= Len(accepted)
      BY <1>2, <1>3, <3>1, <3>2
    <3> QED BY <2>1, <3>1, <3>3
  <2>4. \A s \in 1..(Stages + 1) : s \in G
    BY <1>4, <2>2, <2>3, UpTo
  <2> QED BY <2>1, <2>4
<1>7. \A s \in 1..(Stages + 1) : Len(c[s]) = Cardinality(Objects) /\ Cardinality(Objects) \in Nat
  <2>1. \A s \in 1..(Stages + 1) : Len(c[s]) \in Nat
    BY LenProperties
  <2>2. Cardinality(Objects) \in Nat
    BY FS_CardinalityType
  <2> QED BY <1>3, <1>5, <1>6, <2>1, <2>2
<1>8. ASSUME NEW s \in Line!StageSet
      PROVE  staged_line_hand[s] = <<>> /\ object_queue[s] = <<>> /\ c[s + 1] = c[s]
  <2>1. Len(c[s]) = Cardinality(Objects) /\ Len(c[s + 1]) = Cardinality(Objects)
    BY <1>7, StageNumbers
  <2>2. Len(staged_line_hand[s]) = 0 /\ Len(object_queue[s]) = 0
    <3>1. PICK a, b, d, e : /\ a = Len(c[s]) /\ b = Len(c[s + 1])
                            /\ d = Len(staged_line_hand[s]) /\ e = Len(object_queue[s])
      OBVIOUS
    <3>2. a = b + d + e /\ a \in Nat /\ b \in Nat /\ d \in Nat /\ e \in Nat
      BY <1>2, <3>1, Zenon
    <3>3. a = b
      BY <2>1, <3>1
    <3> QED BY <3>1, <3>2, <3>3
  <2>3. staged_line_hand[s] = <<>> /\ object_queue[s] = <<>>
    BY <2>2, EmptySeq
  <2>4. c[s] = (c[s + 1] \o <<>>) \o <<>> /\ c[s + 1] \in Seq(Objects)
    BY <1>1, <2>3, StageNumbers DEF Divides
  <2> QED BY <2>3, <2>4, ConcatEmptySeq
<1>9. emitted = accepted
  <2>1. PICK G : G = {s \in 1..(Stages + 1) : c[s] = accepted}
    OBVIOUS
  <2>2. 1 \in G
    BY <1>4, <2>1, StageNumbers
  <2>3. ASSUME NEW i \in 1..Stages, i \in G PROVE i + 1 \in G
    BY <1>8, <2>1, <2>3, StageNumbers DEF Line!StageSet
  <2>4. \A s \in 1..(Stages + 1) : s \in G
    BY <1>4, <2>2, <2>3, UpTo
  <2> QED BY <1>4, <2>1, <2>4, StageNumbers
<1>10. Listed(accepted) = Objects
  <2>1. /\ Cardinality(Listed(accepted)) = Len(accepted) /\ Listed(accepted) \in SUBSET Objects
    BY ListSize DEF PushedOnce
  <2>2. Len(accepted) = Cardinality(Objects)
    BY <1>9
  <2> QED BY <2>1, <2>2, FS_Subset
<1> QED BY <1>8, <1>9, <1>10 DEF LineEmptied, PushedOnce

\* What a step keeps when no object moves: the worker s is in place w after it,
\* and n workers count.
LEMMA LineKeepsObjects ==
    ASSUME LineInv, UNCHANGED <<staged_line_hand, object_queue, accepted, emitted>>
    PROVE  LineDivided' /\ (UNCHANGED wpc => UNCHANGED CountedIn)
<1>1. PICK c \in [1..(Stages + 1) -> Seq(Objects)] : Divides(c)
  BY DEF LineInv, LineDivided
<1>2. Divides(c)'
  BY <1>1 DEF Divides
<1> QED BY <1>2 DEF LineDivided, CountedIn

LEMMA LineChecks ==
    ASSUME LineInv, NEW o \in Objects, Line!Check(o) \/ Line!EnqueueFreed(o)
    PROVE  LineInv'
<1> USE ObjectsAssumption DEF LineInv, Line!queues
<1>1. /\ UNCHANGED <<patient, accept_new_object, n_workers_in_operation, object_queue,
                     staged_line_hand, accepted, emitted, wpc, cancelled, freed>>
      /\ staged_line_pc[o] \in {"start", "checked"}
      /\ staged_line_pc'["main"] = staged_line_pc["main"]
      /\ staged_line_pc'[o] \in Line!ClientPCs
      /\ \A p \in Objects \ {o} : staged_line_pc'[p] = staged_line_pc[p]
      /\ staged_line_pc' \in [Objects \cup {"main"} -> Line!ClientPCs \cup Line!MainPCs]
      /\ staged_line_pc'[o] = "used_after_free" => 1 \in freed
  BY DEF Line!Check, Line!EnqueueFreed, LineTyped, Line!ClientPCs, Line!MainPCs
<1>2. LineTyped' /\ LineHands' /\ LineDestroyed'
  BY <1>1 DEF LineTyped, LineHands, LineDestroyed
<1>3. LineCounted' /\ LineDivided'
  BY <1>1, LineKeepsObjects DEF LineCounted
<1>4. PushedOnce'
  <2>1. accepted' = accepted
    BY <1>1
  <2>2. Listed(accepted) \subseteq Objects
    BY ListSize DEF PushedOnce, LineTyped
  <2>3. \A p \in Listed(accepted) : staged_line_pc'[p] = "ended"
    BY <1>1, <2>2 DEF PushedOnce
  <2> QED BY <2>1, <2>3 DEF PushedOnce
<1>5. LinePatient'
  BY <1>1 DEF LinePatient, LineEmptied, LineDestroyed
<1> QED BY <1>2, <1>3, <1>4, <1>5

LEMMA LineEnqueues ==
    ASSUME LineInv, NEW o \in Objects, Line!Enqueue(o)
    PROVE  LineInv'
<1> USE ObjectsAssumption DEF LineInv, Line!queues
<1>1. /\ staged_line_pc[o] = "checked" /\ staged_line_pc'["main"] = staged_line_pc["main"]
      /\ staged_line_pc' = [staged_line_pc EXCEPT ![o] = "ended"]
  BY DEF Line!Enqueue
<1>2. /\ object_queue[1] \in Seq(Objects) /\ Append(object_queue[1], o) \in Seq(Objects)
      /\ Append(object_queue[1], o) # <<>>
      /\ accepted' \in Seq(Objects)
  <2>1. PICK q : q = object_queue[1]
    OBVIOUS
  <2>2. q \in Seq(Objects)
    BY <2>1, StageNumbers DEF LineTyped
  <2>3. Append(q, o) \in Seq(Objects) /\ Append(q, o) # <<>>
    BY <2>2, AppendProperties
  <2>4. PICK r \in Seq(Objects) : r = accepted
    BY DEF LineTyped
  <2>5. Append(r, o) \in Seq(Objects)
    BY AppendProperties
  <2>6. accepted' = Append(accepted, o)
    BY DEF Line!Enqueue
  <2>7. accepted' \in Seq(Objects)
    BY <2>4, <2>5, <2>6
  <2> QED BY <2>1, <2>2, <2>3, <2>7
<1>3. /\ object_queue'[1] = Append(object_queue[1], o)
      /\ object_queue' \in [Line!StageSet -> Seq(Objects)]
      /\ \A s \in Line!StageSet \ {1} : object_queue'[s] = object_queue[s]
  BY <1>2, StageNumbers DEF Line!Enqueue, LineTyped
<1>4. /\ wpc' \in [Line!StageSet -> Line!WorkerPCs]
      /\ \A s \in Line!StageSet \ {1} : wpc'[s] = wpc[s]
      /\ wpc'[1] = IF wpc[1] = "asleep" THEN "woken" ELSE wpc[1]
  BY StageNumbers DEF Line!Enqueue, Line!Signalled, LineTyped, LineHands, Line!WorkerPCs
<1>5. LineTyped'
  BY <1>1, <1>2, <1>3, <1>4 DEF Line!Enqueue, LineTyped, Line!ClientPCs, Line!MainPCs
<1>6. LineHands' /\ LineDestroyed'
  BY <1>1, <1>3, <1>4, StageNumbers DEF Line!Enqueue, LineHands, LineDestroyed
<1>7. LineCounted'
  <2>1. CountedIn' = CountedIn
    BY <1>4 DEF Line!Enqueue, CountedIn
  <2> QED BY <2>1 DEF Line!Enqueue, LineCounted
<1>8. LineDivided'
  <2>1. PICK c \in [1..(Stages + 1) -> Seq(Objects)] : Divides(c)
    BY DEF LineDivided
  <2>2. PICK d \in [1..(Stages + 1) -> Seq(Objects)] : d = [c EXCEPT ![1] = Append(c[1], o)]
    BY StageNumbers, AppendProperties
  <2>3. /\ d[1] = Append(c[1], o)
        /\ \A s \in 1..(Stages + 1) : s # 1 => d[s] = c[s]
    BY <2>2, StageNumbers
  <2>4. d[1] = (c[1 + 1] \o staged_line_hand[1]) \o Append(object_queue[1], o)
    <3>1. c[1 + 1] \in Seq(Objects) /\ staged_line_hand[1] \in Seq(Objects)
      BY StageNumbers DEF LineTyped
    <3>2. PICK x : x = c[1 + 1] \o staged_line_hand[1]
      OBVIOUS
    <3>3. x \in Seq(Objects)
      BY <3>1, <3>2, ConcatProperties
    <3>4. c[1] = x \o object_queue[1] /\ c[1] \in Seq(Objects)
      BY <2>1, <3>2, StageNumbers DEF Divides
    <3>5. Append(x \o object_queue[1], o) = x \o Append(object_queue[1], o)
      <4>1. PICK q \in Seq(Objects) : q = object_queue[1]
        BY <1>2
      <4>2. Push(Cat(x, q), o) = Cat(x, Push(q, o))
        BY <3>3, PushAtEnd
      <4> QED BY <4>1, <4>2 DEF Push, Cat
    <3> QED BY <2>3, <3>2, <3>4, <3>5
  <2>5. Divides(d)'
    <3>1. d[1] = accepted' /\ d[Stages + 1] = emitted'
      BY <2>1, <2>3, StageNumbers DEF Divides, Line!Enqueue
    <3>2. ASSUME NEW s \in Line!StageSet
          PROVE  d[s] = (d[s + 1] \o staged_line_hand'[s]) \o object_queue'[s]
      <4>1. d[s + 1] = c[s + 1] /\ staged_line_hand' = staged_line_hand
        BY <2>3, StageNumbers DEF Line!Enqueue
      <4>2. CASE s = 1
        BY <1>3, <2>4, <4>1, <4>2
      <4>3. CASE s # 1
        <5>1. d[s] = c[s] /\ object_queue'[s] = object_queue[s]
          BY <1>3, <2>3, <4>3, StageNumbers
        <5> QED BY <2>1, <4>1, <5>1 DEF Divides
      <4> QED BY <4>2, <4>3
    <3> QED BY <3>1, <3>2 DEF Divides
  <2> QED BY <2>5 DEF LineDivided
<1>9. PushedOnce'
  <2>1. o \notin Listed(accepted) /\ accepted \in Seq(Objects)
    BY <1>1 DEF PushedOnce, LineTyped
  <2>2. PICK w : /\ w = Append(accepted, o) /\ OnceEach(w)
                 /\ Listed(w) = Listed(accepted) \cup {o}
    BY <2>1, JoinsList DEF PushedOnce
  <2>3. accepted' = w
    BY <2>2 DEF Line!Enqueue
  <2>4. \A p \in Listed(w) : staged_line_pc'[p] = "ended"
    <3>1. Listed(accepted) \subseteq Objects
      BY <2>1, ListSize DEF PushedOnce
    <3> QED BY <1>1, <2>2, <3>1 DEF PushedOnce, LineTyped
  <2> QED BY <2>2, <2>3, <2>4 DEF PushedOnce
<1>10. LinePatient'
  BY <1>1 DEF Line!Enqueue, LinePatient, LineEmptied, LineTyped
<1> QED BY <1>5, <1>6, <1>7, <1>8, <1>9, <1>10

LEMMA LineTakes ==
    ASSUME LineInv, NEW s \in Line!StageSet, Line!Take(s)
    PROVE  LineInv'
<1> USE ObjectsAssumption DEF LineInv
<1>1. /\ wpc[s] \in {"top", "woken"} /\ object_queue[s] # <<>>
      /\ staged_line_hand[s] = <<>>
      /\ wpc' = [wpc EXCEPT ![s] = "process"]
      /\ UNCHANGED <<patient, accept_new_object, staged_line_pc, cancelled, freed,
                     accepted, emitted>>
  BY DEF Line!Take, LineHands
<1>2. PICK q \in Seq(Objects), h \in Seq(Objects) :
          /\ h = <<Head(object_queue[s])>> /\ q = Tail(object_queue[s]) /\ h # <<>>
          /\ object_queue[s] = h \o q
  <2>1. PICK w \in Seq(Objects) : w = object_queue[s]
    BY DEF LineTyped
  <2>2. /\ First(w) \in Seq(Objects) /\ First(w) # <<>> /\ Tail(w) \in Seq(Objects)
        /\ w = Cat(First(w), Tail(w))
    BY <1>1, <2>1, TakesFirst
  <2>3. PICK h \in Seq(Objects), q \in Seq(Objects) : h = First(w) /\ q = Tail(w)
    BY <2>2
  <2> QED BY <2>1, <2>2, <2>3, Zenon DEF First, Cat
<1>3. /\ object_queue'[s] = q /\ object_queue' \in [Line!StageSet -> Seq(Objects)]
      /\ staged_line_hand'[s] = h /\ staged_line_hand' \in [Line!StageSet -> Seq(Objects)]
      /\ \A r \in Line!StageSet \ {s} :
             object_queue'[r] = object_queue[r] /\ staged_line_hand'[r] = staged_line_hand[r]
  BY <1>2 DEF Line!Take, LineTyped
<1>4. LineHands' /\ LineDestroyed' /\ PushedOnce'
  <2>1. LineHands' /\ LineDestroyed'
    BY <1>1, <1>2, <1>3 DEF LineHands, LineDestroyed, LineTyped
  <2>2. PushedOnce'
    BY <1>1 DEF PushedOnce
  <2> QED BY <2>1, <2>2
<1>5. LineCounted' /\ n_workers_in_operation' \in Nat
  <2>1. CountedIn' = CountedIn \cup {s} /\ CountedIn \in SUBSET Line!StageSet
    BY <1>1, <1>2, <1>3 DEF CountedIn, LineTyped
  <2>2. CASE wpc[s] = "top"
    <3>1. CountedIn \cup {s} = CountedIn
      BY <2>2 DEF CountedIn
    <3>2. n_workers_in_operation' = n_workers_in_operation
      BY <2>2 DEF Line!Take, LineTyped
    <3>3. CountedIn' = CountedIn
      BY <2>1, <3>1
    <3> QED BY <3>2, <3>3 DEF LineCounted, LineTyped
  <2>3. CASE wpc[s] = "woken"
    <3>1. s \notin CountedIn
      BY <1>1, <2>3 DEF CountedIn
    <3>2. Cardinality(CountedIn \cup {s}) = Cardinality(CountedIn) + 1
      BY <2>1, <3>1, CountedSize
    <3>3. n_workers_in_operation' = n_workers_in_operation + 1
      BY <2>3 DEF Line!Take
    <3> QED BY <2>1, <3>2, <3>3 DEF LineCounted, LineTyped
  <2> QED BY <1>1, <2>2, <2>3
<1>6. LineTyped'
  BY <1>1, <1>3, <1>5 DEF LineTyped, Line!WorkerPCs
<1>7. LineDivided'
  <2>1. PICK c \in [1..(Stages + 1) -> Seq(Objects)] : Divides(c)
    BY DEF LineDivided
  <2>2. c[s] = (c[s + 1] \o h) \o q
    <3>1. PICK d \in Seq(Objects) : d = c[s + 1]
      BY StageNumbers
    <3>2. PICK w : w = h \o q
      OBVIOUS
    <3>3. c[s] = (d \o <<>>) \o w
      BY <1>1, <1>2, <2>1, <3>1, <3>2 DEF Divides
    <3>4. d \o <<>> = d
      BY ConcatEmptySeq
    <3>5. (d \o h) \o q = d \o (h \o q)
      <4>1. Cat(Cat(d, h), q) = Cat(d, Cat(h, q))
        BY CatAssociative
      <4> QED BY <4>1 DEF Cat
    <3> QED BY <3>1, <3>2, <3>3, <3>4, <3>5
  <2>3. Divides(c)'
    BY <1>1, <1>3, <2>1, <2>2 DEF Divides
  <2> QED BY <2>3 DEF LineDivided
<1>8. LinePatient'
  BY <1>1 DEF LinePatient, LineEmptied
<1> QED BY <1>4, <1>5, <1>6, <1>7, <1>8

LEMMA LineSleeps ==
    ASSUME LineInv, NEW s \in Line!StageSet, Line!Sleep(s)
    PROVE  LineInv'
<1> USE ObjectsAssumption DEF LineInv, Line!queues
<1>1. /\ wpc[s] \in {"top", "woken"} /\ object_queue[s] = <<>>
      /\ staged_line_hand[s] = <<>>
      /\ wpc' = [wpc EXCEPT ![s] = "asleep"]
      /\ UNCHANGED <<patient, accept_new_object, object_queue, staged_line_hand, cancelled, freed,
                     accepted, emitted>>
  BY DEF Line!Sleep, LineHands
<1>2. /\ staged_line_pc' \in [Objects \cup {"main"} -> Line!ClientPCs \cup Line!MainPCs]
      /\ \A o \in Objects : staged_line_pc'[o] = staged_line_pc[o]
      /\ staged_line_pc'["main"] =
             IF staged_line_pc["main"] = "asleep" /\ ~accept_new_object THEN "destroy"
             ELSE staged_line_pc["main"]
  BY DEF Line!Sleep, Line!CountsOut, LineTyped, Line!MainPCs
<1>3. LineHands' /\ LineDestroyed'
  BY <1>1, <1>2 DEF LineHands, LineDestroyed, LineTyped
<1>4. PushedOnce'
  <2>1. Listed(accepted) \subseteq Objects
    BY ListSize DEF PushedOnce, LineTyped
  <2>2. \A p \in Listed(accepted) : staged_line_pc'[p] = "ended"
    BY <1>2, <2>1 DEF PushedOnce
  <2> QED BY <1>1, <2>2 DEF PushedOnce
<1>5. /\ LineCounted' /\ n_workers_in_operation' \in Nat
      /\ n_workers_in_operation = 0 => n_workers_in_operation' = 0
  <2>1. CountedIn' = CountedIn \ {s} /\ CountedIn \in SUBSET Line!StageSet
    BY <1>1 DEF CountedIn, LineTyped
  <2>2. CASE wpc[s] = "top"
    <3>1. s \in CountedIn /\ CountedIn \ {s} \in SUBSET Line!StageSet
      BY <2>1, <2>2 DEF CountedIn
    <3>2. Cardinality(CountedIn \ {s}) = Cardinality(CountedIn) - 1
      BY <2>1, <3>1, CountedSize
    <3>3. Cardinality(CountedIn \ {s}) \in 0..Stages
      BY <3>1, CountedSize
    <3> QED BY <2>1, <2>2, <3>2, <3>3 DEF Line!Sleep, Line!CountsOut, LineCounted, LineTyped
  <2>3. CASE wpc[s] = "woken"
    <3>1. CountedIn \ {s} = CountedIn
      BY <1>1, <2>3 DEF CountedIn
    <3>2. n_workers_in_operation' = n_workers_in_operation
      BY <2>3 DEF Line!Sleep, Line!CountsOut, LineTyped
    <3>3. CountedIn' = CountedIn
      BY <2>1, <3>1
    <3> QED BY <3>2, <3>3 DEF LineCounted, LineTyped
  <2> QED BY <1>1, <2>2, <2>3
<1>6. LineTyped'
  BY <1>1, <1>2, <1>5 DEF LineTyped, Line!WorkerPCs, Line!MainPCs
<1>7. LineDivided'
  BY <1>1, LineKeepsObjects
<1>8. LinePatient'
  BY <1>1, <1>2, <1>5 DEF LinePatient, LineEmptied
<1> QED BY <1>3, <1>4, <1>5, <1>6, <1>7, <1>8

\* A worker that wakes up or dies.
LEMMA LineWakes ==
    ASSUME LineInv, NEW s \in Line!StageSet, Line!SpuriousWakeup(s) \/ Line!Die(s)
    PROVE  LineInv'
<1> USE ObjectsAssumption DEF LineInv, Line!queues
<1>1. PICK place \in {"woken", "dead"} :
          /\ wpc' = [wpc EXCEPT ![s] = place]
          /\ wpc[s] \in {"asleep", "woken", "process"}
          /\ place = "woken" => wpc[s] = "asleep"
          /\ place = "dead" => s \in cancelled
          /\ UNCHANGED <<patient, accept_new_object, n_workers_in_operation, object_queue,
                         staged_line_hand, staged_line_pc, cancelled, freed, accepted, emitted>>
  BY DEF Line!SpuriousWakeup, Line!Die
<1>2. LineTyped' /\ LineHands' /\ LineDestroyed'
  BY <1>1 DEF LineTyped, LineHands, LineDestroyed, Line!WorkerPCs
<1>3. CountedIn' = CountedIn
  BY <1>1 DEF CountedIn, LineTyped
<1>4. LineCounted' /\ LineDivided' /\ PushedOnce'
  BY <1>1, <1>3, LineKeepsObjects DEF LineCounted, PushedOnce
<1>5. LinePatient'
  BY <1>1 DEF LinePatient, LineEmptied
<1> QED BY <1>2, <1>4, <1>5

\* A worker passes its object to the next stage.
LEMMA LineHandsOn ==
    ASSUME LineInv, NEW s \in Line!StageSet, Line!HandOn(s)
    PROVE  LineInv'
<1> USE ObjectsAssumption DEF LineInv
<1>1. /\ wpc[s] = "process" /\ s + 1 \in Line!StageSet /\ s + 1 # s
      /\ staged_line_hand[s] # <<>>
      /\ UNCHANGED <<patient, accept_new_object, n_workers_in_operation, staged_line_pc,
                     cancelled, freed, accepted, emitted>>
  BY StageNumbers DEF Line!HandOn, LineHands
<1>2. PICK h \in Seq(Objects), q \in Seq(Objects), r \in Seq(Objects) :
          h = staged_line_hand[s] /\ q = object_queue[s + 1] /\ r = q \o h
  <2>1. staged_line_hand[s] \in Seq(Objects) /\ object_queue[s + 1] \in Seq(Objects)
    BY <1>1 DEF LineTyped
  <2>2. PICK h \in Seq(Objects), q \in Seq(Objects) :
            h = staged_line_hand[s] /\ q = object_queue[s + 1]
    BY <2>1
  <2>3. q \o h \in Seq(Objects)
    BY ConcatProperties
  <2> QED BY <2>2, <2>3
<1>3. /\ object_queue' = [object_queue EXCEPT ![s + 1] = r]
      /\ staged_line_hand' = [staged_line_hand EXCEPT ![s] = <<>>]
  BY <1>1, <1>2 DEF Line!HandOn, LineTyped
<1>4. /\ object_queue'[s + 1] = r /\ object_queue' \in [Line!StageSet -> Seq(Objects)]
      /\ \A i \in Line!StageSet \ {s + 1} : object_queue'[i] = object_queue[i]
      /\ staged_line_hand'[s] = <<>> /\ staged_line_hand' \in [Line!StageSet -> Seq(Objects)]
      /\ \A i \in Line!StageSet \ {s} : staged_line_hand'[i] = staged_line_hand[i]
  <2>1. <<>> \in Seq(Objects)
    BY EmptySeq
  <2> QED BY <1>1, <1>2, <1>3, <2>1 DEF LineTyped
<1>5. /\ wpc'[s] = "top" /\ wpc' \in [Line!StageSet -> Line!WorkerPCs]
      /\ wpc'[s + 1] = IF wpc[s + 1] = "asleep" THEN "woken" ELSE wpc[s + 1]
      /\ \A i \in Line!StageSet \ {s, s + 1} : wpc'[i] = wpc[i]
  BY <1>1 DEF Line!HandOn, Line!Signalled, LineTyped, LineHands, Line!WorkerPCs
<1>6. LineTyped'
  BY <1>1, <1>4, <1>5 DEF LineTyped
<1>7. LineHands'
  <2>1. ASSUME NEW i \in Line!StageSet
        PROVE  /\ wpc'[i] = "process" => staged_line_hand'[i] # <<>>
               /\ wpc'[i] \notin {"process", "dead"} => staged_line_hand'[i] = <<>>
               /\ wpc'[i] = "asleep" => object_queue'[i] = <<>>
               /\ wpc'[i] = "dead" => i \in cancelled'
    <3>1. CASE i = s
      BY <1>1, <1>4, <1>5, <3>1
    <3>2. CASE i = s + 1
      BY <1>1, <1>4, <1>5, <3>2 DEF LineHands
    <3>3. CASE i \notin {s, s + 1}
      BY <1>1, <1>4, <1>5, <3>3 DEF LineHands
    <3> QED BY <3>1, <3>2, <3>3
  <2> QED BY <2>1 DEF LineHands
<1>8. LineCounted'
  <2>1. ASSUME NEW i \in Line!StageSet
        PROVE  (wpc'[i] = "top" \/ staged_line_hand'[i] # <<>>)
                   <=> (wpc[i] = "top" \/ staged_line_hand[i] # <<>>)
    <3>1. CASE i = s
      BY <1>1, <1>5, <3>1
    <3>2. CASE i = s + 1
      BY <1>1, <1>4, <1>5, <3>2
    <3>3. CASE i \notin {s, s + 1}
      BY <1>4, <1>5, <3>3
    <3> QED BY <3>1, <3>2, <3>3
  <2>2. CountedIn' = CountedIn
    BY <2>1 DEF CountedIn
  <2> QED BY <1>1, <2>2 DEF LineCounted
<1>9. LineDivided'
  <2>1. PICK c \in [1..(Stages + 1) -> Seq(Objects)] : Divides(c)
    BY DEF LineDivided
  <2>2. PICK a \in Seq(Objects), x \in Seq(Objects) : a = c[s + 1] /\ x = a \o h
    <3>1. PICK a \in Seq(Objects) : a = c[s + 1]
      BY StageNumbers
    <3>2. a \o h \in Seq(Objects)
      BY ConcatProperties
    <3> QED BY <3>1, <3>2
  <2>3. PICK d \in [1..(Stages + 1) -> Seq(Objects)] : d = [c EXCEPT ![s + 1] = x]
    BY <2>2, StageNumbers
  <2>4. /\ d[s + 1] = x /\ \A i \in 1..(Stages + 1) : i # s + 1 => d[i] = c[i]
    BY <2>3, StageNumbers
  <2>5. d[s] = (d[s + 1] \o <<>>) \o object_queue[s]
    <3>1. c[s] = x \o object_queue[s]
      BY <1>2, <2>1, <2>2 DEF Divides
    <3>2. x \o <<>> = x
      BY ConcatEmptySeq
    <3> QED BY <2>4, <3>1, <3>2, StageNumbers
  <2>6. d[s + 1] = (d[(s + 1) + 1] \o staged_line_hand[s + 1]) \o r
    <3>1. PICK y \in Seq(Objects), z \in Seq(Objects) :
              y = c[(s + 1) + 1] /\ z = staged_line_hand[s + 1]
      <4>1. s + 1 \in Line!StageSet /\ (s + 1) + 1 \in 1..(Stages + 1)
        BY <1>1, StageNumbers
      <4>2. c[(s + 1) + 1] \in Seq(Objects)
        BY <4>1
      <4>3. staged_line_hand[s + 1] \in Seq(Objects)
        BY <4>1 DEF LineTyped
      <4> QED BY <4>2, <4>3, Zenon
    <3>2. PICK w \in Seq(Objects) : w = y \o z
      <4>1. y \o z \in Seq(Objects)
        BY ConcatProperties
      <4> QED BY <4>1
    <3>3. a = w \o q
      <4>1. c[s + 1] = (c[(s + 1) + 1] \o staged_line_hand[s + 1]) \o object_queue[s + 1]
        BY <1>1, <2>1 DEF Divides
      <4> QED BY <1>2, <2>2, <3>1, <3>2, <4>1
    <3>4. (w \o q) \o h = w \o (q \o h)
      <4>1. Cat(Cat(w, q), h) = Cat(w, Cat(q, h))
        BY CatAssociative
      <4> QED BY <4>1 DEF Cat
    <3>5. x = w \o r
      BY <1>2, <2>2, <3>3, <3>4
    <3>6. d[(s + 1) + 1] = y
      BY <1>1, <2>4, <3>1, StageNumbers
    <3> QED BY <2>4, <3>1, <3>2, <3>5, <3>6
  <2>7. Divides(d)'
    <3>1. d[1] = accepted' /\ d[Stages + 1] = emitted'
      BY <1>1, <2>1, <2>4, StageNumbers DEF Divides
    <3>2. ASSUME NEW i \in Line!StageSet
          PROVE  d[i] = (d[i + 1] \o staged_line_hand'[i]) \o object_queue'[i]
      <4>1. CASE i = s
        BY <1>1, <1>4, <2>5, <4>1
      <4>2. CASE i = s + 1
        BY <1>1, <1>4, <2>6, <4>2
      <4>3. CASE i \notin {s, s + 1}
        <5>1. /\ d[i] = c[i] /\ d[i + 1] = c[i + 1] /\ object_queue'[i] = object_queue[i]
              /\ staged_line_hand'[i] = staged_line_hand[i]
          BY <1>4, <2>4, <4>3, StageNumbers
        <5> QED BY <2>1, <5>1 DEF Divides
      <4> QED BY <4>1, <4>2, <4>3
    <3> QED BY <3>1, <3>2 DEF Divides
  <2> QED BY <2>7 DEF LineDivided
<1>10. PushedOnce' /\ LineDestroyed'
  BY <1>1 DEF PushedOnce, LineDestroyed
<1>11. LinePatient'
  BY <1>1 DEF LinePatient, LineEmptied
<1> QED BY <1>6, <1>7, <1>8, <1>9, <1>10, <1>11

\* The worker of the last stage emits its object.
LEMMA LineEmits ==
    ASSUME LineInv, NEW s \in Line!StageSet, Line!Emit(s)
    PROVE  LineInv'
<1> USE ObjectsAssumption DEF LineInv
<1>1. /\ wpc[s] = "process" /\ s = Stages /\ staged_line_hand[s] # <<>>
      /\ UNCHANGED <<patient, accept_new_object, n_workers_in_operation, staged_line_pc,
                     object_queue, cancelled, freed, accepted>>
  BY DEF Line!Emit, LineHands
<1>2. PICK h \in Seq(Objects), e \in Seq(Objects), x \in Seq(Objects) :
          h = staged_line_hand[s] /\ e = emitted /\ x = e \o h
  <2>1. PICK h \in Seq(Objects), e \in Seq(Objects) : h = staged_line_hand[s] /\ e = emitted
    BY DEF LineTyped
  <2>2. e \o h \in Seq(Objects)
    BY ConcatProperties
  <2> QED BY <2>1, <2>2
<1>3. /\ emitted' = x
      /\ staged_line_hand'[s] = <<>> /\ staged_line_hand' \in [Line!StageSet -> Seq(Objects)]
      /\ \A i \in Line!StageSet \ {s} : staged_line_hand'[i] = staged_line_hand[i]
  <2>1. <<>> \in Seq(Objects)
    BY EmptySeq
  <2> QED BY <1>2, <2>1 DEF Line!Emit, LineTyped
<1>4. /\ wpc'[s] = "top" /\ wpc' \in [Line!StageSet -> Line!WorkerPCs]
      /\ \A i \in Line!StageSet \ {s} : wpc'[i] = wpc[i]
  BY DEF Line!Emit, LineTyped, Line!WorkerPCs
<1>5. LineTyped'
  BY <1>1, <1>2, <1>3, <1>4 DEF LineTyped
<1>6. LineHands'
  BY <1>1, <1>3, <1>4 DEF LineHands
<1>7. LineCounted'
  <2>1. CountedIn' = CountedIn
    BY <1>1, <1>3, <1>4 DEF CountedIn
  <2> QED BY <1>1, <2>1 DEF LineCounted
<1>8. LineDivided'
  <2>1. PICK c \in [1..(Stages + 1) -> Seq(Objects)] : Divides(c)
    BY DEF LineDivided
  <2>2. PICK d \in [1..(Stages + 1) -> Seq(Objects)] : d = [c EXCEPT ![Stages + 1] = x]
    BY StageNumbers
  <2>3. /\ d[Stages + 1] = x /\ \A i \in 1..(Stages + 1) : i # Stages + 1 => d[i] = c[i]
    BY <2>2, StageNumbers
  <2>4. d[s] = (d[s + 1] \o <<>>) \o object_queue[s]
    <3>1. c[s] = x \o object_queue[s]
      BY <1>1, <1>2, <2>1 DEF Divides
    <3>2. x \o <<>> = x
      BY ConcatEmptySeq
    <3> QED BY <1>1, <2>3, <3>1, <3>2, StageNumbers
  <2>5. Divides(d)'
    <3>1. d[1] = accepted' /\ d[Stages + 1] = emitted'
      <4>1. 1 # Stages + 1
        OBVIOUS
      <4> QED BY <1>1, <1>3, <2>1, <2>3, <4>1, StageNumbers DEF Divides
    <3>2. ASSUME NEW i \in Line!StageSet
          PROVE  d[i] = (d[i + 1] \o staged_line_hand'[i]) \o object_queue'[i]
      <4>1. CASE i = s
        BY <1>1, <1>3, <2>4, <4>1
      <4>2. CASE i # s
        <5>1. i + 1 # Stages + 1
          BY <1>1, <4>2, StageNumbers
        <5>2. /\ d[i] = c[i] /\ d[i + 1] = c[i + 1] /\ object_queue'[i] = object_queue[i]
              /\ staged_line_hand'[i] = staged_line_hand[i]
          BY <1>1, <1>3, <2>3, <4>2, <5>1, StageNumbers
        <5> QED BY <2>1, <5>2 DEF Divides
      <4> QED BY <4>1, <4>2
    <3> QED BY <3>1, <3>2 DEF Divides
  <2> QED BY <2>5 DEF LineDivided
<1>9. PushedOnce' /\ LineDestroyed'
  BY <1>1 DEF PushedOnce, LineDestroyed
<1>10. LinePatient'
  BY <1>1 DEF LinePatient, LineEmptied
<1> QED BY <1>5, <1>6, <1>7, <1>8, <1>9, <1>10

\* Only main's place changes, or whether objects are accepted.
LEMMA MainMoves ==
    ASSUME LineInv, NEW m \in Line!MainPCs,
           staged_line_pc' = [staged_line_pc EXCEPT !["main"] = m],
           accept_new_object' \in BOOLEAN,
           UNCHANGED <<patient, n_workers_in_operation, object_queue, staged_line_hand, wpc,
                       cancelled, freed, accepted, emitted>>,
           cancelled # {} => m \notin {"open", "destroy", "asleep"},
           patient => /\ m \notin {"assert_failed", "used_after_free"}
                      /\ m # "open" => LineEmptied
                      /\ m \in {"cleanup", "destroyed"} => n_workers_in_operation = 0
    PROVE  LineInv'
<1> USE ObjectsAssumption DEF LineInv
<1>1. /\ staged_line_pc'["main"] = m
      /\ \A o \in Objects : staged_line_pc'[o] = staged_line_pc[o]
      /\ staged_line_pc' \in [Objects \cup {"main"} -> Line!ClientPCs \cup Line!MainPCs]
  BY DEF LineTyped
<1>2. LineTyped' /\ LineHands' /\ LineDestroyed'
  BY <1>1 DEF LineTyped, LineHands, LineDestroyed
<1>3. LineCounted' /\ LineDivided'
  BY LineKeepsObjects DEF LineCounted
<1>4. PushedOnce'
  <2>1. Listed(accepted) \subseteq Objects
    BY ListSize DEF PushedOnce, LineTyped
  <2>2. \A p \in Listed(accepted) : staged_line_pc'[p] = "ended"
    BY <1>1, <2>1 DEF PushedOnce
  <2> QED BY <2>2 DEF PushedOnce
<1>5. LinePatient'
  BY <1>1 DEF LinePatient, LineEmptied
<1> QED BY <1>2, <1>3, <1>4, <1>5

LEMMA LineCloses ==
    ASSUME LineInv, Line!Close
    PROVE  LineInv'
<1>1. patient => LineEmptied
  <2>1. Line!Cardinality(Objects) = Cardinality(Objects)
    BY LineSameCardinality
  <2>2. patient => Len(emitted) = Cardinality(Objects)
    BY <2>1 DEF Line!Close
  <2> QED BY <2>2, LineIsEmptied
<1>2. cancelled = {}
  BY DEF Line!Close, LineInv, LineDestroyed
<1> QED BY <1>1, <1>2, MainMoves DEF Line!Close, Line!queues, Line!MainPCs

\* The next stage is gone, or main waits for the workers.
LEMMA MainWaits ==
    ASSUME LineInv,
           \/ \E s \in Line!StageSet : Line!HandOnFreed(s)
           \/ Line!AwaitWorkers \/ Line!MainSpurious \/ Line!Destroyed
    PROVE  LineInv'
<1> USE DEF LineInv, LineTyped, Line!queues, Line!MainPCs
<1>1. CASE \E s \in Line!StageSet : Line!HandOnFreed(s)
  <2>1. PICK s \in Line!StageSet : Line!HandOnFreed(s)
    BY <1>1
  <2>2. s + 1 \in cancelled /\ staged_line_hand[s] # <<>>
    BY <2>1 DEF Line!HandOnFreed, LineDestroyed, LineHands
  <2>3. ~patient
    BY <2>2 DEF LineDestroyed, LinePatient, LineEmptied
  <2> QED BY <2>1, <2>3, MainMoves DEF Line!HandOnFreed
<1>2. CASE Line!AwaitWorkers
  <2>1. cancelled = {} /\ (patient => LineEmptied)
    BY <1>2 DEF Line!AwaitWorkers, LineDestroyed, LinePatient
  <2>2. CASE n_workers_in_operation > 0
    BY <1>2, <2>1, <2>2, MainMoves DEF Line!AwaitWorkers
  <2>3. CASE ~(n_workers_in_operation > 0)
    <3>1. n_workers_in_operation = 0
      BY <2>3
    <3> QED BY <1>2, <2>1, <2>3, <3>1, MainMoves DEF Line!AwaitWorkers
  <2> QED BY <2>2, <2>3
<1>3. CASE Line!MainSpurious
  <2>1. cancelled = {} /\ (patient => LineEmptied)
    BY <1>3 DEF Line!MainSpurious, LineDestroyed, LinePatient
  <2> QED BY <1>3, <2>1, MainMoves DEF Line!MainSpurious
<1>4. CASE Line!Destroyed
  <2>1. patient => LineEmptied /\ n_workers_in_operation = 0
    BY <1>4 DEF Line!Destroyed, LinePatient
  <2>2. CASE n_workers_in_operation = 0
    BY <1>4, <2>1, <2>2, MainMoves DEF Line!Destroyed
  <2>3. CASE n_workers_in_operation # 0
    BY <1>4, <2>1, <2>3, MainMoves DEF Line!Destroyed
  <2> QED BY <2>2, <2>3
<1> QED BY <1>1, <1>2, <1>3, <1>4

\* asl_stage_cleanup
LEMMA LineCleansUp ==
    ASSUME LineInv, Line!Cancel \/ Line!JoinAndFree
    PROVE  LineInv'
<1> USE ObjectsAssumption DEF LineInv, Line!queues
<1>1. /\ staged_line_pc["main"] = "cleanup"
      /\ UNCHANGED <<patient, accept_new_object, n_workers_in_operation, object_queue,
                     staged_line_hand, wpc, staged_line_pc, accepted, emitted>>
  BY DEF Line!Cancel, Line!JoinAndFree
<1>2. Line!Last > 0 => Line!Last \in Line!StageSet
  <2>1. Line!Cardinality(freed) = Cardinality(freed)
    BY LineSameCardinality
  <2>2. Cardinality(freed) \in 0..Stages
    BY CountedSize DEF LineTyped
  <2> QED BY <2>1, <2>2 DEF Line!Last, Line!StageSet
<1>3. /\ cancelled \subseteq cancelled' /\ cancelled' \subseteq Line!StageSet
      /\ freed' \subseteq cancelled'
  BY <1>2 DEF Line!Cancel, Line!JoinAndFree, LineTyped, LineDestroyed, LineHands
<1>4. LineTyped' /\ LineHands' /\ LineDestroyed'
  BY <1>1, <1>3 DEF LineTyped, LineHands, LineDestroyed
<1>5. LineCounted' /\ LineDivided' /\ PushedOnce'
  BY <1>1, LineKeepsObjects DEF LineCounted, PushedOnce
<1>6. LinePatient'
  BY <1>1 DEF LinePatient, LineEmptied
<1> QED BY <1>4, <1>5, <1>6

LEMMA LineKeeps == LineInv /\ [Line!Next]_Line!vars => LineInv'
<1> SUFFICES ASSUME LineInv, [Line!Next]_Line!vars PROVE LineInv'
  OBVIOUS
<1>1. CASE UNCHANGED Line!vars
  <2>1. UNCHANGED <<patient, accept_new_object, n_workers_in_operation, object_queue,
                    staged_line_hand, staged_line_pc, wpc, cancelled, freed, accepted, emitted>>
    BY <1>1 DEF Line!vars, Line!queues
  <2>2. LineTyped' /\ LineHands' /\ LineDestroyed' /\ PushedOnce' /\ LinePatient'
    BY <2>1 DEF LineInv, LineTyped, LineHands, LineDestroyed, PushedOnce, LinePatient, LineEmptied
  <2>3. LineCounted' /\ LineDivided'
    BY <2>1, LineKeepsObjects DEF LineInv, LineCounted
  <2> QED BY <2>2, <2>3 DEF LineInv
<1>2. CASE \E o \in Objects : Line!Client(o)
  BY <1>2, LineChecks, LineEnqueues DEF Line!Client
<1>3. CASE \E s \in Line!StageSet : Line!Worker(s)
  BY <1>3, LineTakes, LineSleeps, LineHandsOn, MainWaits, LineEmits, LineWakes DEF Line!Worker
<1>4. CASE \E s \in Line!StageSet : Line!SpuriousWakeup(s)
  BY <1>4, LineWakes
<1>5. CASE Line!Main \/ Line!MainSpurious
  BY <1>5, LineCloses, MainWaits, LineCleansUp DEF Line!Main
<1> QED BY <1>1, <1>2, <1>3, <1>4, <1>5 DEF Line!Next, Line!Finished

\* The staged line keeps its invariant in every behaviour.
LEMMA LineAlways == DataSpec => []LineInv
<1>1. Line!Spec => []LineInv
  BY LineStarts, LineKeeps, PTL DEF Line!Spec
<1> QED BY <1>1, LineRuns, PTL

LEMMA LineIsTyped == LineInv => Line!TypeOK
<1> SUFFICES ASSUME LineInv PROVE Line!TypeOK
  OBVIOUS
<1>1. CountedIn \in SUBSET Line!StageSet
  BY DEF CountedIn
<1>2. n_workers_in_operation \in 0..Stages
  BY <1>1, CountedSize DEF LineInv, LineCounted
<1> QED BY <1>2 DEF LineInv, LineTyped, Line!TypeOK

\* What the line has from a stage on, computed from its end, is what the
\* invariant says there is.
LEMMA LineInOrder == LineInv => Line!InOrder
<1> SUFFICES ASSUME LineInv PROVE Line!Content[1] = accepted
  BY DEF Line!InOrder
<1> USE ObjectsAssumption
<1>1. PICK c \in [1..(Stages + 1) -> Seq(Objects)] : Divides(c)
  BY DEF LineInv, LineDivided
<1>2. ASSUME NEW i \in 1..(Stages + 1)
      PROVE  c[i] = IF i > Stages THEN emitted
                    ELSE (c[i + 1] \o staged_line_hand[i]) \o object_queue[i]
  <2>1. CASE i > Stages
    <3>1. i = Stages + 1
      BY <2>1
    <3> QED BY <1>1, <2>1, <3>1 DEF Divides
  <2>2. CASE ~(i > Stages)
    <3>1. i \in Line!StageSet
      BY <2>2 DEF Line!StageSet
    <3> QED BY <1>1, <2>2, <3>1 DEF Divides
  <2> QED BY <2>1, <2>2
<1>3. c = [i \in 1..(Stages + 1) |->
              IF i > Stages THEN emitted
              ELSE (c[i + 1] \o staged_line_hand[i]) \o object_queue[i]]
  BY <1>2
<1>4. PICK f : f = Line!Content
  OBVIOUS
<1>5. f = [i \in 1..(Stages + 1) |->
              IF i > Stages THEN emitted
              ELSE (f[i + 1] \o staged_line_hand[i]) \o object_queue[i]]
  BY <1>3, <1>4, Zenon DEF Line!Content
<1>6. \A i \in 1..(Stages + 1) : f[i] = c[i]
  <2>1. PICK G : G = {i \in 1..(Stages + 1) : f[i] = c[i]}
    OBVIOUS
  <2>2. Stages + 1 \in G
    <3>1. f[Stages + 1] = emitted
      <4>1. Stages + 1 > Stages /\ Stages + 1 \in 1..(Stages + 1)
        BY StageNumbers
      <4> QED BY <1>5, <4>1, Zenon
    <3> QED BY <1>1, <2>1, <3>1, StageNumbers DEF Divides
  <2>3. ASSUME NEW i \in 1..Stages, i + 1 \in G PROVE i \in G
    <3>1. i \in Line!StageSet /\ i \in 1..(Stages + 1) /\ ~(i > Stages)
      BY DEF Line!StageSet
    <3>2. f[i] = (f[i + 1] \o staged_line_hand[i]) \o object_queue[i]
      BY <1>5, <3>1
    <3>3. f[i + 1] = c[i + 1]
      BY <2>1, <2>3
    <3>4. c[i] = (c[i + 1] \o staged_line_hand[i]) \o object_queue[i]
      BY <1>1, <3>1 DEF Divides
    <3>5. f[i] = c[i]
      BY <3>2, <3>3, <3>4
    <3> QED BY <2>1, <3>1, <3>5
  <2>4. \A i \in 1..(Stages + 1) : i \in G
    BY <2>2, <2>3, DownTo
  <2> QED BY <2>1, <2>4
<1> QED BY <1>1, <1>4, <1>6, StageNumbers DEF Divides

LEMMA LineCountsExactly == LineInv => Line!WorkersExact
<1> SUFFICES ASSUME LineInv, cancelled = {}
             PROVE  /\ \A s \in Line!StageSet : wpc[s] = "asleep" => object_queue[s] = <<>>
                    /\ n_workers_in_operation = Line!Cardinality(Line!InOperation)
  BY DEF Line!WorkersExact
<1>1. CountedIn = Line!InOperation
  BY DEF LineInv, LineHands, CountedIn, Line!InOperation
<1>2. Line!Cardinality(Line!InOperation) = Cardinality(Line!InOperation)
  BY LineSameCardinality
<1> QED BY <1>1, <1>2 DEF LineInv, LineHands, LineCounted

LEMMA LineIsClean == LineInv => Line!CleanWhenEmpty
BY DEF LineInv, LineTyped, LinePatient, LineEmptied, Line!CleanWhenEmpty, Line!Running

-----------------------------------------------------------------------------
(* The two linked lists *)

LEMMA ListRuns == DataSpec => List!Spec
<1>1. DataInit => List!Init
  BY DEF DataInit
<1>2. [DataNext]_dataVars => [List!Next]_List!vars
  BY DEF DataNext, dataVars, varsList, List!vars, OthersLine, OthersReduce, OthersCrud,
         OthersNfc, OthersGlue, OthersRw
<1> QED BY <1>1, <1>2, PTL DEF DataSpec, List!Spec

LEMMA GlueRuns == DataSpec => Glue!Spec
<1>1. DataInit => Glue!Init
  BY DEF DataInit
<1>2. [DataNext]_dataVars => [Glue!Next]_Glue!vars
  BY DEF DataNext, dataVars, varsGlue, Glue!vars, OthersLine, OthersReduce, OthersCrud,
         OthersNfc, OthersList, OthersRw
<1> QED BY <1>1, <1>2, PTL DEF DataSpec, Glue!Spec

-----------------------------------------------------------------------------
(* The notification chain *)

LEMMA NfcRuns == DataSpec => Nfc!Spec
<1>1. DataInit => Nfc!Init
  BY DEF DataInit
<1>2. [DataNext]_dataVars => [Nfc!Next]_Nfc!vars
  BY DEF DataNext, dataVars, varsNfc, Nfc!vars, OthersLine, OthersReduce, OthersCrud,
         OthersList, OthersGlue, OthersRw
<1> QED BY <1>1, <1>2, PTL DEF DataSpec, Nfc!Spec

\* g is the walk of m steps from h by the links nx; NULL behind the last.
Steps(g, m, h, nx) ==
    \A i \in 1..m :
        g[i] = IF i = 1 THEN h ELSE IF g[i - 1] = NULL THEN NULL ELSE nx[g[i - 1]]

LEMMA WalkExists ==
    ASSUME NEW S, NEW m \in Nat, NEW h \in S \cup {NULL}, NEW nx \in [S -> S \cup {NULL}]
    PROVE  \E g \in [1..(m + 1) -> S \cup {NULL}] : Steps(g, m + 1, h, nx)
<1>1. PICK G : G = {n \in 1..(m + 1) : \E g \in [1..n -> S \cup {NULL}] : Steps(g, n, h, nx)}
  OBVIOUS
<1>2. 1 \in G
  <2>1. PICK g : g = [i \in 1..1 |-> h]
    OBVIOUS
  <2>2. g \in [1..1 -> S \cup {NULL}] /\ Steps(g, 1, h, nx)
    BY <2>1 DEF Steps
  <2>3. 1 \in 1..(m + 1)
    OBVIOUS
  <2> QED BY <1>1, <2>2, <2>3
<1>3. ASSUME NEW n \in 1..m, n \in G PROVE n + 1 \in G
  <2>1. PICK g \in [1..n -> S \cup {NULL}] : Steps(g, n, h, nx)
    BY <1>1, <1>3
  <2>2. PICK x \in S \cup {NULL} : x = IF g[n] = NULL THEN NULL ELSE nx[g[n]]
    OBVIOUS
  <2>3. PICK f : f = [i \in 1..(n + 1) |-> IF i = n + 1 THEN x ELSE g[i]]
    OBVIOUS
  <2>4. f \in [1..(n + 1) -> S \cup {NULL}]
    BY <2>3
  <2>5. ASSUME NEW i \in 1..(n + 1)
        PROVE  f[i] = IF i = 1 THEN h ELSE IF f[i - 1] = NULL THEN NULL ELSE nx[f[i - 1]]
    <3>1. CASE i = n + 1
      <4>1. i # 1 /\ i - 1 = n /\ n \in 1..(n + 1) /\ n # n + 1
        BY <3>1
      <4>2. f[i] = x /\ f[i - 1] = g[n]
        BY <2>3, <3>1, <4>1
      <4> QED BY <2>2, <4>1, <4>2
    <3>2. CASE i # n + 1
      <4>1. i \in 1..n /\ f[i] = g[i]
        BY <2>3, <3>2
      <4>2. i # 1 => f[i - 1] = g[i - 1]
        BY <2>3, <3>2
      <4> QED BY <2>1, <4>1, <4>2 DEF Steps
    <3> QED BY <3>1, <3>2
  <2>6. Steps(f, n + 1, h, nx)
    BY <2>5 DEF Steps
  <2>7. n + 1 \in 1..(m + 1)
    OBVIOUS
  <2> QED BY <1>1, <2>4, <2>6, <2>7
<1>4. m + 1 \in G
  <2>1. \A i \in 1..(m + 1) : i \in G
    BY <1>2, <1>3, UpTo
  <2> QED BY <2>1
<1> QED BY <1>1, <1>4

\* x is none, or put in before the i-th.
LeadsBack(x, p, i) == x = NULL \/ \E j \in 1..(i - 1) : x = p[j]

AllLeadBack(nx, p, c) == \A i \in 1..c : LeadsBack(nx[p[i]], p, i)

\* The walk f is at one of the first c, c - 1, ... of p, or at its end.
Fallen(f, m, p, c) ==
    \A i \in 1..m : f[i] = NULL \/ \E j \in 1..c : j <= (c + 1) - i /\ f[i] = p[j]

Distinct(p, n) == \A i, j \in 1..n : p[i] = p[j] => i = j

LEMMA DistinctFit ==
    ASSUME NEW S, IsFiniteSet(S), NEW n \in Nat, NEW p \in [1..n -> S], Distinct(p, n)
    PROVE  n <= Cardinality(S)
BY ChainSize DEF Distinct

\* A walk from the entry put in last, by links that lead back, comes to an
\* earlier one with each step.
LEMMA WalkFalls ==
    ASSUME NEW c \in Nat, NEW p, NEW m \in Nat, NEW h, NEW nx, NEW f, Steps(f, m + 1, h, nx),
           LeadsBack(h, p, c + 1), AllLeadBack(nx, p, c)
    PROVE  Fallen(f, m + 1, p, c)
<1>1. PICK G : G = {i \in 1..(m + 1) :
                        f[i] = NULL \/ \E j \in 1..c : j <= (c + 1) - i /\ f[i] = p[j]}
  OBVIOUS
<1>2. 1 \in G
  <2>1. 1 \in 1..(m + 1) /\ f[1] = h
    BY DEF Steps
  <2> QED BY <1>1, <2>1 DEF LeadsBack
<1>3. ASSUME NEW i \in 1..m, i \in G PROVE i + 1 \in G
  <2>1. i + 1 \in 1..(m + 1) /\ i + 1 # 1 /\ (i + 1) - 1 = i
    OBVIOUS
  <2>2. f[i + 1] = IF f[i] = NULL THEN NULL ELSE nx[f[i]]
    BY <2>1 DEF Steps
  <2>3. CASE f[i] = NULL
    BY <1>1, <2>1, <2>2, <2>3
  <2>4. CASE f[i] # NULL
    <3>1. PICK j \in 1..c : j <= (c + 1) - i /\ f[i] = p[j]
      BY <1>1, <1>3, <2>4
    <3>2. LeadsBack(f[i + 1], p, j)
      BY <2>2, <2>4, <3>1 DEF AllLeadBack
    <3>3. f[i + 1] = NULL \/ \E l \in 1..c : l <= (c + 1) - (i + 1) /\ f[i + 1] = p[l]
      BY <3>1, <3>2 DEF LeadsBack
    <3> QED BY <1>1, <2>1, <3>3
  <2> QED BY <2>3, <2>4
<1>4. \A i \in 1..(m + 1) : i \in G
  BY <1>2, <1>3, UpTo
<1> QED BY <1>1, <1>4 DEF Fallen

NfcPlaces == {"lookup", "readhead", "writehead", "link", "act", "register", "registered"}

NfcHands == [entry : Nfc!Entries \cup {NULL}, head : Nfc!Entries \cup {NULL} \cup Seq(Subscribers),
             new : BOOLEAN]

NfcTyped ==
    /\ spaced \in BOOLEAN
    /\ entries \in Seq(Nfc!Dests) /\ Len(entries) <= Nfc!MaxEntries
    /\ table_head \in Nfc!Entries \cup {NULL}
    /\ rt_next \in [Nfc!Entries -> Nfc!Entries \cup {NULL}]
    /\ chain \in [Nfc!Entries -> Seq(Subscribers)]
    /\ job \in [Nfc!Threads -> Seq(Nfc!Dests)]
    /\ notif_chain_hand \in [Nfc!Threads -> NfcHands]
    /\ DOMAIN told = Subscribers
    /\ version \in [Nfc!Entries -> Nat]
    /\ entered \in 0..Updates
    /\ notif_chain_pc \in [Nfc!Threads -> NfcPlaces]

Entry(t) == notif_chain_hand[t].entry
Read(t) == notif_chain_hand[t].head

\* A thread off the lookup has an entry in hand that exists, of the destination
\* that it works at; the publisher's updates are numbered.
NfcWorks ==
    /\ \A t \in Nfc!Threads :
           /\ Len(job[t]) <= 2
           /\ notif_chain_pc[t] # "lookup" =>
                 /\ job[t] # <<>> /\ Entry(t) \in 1..Len(entries)
                 /\ entries[Entry(t)] = Head(job[t])
           /\ notif_chain_pc[t] = "register" => Read(t) \in Seq(Subscribers)
    /\ \A e \in Nfc!Entries : version[e] + Len(job[0]) <= 2 + entered

Unlinked(t) == notif_chain_pc[t] \in {"readhead", "writehead"}
Inserting(t) == notif_chain_pc[t] \in {"readhead", "writehead", "link"}

\* No two threads put the same entry in.
NfcApart == \A t, u \in Nfc!Threads : Unlinked(t) /\ Unlinked(u) /\ Entry(t) = Entry(u) => t = u

\* p is the order in which the c entries were written into the head of the table:
\* an entry leads to one before it, and so will one not linked yet.
Ordered(c, p) ==
    /\ \A i, j \in 1..c : p[i] = p[j] => i = j
    /\ \A i \in 1..c : p[i] \in 1..Len(entries) /\ LeadsBack(rt_next[p[i]], p, i)
    /\ table_head = IF c = 0 THEN NULL ELSE p[c]
    /\ \A e \in Nfc!Entries : (\A i \in 1..c : p[i] # e) => rt_next[e] = NULL
    /\ \A t \in Nfc!Threads :
           /\ notif_chain_pc[t] = "writehead" => LeadsBack(Read(t), p, c + 1)
           /\ notif_chain_pc[t] = "link" =>
                  \E i \in 1..c : Entry(t) = p[i] /\ LeadsBack(Read(t), p, i)
           /\ Unlinked(t) => \A i \in 1..c : p[i] # Entry(t)

NfcOrder == \E c \in Nat : \E p \in [1..c -> Nfc!Entries] : Ordered(c, p)

\* If the threads overlap, each has a destination, and creates one entry at most.
Begun == {t \in Nfc!Threads : notif_chain_pc[t] # "lookup" \/ job[t] = <<>>}
NfcBegun ==
    ~spaced => /\ Len(entries) <= Cardinality(Begun)
               /\ \A t \in Nfc!Threads : Len(job[t]) <= 1

\* If they do not, the one at work has none before it that is not through.
NfcTurns ==
    spaced => \A t \in Nfc!Threads : notif_chain_pc[t] # "lookup" => Nfc!MayRun(t)

Below(n) == IF n <= 1 THEN NULL ELSE n - 1
Top(n) == IF n = 0 THEN NULL ELSE n

\* Then the table is its entries from the last to the first, but for the one that
\* is being put in.
NfcTable ==
    spaced =>
        /\ \A e, f \in 1..Len(entries) : entries[e] = entries[f] => e = f
        /\ \A t \in Nfc!Threads :
               /\ Inserting(t) => Entry(t) = Len(entries)
               /\ Unlinked(t) => table_head = Below(Len(entries))
               /\ notif_chain_pc[t] \in {"writehead", "link"} => Read(t) = Below(Len(entries))
        /\ (\A t \in Nfc!Threads : ~Unlinked(t)) => table_head = Top(Len(entries))
        /\ \A e \in 1..Len(entries) :
               e # Len(entries) \/ (\A t \in Nfc!Threads : ~Inserting(t)) => rt_next[e] = Below(e)

\* s is on the chain of an entry of d, and was told of its last update.
Knows(s, d) ==
    \E e \in 1..Len(entries) :
        /\ entries[e] = d /\ s \in Nfc!OnChain(e)
        /\ version[e] > 0 => <<e, version[e]>> \in told[s]

\* Then nothing is updated before the subscribers are through, and they know of
\* the destinations that they have registered for.
NfcKnown ==
    spaced =>
        \A s \in Subscribers :
            /\ job[s] \in {<<"122.1.1.1", "122.1.1.5">>, <<"122.1.1.5">>, <<>>}
            /\ job[s] # <<>> => \A e \in Nfc!Entries : version[e] = 0
            /\ notif_chain_pc[s] = "register" => Read(s) = chain[Entry(s)]
            /\ notif_chain_pc[s] = "registered" => s \in Nfc!OnChain(Entry(s))
            /\ Len(job[s]) < 2 => Knows(s, "122.1.1.1")
            /\ Len(job[s]) < 1 => Knows(s, "122.1.1.5")

NfcInv ==
    /\ NfcTyped /\ NfcWorks /\ NfcApart /\ NfcOrder /\ NfcBegun
    /\ NfcTurns /\ NfcTable /\ NfcKnown

LEMMA NfcSameCardinality == \A S : Nfc!Cardinality(S) = Cardinality(S)
BY DEF Nfc!Cardinality, Cardinality

LEMMA NfcNumbers ==
    /\ IsFiniteSet(Nfc!Threads) /\ Cardinality(Nfc!Threads) \in Nat /\ Nfc!Threads \subseteq Nat
    /\ 0 \in Nfc!Threads /\ 0 \notin Subscribers /\ Nfc!Threads = Subscribers \cup {0}
    /\ Nfc!MaxEntries \in Nat /\ Nfc!Entries = 1..Nfc!MaxEntries
    /\ Nfc!MaxEntries >= Cardinality(Nfc!Threads) /\ Nfc!MaxEntries >= 4
    /\ NULL \notin Nfc!Entries
<1> USE SubscribersAssumption
<1>1. /\ Nfc!Threads = Subscribers \cup {0} /\ 0 \notin Subscribers
      /\ Nfc!Threads \subseteq Nat
  BY DEF Nfc!Threads, Nfc!Publisher
<1>2. IsFiniteSet(Nfc!Threads) /\ Cardinality(Nfc!Threads) \in Nat
  BY <1>1, FS_AddElement, FS_CardinalityType
<1>3. Cardinality(Nfc!Threads) >= 2
  <2>1. Cardinality(Nfc!Threads) = Cardinality(Subscribers) + 1
    BY <1>1, FS_AddElement
  <2>2. Cardinality(Subscribers) \in Nat /\ Cardinality(Subscribers) # 0
    BY FS_EmptySet, FS_CardinalityType
  <2> QED BY <2>1, <2>2
<1>4. Nfc!MaxEntries = 2 * Cardinality(Nfc!Threads) + Updates
  BY NfcSameCardinality DEF Nfc!MaxEntries
<1>5. Nfc!MaxEntries \in Nat /\ Nfc!MaxEntries >= Cardinality(Nfc!Threads) /\ Nfc!MaxEntries >= 4
  BY <1>2, <1>3, <1>4
<1>6. Nfc!Entries = 1..Nfc!MaxEntries /\ NULL \notin Nfc!Entries
  BY <1>5 DEF Nfc!Entries
<1> QED BY <1>1, <1>2, <1>5, <1>6

\* The walk that Reached collects
ReachedWalk ==
    CHOOSE f : f = [i \in Nfc!Entries |->
        IF i = 1 THEN table_head ELSE IF f[i - 1] = NULL THEN NULL ELSE rt_next[f[i - 1]]]

\* Reached, and the walk of WalksEnd, are walks from the head of the table.
LEMMA NfcReached ==
    ASSUME NfcTyped
    PROVE  \E f \in [1..Nfc!MaxEntries -> Nfc!Entries \cup {NULL}] :
               /\ Steps(f, Nfc!MaxEntries, table_head, rt_next)
               /\ Nfc!Reached = {f[i] : i \in 1..Nfc!MaxEntries} \ {NULL}
<1>1. PICK m \in Nat : m + 1 = Nfc!MaxEntries
  <2>1. Nfc!MaxEntries - 1 \in Nat /\ (Nfc!MaxEntries - 1) + 1 = Nfc!MaxEntries
    BY NfcNumbers
  <2> QED BY <2>1
<1>2. PICK g \in [1..(m + 1) -> Nfc!Entries \cup {NULL}] : Steps(g, m + 1, table_head, rt_next)
  BY <1>1, WalkExists DEF NfcTyped
<1>3. g = [i \in Nfc!Entries |->
              IF i = 1 THEN table_head ELSE IF g[i - 1] = NULL THEN NULL ELSE rt_next[g[i - 1]]]
  <2>1. g = [i \in 1..(m + 1) |-> g[i]]
    BY <1>2
  <2>2. Nfc!Entries = 1..(m + 1)
    BY <1>1, NfcNumbers
  <2> QED BY <1>2, <2>1, <2>2 DEF Steps
<1>3a. PICK f : f = ReachedWalk
  OBVIOUS
<1>4. /\ f = [i \in Nfc!Entries |->
              IF i = 1 THEN table_head ELSE IF f[i - 1] = NULL THEN NULL ELSE rt_next[f[i - 1]]]
      /\ Nfc!Reached = {f[i] : i \in Nfc!Entries} \ {NULL}
  <2>1. f = [i \in Nfc!Entries |->
              IF i = 1 THEN table_head ELSE IF f[i - 1] = NULL THEN NULL ELSE rt_next[f[i - 1]]]
    BY <1>3, <1>3a, Zenon DEF ReachedWalk
  <2>2. Nfc!Reached = {ReachedWalk[i] : i \in Nfc!Entries} \ {NULL}
    BY Zenon DEF Nfc!Reached, ReachedWalk
  <2>3. \A x : x \in Nfc!Reached <=> x # NULL /\ \E i \in Nfc!Entries : x = f[i]
    BY <1>3a, <2>2
  <2>4. Nfc!Reached = {f[i] : i \in Nfc!Entries} \ {NULL}
    BY <2>3
  <2> QED BY <2>1, <2>4
<1>5. Steps(f, m + 1, table_head, rt_next)
  <2>1. Nfc!Entries = 1..(m + 1)
    BY <1>1, NfcNumbers
  <2> QED BY <1>4, <2>1 DEF Steps
<1>6. \A i \in 1..(m + 1) : f[i] = g[i]
  <2>1. PICK G : G = {i \in 1..(m + 1) : f[i] = g[i]}
    OBVIOUS
  <2>2. 1 \in G
    <3>1. 1 \in 1..(m + 1)
      OBVIOUS
    <3> QED BY <1>2, <1>5, <2>1, <3>1 DEF Steps
  <2>3. ASSUME NEW i \in 1..m, i \in G PROVE i + 1 \in G
    <3>1. i + 1 \in 1..(m + 1) /\ i + 1 # 1 /\ (i + 1) - 1 = i
      OBVIOUS
    <3>2. f[i] = g[i]
      BY <2>1, <2>3
    <3>3. f[i + 1] = IF f[i] = NULL THEN NULL ELSE rt_next[f[i]]
      BY <1>5, <3>1 DEF Steps
    <3>4. g[i + 1] = IF g[i] = NULL THEN NULL ELSE rt_next[g[i]]
      BY <1>2, <3>1 DEF Steps
    <3> QED BY <2>1, <3>1, <3>2, <3>3, <3>4
  <2>4. \A i \in 1..(m + 1) : i \in G
    BY <2>2, <2>3, UpTo
  <2> QED BY <2>1, <2>4
<1>7. Nfc!Entries = 1..Nfc!MaxEntries
  BY NfcNumbers
<1>8. f \in [1..(m + 1) -> Nfc!Entries \cup {NULL}]
  BY <1>1, <1>2, <1>4, <1>6, <1>7
<1> QED BY <1>1, <1>4, <1>5, <1>7, <1>8

\* The walk comes to entries only.
LEMMA NfcFindsEntries ==
    ASSUME NfcTyped, NEW c \in Nat, NEW p \in [1..c -> Nfc!Entries], Ordered(c, p)
    PROVE  Nfc!Reached \subseteq 1..Len(entries)
<1>1. PICK f \in [1..Nfc!MaxEntries -> Nfc!Entries \cup {NULL}] :
          /\ Steps(f, Nfc!MaxEntries, table_head, rt_next)
          /\ Nfc!Reached = {f[i] : i \in 1..Nfc!MaxEntries} \ {NULL}
  BY NfcReached
<1>2. PICK m \in Nat : m + 1 = Nfc!MaxEntries
  <2>1. Nfc!MaxEntries - 1 \in Nat /\ (Nfc!MaxEntries - 1) + 1 = Nfc!MaxEntries
    BY NfcNumbers
  <2> QED BY <2>1
<1>3. LeadsBack(table_head, p, c + 1) /\ AllLeadBack(rt_next, p, c)
  <2>1. LeadsBack(table_head, p, c + 1)
    BY DEF Ordered, LeadsBack
  <2> QED BY <2>1 DEF Ordered, AllLeadBack
<1>4. \A i \in 1..(m + 1) : f[i] = NULL \/ \E j \in 1..c : j <= (c + 1) - i /\ f[i] = p[j]
  <2>1. Fallen(f, m + 1, p, c)
    BY <1>1, <1>2, <1>3, WalkFalls
  <2> QED BY <2>1 DEF Fallen
<1>5. ASSUME NEW x \in Nfc!Reached PROVE x \in 1..Len(entries)
  <2>1. PICK i \in 1..(m + 1) : x = f[i] /\ f[i] # NULL
    BY <1>1, <1>2, <1>5
  <2>2. PICK j \in 1..c : f[i] = p[j]
    BY <1>4, <2>1
  <2> QED BY <2>1, <2>2 DEF Ordered
<1> QED BY <1>5

\* The walk of WalksEnd
LaterWalk ==
    CHOOSE f : f = [n \in 0..Nfc!MaxEntries |->
        IF n = 0 THEN table_head ELSE IF f[n - 1] = NULL THEN NULL ELSE rt_next[f[n - 1]]]

\* However the threads overlap, a walk along the table ends: it comes to an entry
\* put in earlier with each step.
LEMMA NfcEnds == NfcInv => Nfc!WalksEnd
<1> SUFFICES ASSUME NfcInv PROVE Nfc!WalksEnd
  OBVIOUS
<1>1. PICK m \in Nat : m = Nfc!MaxEntries
  BY NfcNumbers
<1>2. PICK g \in [1..(m + 1) -> Nfc!Entries \cup {NULL}] : Steps(g, m + 1, table_head, rt_next)
  BY WalkExists DEF NfcInv, NfcTyped
<1>3. PICK h : h = [n \in 0..m |-> g[n + 1]]
  OBVIOUS
<1>4. ASSUME NEW n \in 0..m
      PROVE  h[n] = IF n = 0 THEN table_head
                    ELSE IF h[n - 1] = NULL THEN NULL ELSE rt_next[h[n - 1]]
  <2>1. n + 1 \in 1..(m + 1) /\ (n + 1 = 1 <=> n = 0) /\ (n + 1) - 1 = n /\ h[n] = g[n + 1]
    BY <1>3
  <2>2. n # 0 => h[n - 1] = g[n]
    BY <1>3
  <2> QED BY <1>2, <2>1, <2>2 DEF Steps
<1>5. h = [n \in 0..m |-> IF n = 0 THEN table_head
                          ELSE IF h[n - 1] = NULL THEN NULL ELSE rt_next[h[n - 1]]]
  BY <1>3, <1>4
<1>6. PICK f : f = LaterWalk
  OBVIOUS
<1>7. f = [n \in 0..m |-> IF n = 0 THEN table_head
                          ELSE IF f[n - 1] = NULL THEN NULL ELSE rt_next[f[n - 1]]]
  BY <1>1, <1>5, <1>6, Zenon DEF LaterWalk
<1>8. PICK w : w = [i \in 1..(m + 1) |-> f[i - 1]]
  OBVIOUS
<1>9. Steps(w, m + 1, table_head, rt_next)
  <2>1. ASSUME NEW i \in 1..(m + 1)
        PROVE  w[i] = IF i = 1 THEN table_head
                      ELSE IF w[i - 1] = NULL THEN NULL ELSE rt_next[w[i - 1]]
    <3>1. i - 1 \in 0..m /\ (i - 1 = 0 <=> i = 1) /\ w[i] = f[i - 1]
      BY <1>8
    <3>2. i # 1 => w[i - 1] = f[(i - 1) - 1]
      BY <1>8
    <3>3. f[i - 1] = IF i - 1 = 0 THEN table_head
                     ELSE IF f[(i - 1) - 1] = NULL THEN NULL ELSE rt_next[f[(i - 1) - 1]]
      BY <1>7, <3>1
    <3> QED BY <3>1, <3>2, <3>3
  <2> QED BY <2>1 DEF Steps
<1>10. PICK c \in Nat : \E p \in [1..c -> Nfc!Entries] : Ordered(c, p)
  BY DEF NfcInv, NfcOrder
<1>11. PICK p \in [1..c -> Nfc!Entries] : Ordered(c, p)
  BY <1>10
<1>12. c <= m
  <2>1. Distinct(p, c)
    BY <1>11 DEF Ordered, Distinct
  <2>2. Nfc!Entries = 1..m /\ IsFiniteSet(1..m) /\ Cardinality(1..m) = m
    BY <1>1, NfcNumbers, FS_Interval
  <2>3. p \in [1..c -> 1..m]
    BY <2>2
  <2> QED BY <2>1, <2>2, <2>3, DistinctFit
<1>13. LeadsBack(table_head, p, c + 1) /\ AllLeadBack(rt_next, p, c)
  <2>1. LeadsBack(table_head, p, c + 1)
    BY <1>11 DEF Ordered, LeadsBack
  <2> QED BY <1>11, <2>1 DEF Ordered, AllLeadBack
<1>14. \A i \in 1..(m + 1) : w[i] = NULL \/ \E j \in 1..c : j <= (c + 1) - i /\ w[i] = p[j]
  <2>1. Fallen(w, m + 1, p, c)
    BY <1>9, <1>13, WalkFalls
  <2> QED BY <2>1 DEF Fallen
<1>15. w[m + 1] = NULL
  <2>1. m + 1 \in 1..(m + 1)
    OBVIOUS
  <2> QED BY <1>12, <1>14, <2>1
<1>16. f[m] = NULL
  <2>1. m + 1 \in 1..(m + 1) /\ (m + 1) - 1 = m
    OBVIOUS
  <2> QED BY <1>8, <1>15, <2>1
<1>17. LaterWalk[Nfc!MaxEntries] = NULL
  BY <1>1, <1>6, <1>16
<1> QED BY <1>17, Zenon DEF Nfc!WalksEnd, LaterWalk

LEMMA NfcIsTyped == NfcInv => Nfc!TypeOK
<1> SUFFICES ASSUME NfcInv PROVE Nfc!TypeOK
  OBVIOUS
<1> USE NfcNumbers DEF NfcInv
<1>1. spaced \in BOOLEAN /\ entered \in 0..Updates
  BY DEF NfcTyped
<1>2. Len(entries) \in 0..Nfc!MaxEntries /\ \A e \in 1..Len(entries) : entries[e] \in Nfc!Dests
  BY DEF NfcTyped
<1>3. table_head \in Nfc!Entries \cup {NULL} /\ rt_next \in [Nfc!Entries -> Nfc!Entries \cup {NULL}]
  BY DEF NfcTyped
<1>4. ASSUME NEW e \in Nfc!Entries PROVE Nfc!OnChain(e) \subseteq Subscribers
  <2>1. chain[e] \in Seq(Subscribers)
    BY DEF NfcTyped
  <2>2. \A i \in 1..Len(chain[e]) : chain[e][i] \in Subscribers
    BY <2>1, ElementOfSeq
  <2> QED BY <2>2 DEF Nfc!OnChain
<1>5. \A t \in Nfc!Threads : Len(job[t]) <= 2
  BY DEF NfcWorks
<1>6. version \in [Nfc!Entries -> 0..(Updates + 2)]
  <2>1. ASSUME NEW e \in Nfc!Entries PROVE version[e] \in 0..(Updates + 2)
    <3>1. /\ Len(job[0]) \in Nat /\ version[e] \in Nat
          /\ version[e] + Len(job[0]) <= 2 + entered
      <4>1. PICK q \in Seq(Nfc!Dests) : q = job[0]
        BY DEF NfcTyped
      <4>2. Len(job[0]) \in Nat
        BY <4>1
      <4>3. version[e] \in Nat
        BY DEF NfcTyped
      <4>4. version[e] + Len(job[0]) <= 2 + entered
        BY DEF NfcWorks
      <4> QED BY <4>2, <4>3, <4>4
    <3>2. PICK a, b, c : a = version[e] /\ b = Len(job[0]) /\ c = entered
      OBVIOUS
    <3>3. /\ a \in Nat /\ b \in Nat /\ c \in Nat /\ Updates \in Nat
          /\ a + b <= 2 + c /\ c <= Updates
      BY <1>1, <3>1, <3>2, SubscribersAssumption
    <3>4. a \in 0..(Updates + 2)
      BY <3>3
    <3> QED BY <3>2, <3>4
  <2> QED BY <2>1 DEF NfcTyped
<1>7. notif_chain_pc \in [Nfc!Threads -> NfcPlaces]
  BY DEF NfcTyped
<1> QED BY <1>1, <1>2, <1>3, <1>4, <1>5, <1>6, <1>7 DEF Nfc!TypeOK, NfcPlaces

\* The table from the last entry to the first
LEMMA NfcReachesAll ==
    ASSUME NfcTyped, table_head = Top(Len(entries)),
           \A e \in 1..Len(entries) : rt_next[e] = Below(e)
    PROVE  Nfc!Reached = 1..Len(entries)
<1>1. PICK f \in [1..Nfc!MaxEntries -> Nfc!Entries \cup {NULL}] :
          /\ Steps(f, Nfc!MaxEntries, table_head, rt_next)
          /\ Nfc!Reached = {f[i] : i \in 1..Nfc!MaxEntries} \ {NULL}
  BY NfcReached
<1>2. PICK m \in Nat : m + 1 = Nfc!MaxEntries
  <2>1. Nfc!MaxEntries - 1 \in Nat /\ (Nfc!MaxEntries - 1) + 1 = Nfc!MaxEntries
    BY NfcNumbers
  <2> QED BY <2>1
<1>3. PICK n \in Nat : n = Len(entries) /\ n <= m + 1
  BY <1>2 DEF NfcTyped
<1>4. NULL \notin Nat
  BY SubscribersAssumption
<1>5. \A i \in 1..(m + 1) : f[i] = IF i <= n THEN (n + 1) - i ELSE NULL
  <2>1. PICK G : G = {i \in 1..(m + 1) : f[i] = IF i <= n THEN (n + 1) - i ELSE NULL}
    OBVIOUS
  <2>2. 1 \in G
    <3>1. 1 \in 1..(m + 1) /\ f[1] = table_head
      BY <1>1, <1>2 DEF Steps
    <3> QED BY <1>3, <2>1, <3>1 DEF Top
  <2>3. ASSUME NEW i \in 1..m, i \in G PROVE i + 1 \in G
    <3>1. i + 1 \in 1..(m + 1) /\ i + 1 # 1 /\ (i + 1) - 1 = i
      OBVIOUS
    <3>2. f[i + 1] = IF f[i] = NULL THEN NULL ELSE rt_next[f[i]]
      BY <1>1, <1>2, <3>1 DEF Steps
    <3>3. f[i] = IF i <= n THEN (n + 1) - i ELSE NULL
      BY <2>1, <2>3
    <3>4. CASE i <= n
      <4>1. f[i] \in 1..n /\ f[i] # NULL /\ f[i] = (n + 1) - i
        BY <1>4, <3>3, <3>4
      <4>2. f[i + 1] = Below((n + 1) - i)
        BY <1>3, <3>2, <4>1
      <4>3. f[i + 1] = IF i + 1 <= n THEN (n + 1) - (i + 1) ELSE NULL
        BY <3>4, <4>2 DEF Below
      <4> QED BY <2>1, <3>1, <4>3
    <3>5. CASE ~(i <= n)
      <4>1. f[i + 1] = NULL /\ ~(i + 1 <= n)
        BY <3>2, <3>3, <3>5
      <4> QED BY <2>1, <3>1, <4>1
    <3> QED BY <3>4, <3>5
  <2>4. \A i \in 1..(m + 1) : i \in G
    BY <2>2, <2>3, UpTo
  <2> QED BY <2>1, <2>4
<1>6. ASSUME NEW x PROVE x \in Nfc!Reached <=> x \in 1..n
  <2>1. ASSUME x \in Nfc!Reached PROVE x \in 1..n
    <3>1. PICK i \in 1..(m + 1) : x = f[i] /\ f[i] # NULL
      BY <1>1, <1>2, <2>1
    <3> QED BY <1>5, <3>1
  <2>2. ASSUME x \in 1..n PROVE x \in Nfc!Reached
    <3>1. PICK i \in 1..(m + 1) : i = (n + 1) - x
      BY <1>3, <2>2
    <3>2. f[i] = x /\ x # NULL
      BY <1>4, <1>5, <2>2, <3>1
    <3> QED BY <1>1, <1>2, <3>2
  <2> QED BY <2>1, <2>2
<1> QED BY <1>3, <1>6

LEMMA NfcIsExact == NfcInv => Nfc!TableExact
<1> SUFFICES ASSUME NfcInv, spaced, \A t \in Nfc!Threads : notif_chain_pc[t] = "lookup"
             PROVE  /\ Nfc!Reached = 1..Len(entries)
                    /\ \A e, f \in 1..Len(entries) : entries[e] = entries[f] => e = f
  BY DEF Nfc!TableExact, Nfc!AtRest
<1>1. \A t \in Nfc!Threads : ~Inserting(t) /\ ~Unlinked(t)
  BY DEF Inserting, Unlinked
<1>2. /\ table_head = Top(Len(entries)) /\ \A e \in 1..Len(entries) : rt_next[e] = Below(e)
      /\ \A e, f \in 1..Len(entries) : entries[e] = entries[f] => e = f
  BY <1>1 DEF NfcInv, NfcTable
<1>3. Nfc!Reached = 1..Len(entries)
  BY <1>2, NfcReachesAll DEF NfcInv
<1> QED BY <1>2, <1>3

LEMMA NfcNotifies == NfcInv => Nfc!Notified
<1> SUFFICES ASSUME NfcInv, spaced, NEW s \in Subscribers, NEW i \in {1, 2}, Len(job[s]) < 3 - i
             PROVE  Knows(s, Nfc!SubscriberJob[i])
  BY DEF Nfc!Notified, Knows
<1>1. Nfc!SubscriberJob[1] = "122.1.1.1" /\ Nfc!SubscriberJob[2] = "122.1.1.5"
  BY DEF Nfc!SubscriberJob
<1>2. /\ Len(job[s]) < 2 => Knows(s, "122.1.1.1")
      /\ Len(job[s]) < 1 => Knows(s, "122.1.1.5")
  BY DEF NfcInv, NfcKnown
<1>3. CASE i = 1
  BY <1>1, <1>2, <1>3
<1>4. CASE i = 2
  BY <1>1, <1>2, <1>4
<1> QED BY <1>3, <1>4

LEMMA NfcStarts == Nfc!Init => NfcInv
<1> SUFFICES ASSUME Nfc!Init PROVE NfcInv
  OBVIOUS
<1> USE NfcNumbers, SubscribersAssumption
<1>1. /\ entries = <<>> /\ Len(entries) = 0 /\ table_head = NULL /\ entered = 0
      /\ rt_next = [e \in Nfc!Entries |-> NULL] /\ chain = [e \in Nfc!Entries |-> <<>>]
      /\ version = [e \in Nfc!Entries |-> 0] /\ spaced \in BOOLEAN
      /\ \A t \in Nfc!Threads : notif_chain_pc[t] = "lookup"
  BY DEF Nfc!Init
<1>2. job = [t \in Nfc!Threads |->
                IF ~spaced THEN <<"122.1.1.1">>
                ELSE IF t = 0 THEN Nfc!PublisherJob ELSE Nfc!SubscriberJob]
  BY DEF Nfc!Init, Nfc!Publisher
<1>3. \A t \in Nfc!Threads : job[t] \in Seq(Nfc!Dests) /\ Len(job[t]) <= 2 /\ job[t] # <<>>
                             /\ (~spaced => Len(job[t]) <= 1)
                             /\ Len(job[t]) \in Nat
  <2>1. /\ Nfc!PublisherJob \in Seq(Nfc!Dests) /\ Len(Nfc!PublisherJob) = 2
        /\ Nfc!SubscriberJob \in Seq(Nfc!Dests) /\ Len(Nfc!SubscriberJob) = 2
    BY DEF Nfc!PublisherJob, Nfc!SubscriberJob, Nfc!Dests
  <2>2. <<"122.1.1.1">> \in Seq(Nfc!Dests) /\ Len(<<"122.1.1.1">>) = 1
    BY DEF Nfc!Dests
  <2>3. /\ Nfc!PublisherJob # <<>> /\ Nfc!SubscriberJob # <<>>
        /\ <<"122.1.1.1">> # <<>>
    BY DEF Nfc!PublisherJob, Nfc!SubscriberJob
  <2>4. ASSUME NEW t \in Nfc!Threads
        PROVE  /\ job[t] \in Seq(Nfc!Dests) /\ Len(job[t]) <= 2 /\ job[t] # <<>>
               /\ (~spaced => Len(job[t]) <= 1) /\ Len(job[t]) \in Nat
    <3>1. CASE ~spaced
      BY <1>2, <2>2, <2>3, <3>1
    <3>2. CASE spaced /\ t = 0
      <4>1. job[t] = Nfc!PublisherJob
        BY <1>2, <3>2
      <4>2. spaced = TRUE
        BY <3>2, Zenon
      <4>3. Len(job[t]) = 2
        BY <2>1, <4>1
      <4>4. job[t] \in Seq(Nfc!Dests) /\ job[t] # <<>>
        BY <2>1, <2>3, <4>1
      <4> QED BY <4>2, <4>3, <4>4
    <3>3. CASE spaced /\ t # 0
      BY <1>2, <2>1, <2>3, <3>3
    <3> QED BY <3>1, <3>2, <3>3
  <2> QED BY <2>4
<1>4. NfcTyped
  <2>1. /\ job \in [Nfc!Threads -> Seq(Nfc!Dests)]
    BY <1>2, <1>3
  <2>2. notif_chain_hand \in [Nfc!Threads -> NfcHands]
    BY DEF Nfc!Init, Nfc!Empty, NfcHands
  <2>3. notif_chain_pc \in [Nfc!Threads -> NfcPlaces] /\ DOMAIN told = Subscribers
    BY DEF Nfc!Init, NfcPlaces
  <2>4. entries \in Seq(Nfc!Dests) /\ <<>> \in Seq(Subscribers)
    BY <1>1
  <2> QED BY <1>1, <2>1, <2>2, <2>3, <2>4 DEF NfcTyped
<1>5. NfcWorks
  BY <1>1, <1>3 DEF NfcWorks
<1>6. NfcApart /\ NfcTurns
  BY <1>1 DEF NfcApart, NfcTurns, Unlinked
<1>7. NfcOrder
  <2>1. PICK p : p = [i \in 1..0 |-> NULL]
    OBVIOUS
  <2>2. p \in [1..0 -> Nfc!Entries] /\ Ordered(0, p)
    BY <1>1, <2>1 DEF Ordered, Unlinked
  <2> QED BY <2>2 DEF NfcOrder
<1>8. NfcBegun
  <2>1. Cardinality(Begun) \in Nat
    BY FS_Subset, FS_CardinalityType DEF Begun
  <2> QED BY <1>1, <1>3, <2>1 DEF NfcBegun
<1>9. NfcTable
  BY <1>1 DEF NfcTable, Inserting, Unlinked, Top
<1>10. NfcKnown
  <2>1. spaced => \A s \in Subscribers : job[s] = <<"122.1.1.1", "122.1.1.5">>
    BY <1>2 DEF Nfc!SubscriberJob
  <2>2. Len(<<"122.1.1.1", "122.1.1.5">>) = 2
    OBVIOUS
  <2>3. spaced => \A s \in Subscribers : ~(Len(job[s]) < 2) /\ ~(Len(job[s]) < 1)
    <3>1. ASSUME spaced, NEW s \in Subscribers PROVE Len(job[s]) = 2
      BY <2>1, <2>2, <3>1, Zenon
    <3>2. \A k : k = 2 => ~(k < 2) /\ ~(k < 1)
      OBVIOUS
    <3> QED BY <3>1, <3>2, Zenon
  <2>4. \A s \in Subscribers :
            /\ notif_chain_pc[s] # "register" /\ notif_chain_pc[s] # "registered"
            /\ \A e \in Nfc!Entries : version[e] = 0
    BY <1>1
  <2> QED BY <2>1, <2>3, <2>4 DEF NfcKnown
<1> QED BY <1>4, <1>5, <1>6, <1>7, <1>8, <1>9, <1>10 DEF NfcInv

\* Without overlap, a thread that has work to do and whose turn it is is alone.
LEMMA NfcAlone ==
    ASSUME NfcWorks, NfcTurns, spaced, NEW t \in Nfc!Threads, Nfc!MayRun(t),
           t = 0 \/ job[t] # <<>>
    PROVE  \A u \in Nfc!Threads \ {t} : notif_chain_pc[u] = "lookup"
<1> SUFFICES ASSUME NEW u \in Nfc!Threads, u # t, notif_chain_pc[u] # "lookup" PROVE FALSE
  OBVIOUS
<1> USE NfcNumbers DEF Nfc!MayRun, Nfc!Through, Nfc!Publisher
<1>1. job[u] # <<>> /\ Nfc!MayRun(u)
  BY DEF NfcWorks, NfcTurns
<1>2. t # 0 => t \in Subscribers /\ job[t] # <<>>
  OBVIOUS
<1>3. u # 0 => u \in Subscribers
  OBVIOUS
<1>4. t \in Nat /\ u \in Nat
  OBVIOUS
<1> QED BY <1>1, <1>2, <1>3, <1>4

\* The count of the threads that have begun cannot go down.
LEMMA NfcBegunKept ==
    ASSUME NfcBegun, spaced' = spaced, Len(entries') = Len(entries), Len(entries) \in Nat,
           ~spaced => \A t \in Nfc!Threads : /\ Len(job'[t]) <= 1
                                             /\ t \in Begun => t \in Begun'
    PROVE  NfcBegun'
<1>1. Begun \subseteq Nfc!Threads /\ Begun' \subseteq Nfc!Threads
  BY DEF Begun
<1>2. IsFiniteSet(Begun') /\ Cardinality(Begun') \in Nat
  BY <1>1, NfcNumbers, FS_Subset, FS_CardinalityType
<1>3. ASSUME ~spaced PROVE Cardinality(Begun) <= Cardinality(Begun') /\ Cardinality(Begun) \in Nat
  <2>1. Begun \subseteq Begun'
    BY <1>1, <1>3
  <2> QED BY <1>2, <2>1, FS_Subset, FS_CardinalityType
<1> QED BY <1>2, <1>3 DEF NfcBegun

\* A thread has read the head of a list.
HandRead(g, h, t, x) ==
    /\ g \in [Nfc!Threads -> NfcHands]
    /\ g[t].entry = h[t].entry /\ g[t].head = x /\ g[t].new = h[t].new
    /\ \A u \in Nfc!Threads \ {t} : g[u] = h[u]

LEMMA NfcHandRead ==
    ASSUME NEW h \in [Nfc!Threads -> NfcHands], NEW t \in Nfc!Threads,
           NEW x \in Nfc!Entries \cup {NULL} \cup Seq(Subscribers),
           NEW g, g = [h EXCEPT ![t].head = x]
    PROVE  HandRead(g, h, t, x)
<1>1. PICK r : r = [h[t] EXCEPT !.head = x]
  OBVIOUS
<1>2. r \in NfcHands /\ r.entry = h[t].entry /\ r.head = x /\ r.new = h[t].new
  <2>1. h[t] \in NfcHands
    OBVIOUS
  <2> QED BY <1>1, <2>1 DEF NfcHands
<1>3. g = [h EXCEPT ![t] = r]
  BY <1>1
<1> QED BY <1>2, <1>3 DEF HandRead

\* The head of the table, read
LEMMA NfcReads ==
    ASSUME NfcInv, NEW t \in Nfc!Threads, Nfc!ReadHead(t)
    PROVE  NfcInv'
<1> USE NfcNumbers DEF NfcInv
<1>1. /\ notif_chain_pc[t] = "readhead"
      /\ notif_chain_pc' = [notif_chain_pc EXCEPT ![t] = "writehead"]
      /\ notif_chain_hand' = [notif_chain_hand EXCEPT ![t].head = table_head]
      /\ spaced' = spaced /\ entries' = entries /\ table_head' = table_head /\ rt_next' = rt_next
      /\ chain' = chain /\ job' = job /\ told' = told /\ version' = version /\ entered' = entered
  BY DEF Nfc!ReadHead, Nfc!Goto
<1>1a. /\ notif_chain_hand' \in [Nfc!Threads -> NfcHands]
       /\ notif_chain_hand'[t].entry = notif_chain_hand[t].entry
       /\ notif_chain_hand'[t].head = table_head
       /\ \A u \in Nfc!Threads \ {t} : notif_chain_hand'[u] = notif_chain_hand[u]
  <2>1. PICK h, g, x : h = notif_chain_hand /\ g = notif_chain_hand' /\ x = table_head
    OBVIOUS
  <2>2. HandRead(g, h, t, x)
    BY <1>1, <2>1, NfcHandRead DEF NfcTyped
  <2> QED BY <2>1, <2>2 DEF HandRead
<1>2. /\ notif_chain_pc'[t] = "writehead" /\ Entry(t)' = Entry(t) /\ Read(t)' = table_head
      /\ Unlinked(t) /\ Unlinked(t)' /\ Inserting(t) /\ Inserting(t)'
  BY <1>1, <1>1a DEF NfcTyped, Entry, Read, Unlinked, Inserting
<1>3. ASSUME NEW u \in Nfc!Threads, u # t
      PROVE  /\ notif_chain_pc'[u] = notif_chain_pc[u] /\ Entry(u)' = Entry(u)
             /\ Read(u)' = Read(u) /\ Unlinked(u)' = Unlinked(u) /\ Inserting(u)' = Inserting(u)
  BY <1>1, <1>1a, <1>3 DEF NfcTyped, Entry, Read, Unlinked, Inserting
<1>4. NfcTyped'
  BY <1>1, <1>1a DEF NfcTyped, NfcPlaces
<1>5. NfcWorks'
  BY <1>1, <1>2, <1>3 DEF NfcWorks
<1>6. NfcApart'
  BY <1>2, <1>3 DEF NfcApart
<1>7. NfcOrder'
  <2>1. PICK c \in Nat : \E p \in [1..c -> Nfc!Entries] : Ordered(c, p)
    BY DEF NfcOrder
  <2>2. PICK p \in [1..c -> Nfc!Entries] : Ordered(c, p)
    BY <2>1
  <2>3. LeadsBack(table_head, p, c + 1)
    BY <2>2 DEF Ordered, LeadsBack
  <2>4. Ordered(c, p)'
    BY <1>1, <1>2, <1>3, <2>2, <2>3 DEF Ordered
  <2> QED BY <2>4 DEF NfcOrder
<1>8. NfcBegun'
  BY <1>1, <1>2, <1>3, NfcBegunKept DEF NfcTyped, NfcBegun, Begun
<1>9. NfcTurns'
  BY <1>1, <1>2, <1>3 DEF NfcTurns, Nfc!MayRun, Nfc!Through
<1>10. NfcTable'
  BY <1>1, <1>2, <1>3 DEF NfcTable
<1>11. NfcKnown'
  <2> SUFFICES ASSUME spaced, NEW s \in Subscribers
               PROVE  /\ job'[s] \in {<<"122.1.1.1", "122.1.1.5">>, <<"122.1.1.5">>, <<>>}
                      /\ job'[s] # <<>> => \A e \in Nfc!Entries : version'[e] = 0
                      /\ notif_chain_pc'[s] = "register" => Read(s)' = chain'[Entry(s)']
                      /\ notif_chain_pc'[s] = "registered" => (s \in Nfc!OnChain(Entry(s)))'
                      /\ Len(job'[s]) < 2 => Knows(s, "122.1.1.1")'
                      /\ Len(job'[s]) < 1 => Knows(s, "122.1.1.5")'
    BY <1>1 DEF NfcKnown
  <2>1. s \in Nfc!Threads
    OBVIOUS
  <2>2. ASSUME NEW d, Knows(s, d) PROVE Knows(s, d)'
    BY <1>1, <2>2 DEF Knows, Nfc!OnChain
  <2>3. notif_chain_pc'[s] = "register" => Read(s)' = chain'[Entry(s)']
    <3>1. ASSUME notif_chain_pc'[s] = "register" PROVE Read(s)' = chain'[Entry(s)']
      <4>1. s # t
        BY <1>2, <3>1
      <4> QED BY <1>1, <1>3, <2>1, <3>1, <4>1 DEF NfcKnown
    <3> QED BY <3>1
  <2>4. notif_chain_pc'[s] = "registered" => (s \in Nfc!OnChain(Entry(s)))'
    <3>1. ASSUME notif_chain_pc'[s] = "registered" PROVE (s \in Nfc!OnChain(Entry(s)))'
      <4>1. s # t
        BY <1>2, <3>1
      <4>2. s \in Nfc!OnChain(Entry(s)) /\ Entry(s)' = Entry(s)
        BY <1>3, <2>1, <3>1, <4>1 DEF NfcKnown
      <4> QED BY <1>1, <4>2 DEF Nfc!OnChain
    <3> QED BY <3>1
  <2>5. /\ job[s] \in {<<"122.1.1.1", "122.1.1.5">>, <<"122.1.1.5">>, <<>>}
        /\ job[s] # <<>> => \A e \in Nfc!Entries : version[e] = 0
        /\ Len(job[s]) < 2 => Knows(s, "122.1.1.1")
        /\ Len(job[s]) < 1 => Knows(s, "122.1.1.5")
    BY DEF NfcKnown
  <2> QED BY <1>1, <2>2, <2>3, <2>4, <2>5
<1> QED BY <1>4, <1>5, <1>6, <1>7, <1>8, <1>9, <1>10, <1>11

LEMMA LeadsBackKept ==
    ASSUME NEW c \in Nat, NEW p, NEW q, \A i \in 1..c : q[i] = p[i],
           NEW x, NEW i \in 1..(c + 1), LeadsBack(x, p, i)
    PROVE  LeadsBack(x, q, i)
<1>1. \A j \in 1..(i - 1) : j \in 1..c
  OBVIOUS
<1> QED BY <1>1 DEF LeadsBack

\* The head of the table, written: the entry is the last in the order.
LEMMA NfcWrites ==
    ASSUME NfcInv, NEW t \in Nfc!Threads, Nfc!MayRun(t), Nfc!WriteHead(t)
    PROVE  NfcInv'
<1> USE NfcNumbers DEF NfcInv
<1>1. /\ notif_chain_pc[t] = "writehead"
      /\ notif_chain_pc' = [notif_chain_pc EXCEPT ![t] = "link"]
      /\ table_head' = Entry(t) /\ notif_chain_hand' = notif_chain_hand
      /\ spaced' = spaced /\ entries' = entries /\ rt_next' = rt_next
      /\ chain' = chain /\ job' = job /\ told' = told /\ version' = version /\ entered' = entered
  BY DEF Nfc!WriteHead, Nfc!Goto, Entry
<1>2. /\ notif_chain_pc'[t] = "link" /\ Unlinked(t) /\ ~Unlinked(t)' /\ Inserting(t) /\ Inserting(t)'
      /\ Entry(t) \in 1..Len(entries) /\ Entry(t) \in Nfc!Entries /\ job[t] # <<>>
      /\ Entry(t)' = Entry(t) /\ Read(t)' = Read(t)
  <2>1. notif_chain_pc'[t] = "link"
    BY <1>1 DEF NfcTyped
  <2>2. Unlinked(t) /\ ~Unlinked(t)' /\ Inserting(t) /\ Inserting(t)'
    BY <1>1, <2>1 DEF Unlinked, Inserting
  <2>3. Entry(t) \in 1..Len(entries) /\ job[t] # <<>>
    BY <1>1 DEF NfcWorks
  <2>4. Entry(t) \in Nfc!Entries
    BY <2>3 DEF NfcTyped
  <2> QED BY <1>1, <2>1, <2>2, <2>3, <2>4 DEF Entry, Read
<1>3. ASSUME NEW u \in Nfc!Threads, u # t
      PROVE  /\ notif_chain_pc'[u] = notif_chain_pc[u] /\ Entry(u)' = Entry(u)
             /\ Read(u)' = Read(u) /\ Unlinked(u)' = Unlinked(u) /\ Inserting(u)' = Inserting(u)
  BY <1>1, <1>3 DEF NfcTyped, Entry, Read, Unlinked, Inserting
<1>4. NfcTyped'
  BY <1>1, <1>2 DEF NfcTyped, NfcPlaces
<1>5. NfcWorks'
  <2>1. ASSUME NEW u \in Nfc!Threads
        PROVE  /\ Len(job'[u]) <= 2
               /\ notif_chain_pc'[u] # "lookup" =>
                     /\ job'[u] # <<>> /\ Entry(u)' \in 1..Len(entries')
                     /\ entries'[Entry(u)'] = Head(job'[u])
               /\ notif_chain_pc'[u] = "register" => Read(u)' \in Seq(Subscribers)
    <3>1. CASE u = t
      BY <1>1, <1>2, <3>1 DEF NfcWorks
    <3>2. CASE u # t
      BY <1>1, <1>3, <3>2 DEF NfcWorks
    <3> QED BY <3>1, <3>2
  <2>2. \A e \in Nfc!Entries : version'[e] + Len(job'[0]) <= 2 + entered'
    BY <1>1 DEF NfcWorks
  <2> QED BY <2>1, <2>2 DEF NfcWorks
<1>6. NfcApart'
  <2> SUFFICES ASSUME NEW u \in Nfc!Threads, NEW v \in Nfc!Threads, Unlinked(u)', Unlinked(v)',
                      Entry(u)' = Entry(v)'
               PROVE  u = v
    BY DEF NfcApart
  <2>1. u # t /\ v # t
    BY <1>2
  <2>2. Unlinked(u) /\ Unlinked(v) /\ Entry(u) = Entry(v)
    BY <1>3, <2>1
  <2> QED BY <2>2 DEF NfcApart
<1>7. NfcOrder'
  <2>1. PICK c \in Nat : \E p \in [1..c -> Nfc!Entries] : Ordered(c, p)
    BY DEF NfcOrder
  <2>2. PICK p \in [1..c -> Nfc!Entries] : Ordered(c, p)
    BY <2>1
  <2>3. PICK q : q = [i \in 1..(c + 1) |-> IF i = c + 1 THEN Entry(t) ELSE p[i]]
    OBVIOUS
  <2>4. /\ q \in [1..(c + 1) -> Nfc!Entries] /\ q[c + 1] = Entry(t)
        /\ \A i \in 1..c : q[i] = p[i] /\ i \in 1..(c + 1) /\ p[i] # Entry(t)
    BY <1>2, <2>2, <2>3 DEF Ordered
  <2>5. \A i, j \in 1..(c + 1) : q[i] = q[j] => i = j
    BY <2>2, <2>4 DEF Ordered
  <2>6. rt_next[Entry(t)] = NULL
    BY <1>2, <2>2 DEF Ordered
  <2>7. ASSUME NEW i \in 1..(c + 1)
        PROVE  q[i] \in 1..Len(entries) /\ LeadsBack(rt_next[q[i]], q, i)
    <3>1. CASE i = c + 1
      BY <1>2, <2>4, <2>6, <3>1 DEF LeadsBack
    <3>2. CASE i # c + 1
      <4>1. i \in 1..c /\ q[i] = p[i] /\ p[i] \in 1..Len(entries) /\ LeadsBack(rt_next[p[i]], p, i)
        BY <2>2, <2>4, <3>2 DEF Ordered
      <4>2. LeadsBack(rt_next[p[i]], q, i)
        BY <2>4, <4>1, LeadsBackKept
      <4> QED BY <4>1, <4>2
    <3> QED BY <3>1, <3>2
  <2>8. ASSUME NEW e \in Nfc!Entries, \A i \in 1..(c + 1) : q[i] # e PROVE rt_next[e] = NULL
    BY <2>2, <2>4, <2>8 DEF Ordered
  <2>9. ASSUME NEW u \in Nfc!Threads
        PROVE  /\ notif_chain_pc'[u] = "writehead" => LeadsBack(Read(u), q, (c + 1) + 1)
               /\ notif_chain_pc'[u] = "link" =>
                      \E i \in 1..(c + 1) : Entry(u) = q[i] /\ LeadsBack(Read(u), q, i)
               /\ Unlinked(u)' => \A i \in 1..(c + 1) : q[i] # Entry(u)
    <3>1. c + 1 \in 1..(c + 1)
      OBVIOUS
    <3>2. ASSUME notif_chain_pc[u] = "writehead" PROVE LeadsBack(Read(u), q, c + 1)
      <4>1. LeadsBack(Read(u), p, c + 1)
        BY <2>2, <3>2 DEF Ordered
      <4> QED BY <2>4, <3>1, <4>1, LeadsBackKept
    <3>3. CASE u = t
      BY <1>1, <1>2, <2>4, <3>1, <3>2, <3>3
    <3>4. CASE u # t
      <4>1. notif_chain_pc'[u] = "writehead" => LeadsBack(Read(u), q, (c + 1) + 1)
        BY <1>3, <3>2, <3>4 DEF LeadsBack
      <4>2. ASSUME notif_chain_pc'[u] = "link"
            PROVE  \E i \in 1..(c + 1) : Entry(u) = q[i] /\ LeadsBack(Read(u), q, i)
        <5>1. PICK i \in 1..c : Entry(u) = p[i] /\ LeadsBack(Read(u), p, i)
          BY <1>3, <2>2, <3>4, <4>2 DEF Ordered
        <5>2. i \in 1..(c + 1) /\ Entry(u) = q[i]
          BY <2>4, <5>1
        <5>3. LeadsBack(Read(u), q, i)
          BY <2>4, <5>1, <5>2, LeadsBackKept
        <5> QED BY <5>2, <5>3
      <4>3. ASSUME Unlinked(u)', NEW i \in 1..(c + 1) PROVE q[i] # Entry(u)
        <5>1. Unlinked(u) /\ Entry(u) # Entry(t)
          BY <1>2, <1>3, <3>4, <4>3 DEF NfcApart
        <5>2. i # c + 1 => q[i] = p[i] /\ i \in 1..c
          BY <2>4
        <5> QED BY <2>2, <2>4, <5>1, <5>2 DEF Ordered
      <4> QED BY <4>1, <4>2, <4>3
    <3> QED BY <3>3, <3>4
  <2>10. table_head' = IF c + 1 = 0 THEN NULL ELSE q[c + 1]
    BY <1>1, <2>4
  <2>11. PICK d \in Nat : d = c + 1
    OBVIOUS
  <2>12. Ordered(d, q)'
    <3>1. \A i \in 1..(c + 1) : q[i] \in 1..Len(entries') /\ LeadsBack(rt_next'[q[i]], q, i)
      BY <1>1, <2>7
    <3>2. \A e \in Nfc!Entries : (\A i \in 1..(c + 1) : q[i] # e) => rt_next'[e] = NULL
      BY <1>1, <2>8
    <3>3. \A u \in Nfc!Threads :
             /\ notif_chain_pc'[u] = "writehead" => LeadsBack(Read(u)', q, (c + 1) + 1)
             /\ notif_chain_pc'[u] = "link" =>
                    \E i \in 1..(c + 1) : Entry(u)' = q[i] /\ LeadsBack(Read(u)', q, i)
             /\ Unlinked(u)' => \A i \in 1..(c + 1) : q[i] # Entry(u)'
      BY <1>2, <1>3, <2>9
    <3> QED BY <2>5, <2>10, <2>11, <3>1, <3>2, <3>3 DEF Ordered, LeadsBack
  <2>13. q \in [1..d -> Nfc!Entries]
    BY <2>4, <2>11
  <2> QED BY <2>12, <2>13 DEF NfcOrder
<1>8. NfcBegun'
  BY <1>1, <1>2, <1>3, NfcBegunKept DEF NfcTyped, NfcBegun, Begun
<1>9. NfcTurns'
  BY <1>1, <1>2, <1>3 DEF NfcTurns, Nfc!MayRun, Nfc!Through
<1>10. NfcTable'
  <2> SUFFICES ASSUME spaced PROVE NfcTable'
    BY <1>1 DEF NfcTable
  <2>1. \A u \in Nfc!Threads : u # t => notif_chain_pc[u] = "lookup"
    BY <1>2, NfcAlone
  <2>2. \A u \in Nfc!Threads : ~Unlinked(u)'
    BY <1>2, <1>3, <2>1 DEF Unlinked
  <2>3. Entry(t) = Len(entries) /\ Read(t) = Below(Len(entries))
    BY <1>1, <1>2 DEF NfcTable
  <2>4. table_head' = Top(Len(entries))
    BY <1>1, <1>2, <2>3 DEF Top
  <2>5. \A u \in Nfc!Threads :
             /\ Inserting(u)' => Entry(u)' = Len(entries)
             /\ notif_chain_pc'[u] \in {"writehead", "link"} => Read(u)' = Below(Len(entries))
    BY <1>2, <1>3, <2>1, <2>3 DEF NfcTable
  <2>6. \A e \in 1..Len(entries) :
            e # Len(entries) \/ (\A u \in Nfc!Threads : ~Inserting(u)') => rt_next'[e] = Below(e)
    BY <1>1, <1>2 DEF NfcTable
  <2>7. \A e, f \in 1..Len(entries) : entries[e] = entries[f] => e = f
    BY DEF NfcTable
  <2> QED BY <1>1, <2>2, <2>4, <2>5, <2>6, <2>7 DEF NfcTable, Below, Top
<1>11. NfcKnown'
  <2> SUFFICES ASSUME spaced, NEW s \in Subscribers
               PROVE  /\ job'[s] \in {<<"122.1.1.1", "122.1.1.5">>, <<"122.1.1.5">>, <<>>}
                      /\ job'[s] # <<>> => \A e \in Nfc!Entries : version'[e] = 0
                      /\ notif_chain_pc'[s] = "register" => Read(s)' = chain'[Entry(s)']
                      /\ notif_chain_pc'[s] = "registered" => (s \in Nfc!OnChain(Entry(s)))'
                      /\ Len(job'[s]) < 2 => Knows(s, "122.1.1.1")'
                      /\ Len(job'[s]) < 1 => Knows(s, "122.1.1.5")'
    BY <1>1 DEF NfcKnown
  <2>1. s \in Nfc!Threads
    OBVIOUS
  <2>2. ASSUME NEW d, Knows(s, d) PROVE Knows(s, d)'
    BY <1>1, <2>2 DEF Knows, Nfc!OnChain
  <2>3. notif_chain_pc'[s] = "register" => Read(s)' = chain'[Entry(s)']
    <3>1. ASSUME notif_chain_pc'[s] = "register" PROVE Read(s)' = chain'[Entry(s)']
      <4>1. s # t
        BY <1>2, <3>1
      <4> QED BY <1>1, <1>3, <2>1, <3>1, <4>1 DEF NfcKnown
    <3> QED BY <3>1
  <2>4. notif_chain_pc'[s] = "registered" => (s \in Nfc!OnChain(Entry(s)))'
    <3>1. ASSUME notif_chain_pc'[s] = "registered" PROVE (s \in Nfc!OnChain(Entry(s)))'
      <4>1. s # t
        BY <1>2, <3>1
      <4>2. s \in Nfc!OnChain(Entry(s)) /\ Entry(s)' = Entry(s)
        BY <1>3, <2>1, <3>1, <4>1 DEF NfcKnown
      <4> QED BY <1>1, <4>2 DEF Nfc!OnChain
    <3> QED BY <3>1
  <2>5. /\ job[s] \in {<<"122.1.1.1", "122.1.1.5">>, <<"122.1.1.5">>, <<>>}
        /\ job[s] # <<>> => \A e \in Nfc!Entries : version[e] = 0
        /\ Len(job[s]) < 2 => Knows(s, "122.1.1.1")
        /\ Len(job[s]) < 1 => Knows(s, "122.1.1.5")
    BY DEF NfcKnown
  <2> QED BY <1>1, <2>2, <2>3, <2>4, <2>5
<1> QED BY <1>4, <1>5, <1>6, <1>7, <1>8, <1>9, <1>10, <1>11

\* The entry is linked to the head that was read.
LEMMA NfcLinks ==
    ASSUME NfcInv, NEW t \in Nfc!Threads, Nfc!MayRun(t), Nfc!Link(t)
    PROVE  NfcInv'
<1> USE NfcNumbers DEF NfcInv
<1>1. /\ notif_chain_pc[t] = "link"
      /\ notif_chain_pc' = [notif_chain_pc EXCEPT ![t] = "act"]
      /\ notif_chain_hand' = [notif_chain_hand EXCEPT ![t].head = NULL]
      /\ rt_next' = [rt_next EXCEPT ![Entry(t)] = Read(t)]
      /\ spaced' = spaced /\ entries' = entries /\ table_head' = table_head
      /\ chain' = chain /\ job' = job /\ told' = told /\ version' = version /\ entered' = entered
  BY DEF Nfc!Link, Nfc!Goto, Entry, Read
<1>2. /\ notif_chain_hand' \in [Nfc!Threads -> NfcHands]
      /\ notif_chain_hand'[t].entry = notif_chain_hand[t].entry
      /\ \A u \in Nfc!Threads \ {t} : notif_chain_hand'[u] = notif_chain_hand[u]
  <2>1. PICK h, g, x : h = notif_chain_hand /\ g = notif_chain_hand' /\ x = NULL
    OBVIOUS
  <2>2. HandRead(g, h, t, x)
    BY <1>1, <2>1, NfcHandRead DEF NfcTyped
  <2> QED BY <2>1, <2>2 DEF HandRead
<1>3. /\ notif_chain_pc'[t] = "act" /\ Entry(t)' = Entry(t)
      /\ ~Unlinked(t) /\ ~Unlinked(t)' /\ Inserting(t) /\ ~Inserting(t)'
      /\ Entry(t) \in 1..Len(entries) /\ Entry(t) \in Nfc!Entries /\ job[t] # <<>>
  BY <1>1, <1>2 DEF NfcTyped, NfcWorks, Entry, Unlinked, Inserting
<1>4. ASSUME NEW u \in Nfc!Threads, u # t
      PROVE  /\ notif_chain_pc'[u] = notif_chain_pc[u] /\ Entry(u)' = Entry(u)
             /\ Read(u)' = Read(u) /\ Unlinked(u)' = Unlinked(u) /\ Inserting(u)' = Inserting(u)
  BY <1>1, <1>2, <1>4 DEF NfcTyped, Entry, Read, Unlinked, Inserting
<1>5. PICK c \in Nat : \E p \in [1..c -> Nfc!Entries] : Ordered(c, p)
  BY DEF NfcOrder
<1>6. PICK p \in [1..c -> Nfc!Entries] : Ordered(c, p)
  BY <1>5
<1>7. PICK k \in 1..c : Entry(t) = p[k] /\ LeadsBack(Read(t), p, k)
  BY <1>1, <1>6 DEF Ordered
<1>8. Read(t) \in Nfc!Entries \cup {NULL}
  <2>1. \A j \in 1..(k - 1) : j \in 1..c
    OBVIOUS
  <2> QED BY <1>7, <2>1 DEF LeadsBack
<1>9. NfcTyped'
  BY <1>1, <1>2, <1>3, <1>8 DEF NfcTyped, NfcPlaces
<1>10. NfcWorks'
  BY <1>1, <1>3, <1>4 DEF NfcWorks
<1>11. NfcApart'
  BY <1>3, <1>4 DEF NfcApart
<1>12. NfcOrder'
  <2>1. /\ rt_next'[p[k]] = Read(t)
        /\ \A e \in Nfc!Entries : e # p[k] => rt_next'[e] = rt_next[e]
    BY <1>1, <1>3, <1>7 DEF NfcTyped
  <2>2. \A i \in 1..c : LeadsBack(rt_next'[p[i]], p, i)
    BY <1>6, <1>7, <2>1 DEF Ordered
  <2>3. \A e \in Nfc!Entries : (\A i \in 1..c : p[i] # e) => rt_next'[e] = NULL
    BY <1>6, <2>1 DEF Ordered
  <2>4. Ordered(c, p)'
    BY <1>1, <1>3, <1>4, <1>6, <2>2, <2>3 DEF Ordered
  <2> QED BY <2>4 DEF NfcOrder
<1>13. NfcBegun'
  BY <1>1, <1>3, <1>4, NfcBegunKept DEF NfcTyped, NfcBegun, Begun
<1>14. NfcTurns'
  BY <1>1, <1>3, <1>4 DEF NfcTurns, Nfc!MayRun, Nfc!Through
<1>15. NfcTable'
  <2> SUFFICES ASSUME spaced PROVE NfcTable'
    BY <1>1 DEF NfcTable
  <2>1. \A u \in Nfc!Threads : u # t => notif_chain_pc[u] = "lookup"
    BY <1>3, NfcAlone
  <2>2. \A u \in Nfc!Threads : ~Unlinked(u) /\ ~Unlinked(u)' /\ ~Inserting(u)'
    BY <1>3, <1>4, <2>1 DEF Unlinked, Inserting
  <2>3. Entry(t) = Len(entries) /\ Read(t) = Below(Len(entries))
    BY <1>1, <1>3 DEF NfcTable
  <2>4. \A e \in 1..Len(entries) : rt_next'[e] = Below(e)
    <3>1. \A e \in 1..Len(entries) : e \in Nfc!Entries
      BY DEF NfcTyped
    <3> QED BY <1>1, <1>3, <2>3, <3>1 DEF NfcTable, NfcTyped
  <2>5. \A u \in Nfc!Threads : notif_chain_pc'[u] \notin {"writehead", "link"}
    BY <1>3, <1>4, <2>1
  <2>6. table_head' = Top(Len(entries))
    BY <1>1, <2>2 DEF NfcTable
  <2>7. \A e, f \in 1..Len(entries) : entries[e] = entries[f] => e = f
    BY DEF NfcTable
  <2> QED BY <1>1, <2>2, <2>4, <2>5, <2>6, <2>7 DEF NfcTable, Below, Top
<1>16. NfcKnown'
  <2> SUFFICES ASSUME spaced, NEW s \in Subscribers
               PROVE  /\ job'[s] \in {<<"122.1.1.1", "122.1.1.5">>, <<"122.1.1.5">>, <<>>}
                      /\ job'[s] # <<>> => \A e \in Nfc!Entries : version'[e] = 0
                      /\ notif_chain_pc'[s] = "register" => Read(s)' = chain'[Entry(s)']
                      /\ notif_chain_pc'[s] = "registered" => (s \in Nfc!OnChain(Entry(s)))'
                      /\ Len(job'[s]) < 2 => Knows(s, "122.1.1.1")'
                      /\ Len(job'[s]) < 1 => Knows(s, "122.1.1.5")'
    BY <1>1 DEF NfcKnown
  <2>1. s \in Nfc!Threads
    OBVIOUS
  <2>2. ASSUME NEW d, Knows(s, d) PROVE Knows(s, d)'
    BY <1>1, <2>2 DEF Knows, Nfc!OnChain
  <2>3. notif_chain_pc'[s] = "register" => Read(s)' = chain'[Entry(s)']
    <3>1. ASSUME notif_chain_pc'[s] = "register" PROVE Read(s)' = chain'[Entry(s)']
      <4>1. s # t
        BY <1>3, <3>1
      <4> QED BY <1>1, <1>4, <2>1, <3>1, <4>1 DEF NfcKnown
    <3> QED BY <3>1
  <2>4. notif_chain_pc'[s] = "registered" => (s \in Nfc!OnChain(Entry(s)))'
    <3>1. ASSUME notif_chain_pc'[s] = "registered" PROVE (s \in Nfc!OnChain(Entry(s)))'
      <4>1. s # t
        BY <1>3, <3>1
      <4>2. s \in Nfc!OnChain(Entry(s)) /\ Entry(s)' = Entry(s)
        BY <1>4, <2>1, <3>1, <4>1 DEF NfcKnown
      <4> QED BY <1>1, <4>2 DEF Nfc!OnChain
    <3> QED BY <3>1
  <2>5. /\ job[s] \in {<<"122.1.1.1", "122.1.1.5">>, <<"122.1.1.5">>, <<>>}
        /\ job[s] # <<>> => \A e \in Nfc!Entries : version[e] = 0
        /\ Len(job[s]) < 2 => Knows(s, "122.1.1.1")
        /\ Len(job[s]) < 1 => Knows(s, "122.1.1.5")
    BY DEF NfcKnown
  <2> QED BY <1>1, <2>2, <2>3, <2>4, <2>5
<1> QED BY <1>9, <1>10, <1>11, <1>12, <1>13, <1>14, <1>15, <1>16

\* A thread that puts an entry in goes on as it is, and no other begins to.
InsertingKept ==
    \A u \in Nfc!Threads :
        /\ Inserting(u)' <=> Inserting(u)
        /\ Inserting(u) => /\ notif_chain_pc'[u] = notif_chain_pc[u]
                           /\ Entry(u)' = Entry(u) /\ Read(u)' = Read(u)

\* Then the table is as it was.
LEMMA NfcTableKept ==
    ASSUME NfcOrder, NfcApart, NfcTable, InsertingKept,
           spaced' = spaced, entries' = entries, table_head' = table_head, rt_next' = rt_next
    PROVE  NfcOrder' /\ NfcApart' /\ NfcTable'
<1>1. ASSUME NEW u \in Nfc!Threads
      PROVE  /\ Unlinked(u)' = Unlinked(u) /\ Inserting(u)' = Inserting(u)
             /\ Inserting(u) <=> notif_chain_pc[u] \in {"readhead", "writehead", "link"}
             /\ Unlinked(u) => Inserting(u)
             /\ \A x \in {"writehead", "link"} : notif_chain_pc'[u] = x <=> notif_chain_pc[u] = x
             /\ Inserting(u) => Entry(u)' = Entry(u) /\ Read(u)' = Read(u)
  BY DEF InsertingKept, Inserting, Unlinked
<1>2. NfcOrder'
  <2>1. PICK c \in Nat : \E p \in [1..c -> Nfc!Entries] : Ordered(c, p)
    BY DEF NfcOrder
  <2>2. PICK p \in [1..c -> Nfc!Entries] : Ordered(c, p)
    BY <2>1
  <2>3. ASSUME NEW u \in Nfc!Threads
        PROVE  /\ notif_chain_pc'[u] = "writehead" => LeadsBack(Read(u)', p, c + 1)
               /\ notif_chain_pc'[u] = "link" =>
                      \E i \in 1..c : Entry(u)' = p[i] /\ LeadsBack(Read(u)', p, i)
               /\ Unlinked(u)' => \A i \in 1..c : p[i] # Entry(u)'
    <3>1. CASE Inserting(u)
      BY <1>1, <2>2, <3>1 DEF Ordered
    <3>2. CASE ~Inserting(u)
      BY <1>1, <3>2
    <3> QED BY <3>1, <3>2
  <2>4. Ordered(c, p)'
    BY <2>2, <2>3 DEF Ordered, LeadsBack
  <2> QED BY <2>4 DEF NfcOrder
<1>3. NfcApart'
  <2> SUFFICES ASSUME NEW u \in Nfc!Threads, NEW v \in Nfc!Threads, Unlinked(u)', Unlinked(v)',
                      Entry(u)' = Entry(v)'
               PROVE  u = v
    BY DEF NfcApart
  <2>1. Unlinked(u) /\ Unlinked(v) /\ Entry(u) = Entry(v)
    BY <1>1
  <2> QED BY <2>1 DEF NfcApart
<1>4. NfcTable'
  <2> SUFFICES ASSUME spaced PROVE NfcTable'
    BY DEF NfcTable
  <2>1. \A u \in Nfc!Threads :
            /\ Inserting(u)' => Entry(u)' = Len(entries)
            /\ Unlinked(u)' => table_head = Below(Len(entries))
            /\ notif_chain_pc'[u] \in {"writehead", "link"} => Read(u)' = Below(Len(entries))
    BY <1>1 DEF NfcTable
  <2>2. (\A u \in Nfc!Threads : ~Unlinked(u)') => table_head = Top(Len(entries))
    BY <1>1 DEF NfcTable
  <2>3. \A e \in 1..Len(entries) :
            e # Len(entries) \/ (\A u \in Nfc!Threads : ~Inserting(u)') => rt_next[e] = Below(e)
    BY <1>1 DEF NfcTable
  <2>4. \A e, f \in 1..Len(entries) : entries[e] = entries[f] => e = f
    BY DEF NfcTable
  <2> QED BY <2>1, <2>2, <2>3, <2>4 DEF NfcTable, Below, Top
<1> QED BY <1>2, <1>3, <1>4

\* The chain of the entry, read
LEMMA NfcReadsChain ==
    ASSUME NfcInv, NEW t \in Subscribers, Nfc!ReadChain(t)
    PROVE  NfcInv'
<1> USE NfcNumbers DEF NfcInv
<1>1. /\ notif_chain_pc[t] = "act"
      /\ notif_chain_pc' = [notif_chain_pc EXCEPT ![t] = "register"]
      /\ notif_chain_hand' = [notif_chain_hand EXCEPT ![t].head = chain[Entry(t)]]
      /\ spaced' = spaced /\ entries' = entries /\ table_head' = table_head /\ rt_next' = rt_next
      /\ chain' = chain /\ job' = job /\ told' = told /\ version' = version /\ entered' = entered
  BY DEF Nfc!ReadChain, Nfc!Goto, Entry
<1>2. Entry(t) \in 1..Len(entries) /\ Entry(t) \in Nfc!Entries /\ chain[Entry(t)] \in Seq(Subscribers)
  <2>1. Entry(t) \in 1..Len(entries)
    BY <1>1 DEF NfcWorks
  <2> QED BY <2>1 DEF NfcTyped
<1>3. /\ notif_chain_hand' \in [Nfc!Threads -> NfcHands]
      /\ notif_chain_hand'[t].entry = notif_chain_hand[t].entry
      /\ notif_chain_hand'[t].head = chain[Entry(t)]
      /\ \A u \in Nfc!Threads \ {t} : notif_chain_hand'[u] = notif_chain_hand[u]
  <2>1. PICK h, g, x : h = notif_chain_hand /\ g = notif_chain_hand' /\ x = chain[Entry(t)]
    OBVIOUS
  <2>2. HandRead(g, h, t, x)
    BY <1>1, <1>2, <2>1, NfcHandRead DEF NfcTyped
  <2> QED BY <2>1, <2>2 DEF HandRead
<1>4. /\ notif_chain_pc'[t] = "register" /\ Entry(t)' = Entry(t) /\ Read(t)' = chain[Entry(t)]
      /\ ~Inserting(t) /\ ~Inserting(t)'
  BY <1>1, <1>3 DEF NfcTyped, Entry, Read, Inserting
<1>5. ASSUME NEW u \in Nfc!Threads, u # t
      PROVE  /\ notif_chain_pc'[u] = notif_chain_pc[u] /\ Entry(u)' = Entry(u)
             /\ Read(u)' = Read(u) /\ Inserting(u)' = Inserting(u)
  BY <1>1, <1>3, <1>5 DEF NfcTyped, Entry, Read, Inserting
<1>6. NfcTyped'
  BY <1>1, <1>3 DEF NfcTyped, NfcPlaces
<1>7. NfcWorks'
  <2>1. ASSUME NEW u \in Nfc!Threads
        PROVE  /\ Len(job'[u]) <= 2
               /\ notif_chain_pc'[u] # "lookup" =>
                     /\ job'[u] # <<>> /\ Entry(u)' \in 1..Len(entries')
                     /\ entries'[Entry(u)'] = Head(job'[u])
               /\ notif_chain_pc'[u] = "register" => Read(u)' \in Seq(Subscribers)
    <3>1. CASE u = t
      BY <1>1, <1>2, <1>4, <3>1 DEF NfcWorks
    <3>2. CASE u # t
      BY <1>1, <1>5, <3>2 DEF NfcWorks
    <3> QED BY <3>1, <3>2
  <2>2. \A e \in Nfc!Entries : version'[e] + Len(job'[0]) <= 2 + entered'
    BY <1>1 DEF NfcWorks
  <2> QED BY <2>1, <2>2 DEF NfcWorks
<1>8. NfcOrder' /\ NfcApart' /\ NfcTable'
  <2>1. ASSUME NEW u \in Nfc!Threads
        PROVE  /\ Inserting(u)' <=> Inserting(u)
               /\ Inserting(u) => /\ notif_chain_pc'[u] = notif_chain_pc[u]
                                  /\ Entry(u)' = Entry(u) /\ Read(u)' = Read(u)
    <3>1. CASE u = t
      BY <1>4, <3>1
    <3>2. CASE u # t
      BY <1>5, <3>2
    <3> QED BY <3>1, <3>2
  <2>2. InsertingKept
    BY <2>1 DEF InsertingKept
  <2> QED BY <1>1, <2>2, NfcTableKept
<1>9. NfcBegun'
  BY <1>1, <1>4, <1>5, NfcBegunKept DEF NfcTyped, NfcBegun, Begun
<1>10. NfcTurns'
  BY <1>1, <1>4, <1>5 DEF NfcTurns, Nfc!MayRun, Nfc!Through
<1>11. NfcKnown'
  <2> SUFFICES ASSUME spaced, NEW s \in Subscribers
               PROVE  /\ job'[s] \in {<<"122.1.1.1", "122.1.1.5">>, <<"122.1.1.5">>, <<>>}
                      /\ job'[s] # <<>> => \A e \in Nfc!Entries : version'[e] = 0
                      /\ notif_chain_pc'[s] = "register" => Read(s)' = chain'[Entry(s)']
                      /\ notif_chain_pc'[s] = "registered" => (s \in Nfc!OnChain(Entry(s)))'
                      /\ Len(job'[s]) < 2 => Knows(s, "122.1.1.1")'
                      /\ Len(job'[s]) < 1 => Knows(s, "122.1.1.5")'
    BY <1>1 DEF NfcKnown
  <2>1. s \in Nfc!Threads
    OBVIOUS
  <2>2. ASSUME NEW d, Knows(s, d) PROVE Knows(s, d)'
    BY <1>1, <2>2 DEF Knows, Nfc!OnChain
  <2>3. notif_chain_pc'[s] = "register" => Read(s)' = chain'[Entry(s)']
    <3>1. CASE s = t
      BY <1>1, <1>4, <3>1
    <3>2. CASE s # t
      BY <1>1, <1>5, <2>1, <3>2 DEF NfcKnown
    <3> QED BY <3>1, <3>2
  <2>4. notif_chain_pc'[s] = "registered" => (s \in Nfc!OnChain(Entry(s)))'
    <3>1. ASSUME notif_chain_pc'[s] = "registered" PROVE (s \in Nfc!OnChain(Entry(s)))'
      <4>1. s # t
        BY <1>4, <3>1
      <4>2. s \in Nfc!OnChain(Entry(s)) /\ Entry(s)' = Entry(s)
        BY <1>5, <2>1, <3>1, <4>1 DEF NfcKnown
      <4> QED BY <1>1, <4>2 DEF Nfc!OnChain
    <3> QED BY <3>1
  <2>5. /\ job[s] \in {<<"122.1.1.1", "122.1.1.5">>, <<"122.1.1.5">>, <<>>}
        /\ job[s] # <<>> => \A e \in Nfc!Entries : version[e] = 0
        /\ Len(job[s]) < 2 => Knows(s, "122.1.1.1")
        /\ Len(job[s]) < 1 => Knows(s, "122.1.1.5")
    BY DEF NfcKnown
  <2> QED BY <1>1, <2>2, <2>3, <2>4, <2>5
<1> QED BY <1>6, <1>7, <1>8, <1>9, <1>10, <1>11

\* The subscriber, put before those read from the chain
LEMMA NfcRegisters ==
    ASSUME NfcInv, NEW t \in Subscribers, Nfc!MayRun(t), Nfc!Register(t)
    PROVE  NfcInv'
<1> USE NfcNumbers DEF NfcInv
<1>1. /\ notif_chain_pc[t] = "register"
      /\ notif_chain_pc' = [notif_chain_pc EXCEPT ![t] = "registered"]
      /\ notif_chain_hand' = [notif_chain_hand EXCEPT ![t].head = NULL]
      /\ chain' = [chain EXCEPT ![Entry(t)] = <<t>> \o Read(t)]
      /\ spaced' = spaced /\ entries' = entries /\ table_head' = table_head /\ rt_next' = rt_next
      /\ job' = job /\ told' = told /\ version' = version /\ entered' = entered
  BY DEF Nfc!Register, Nfc!Goto, Entry, Read
<1>2. /\ Entry(t) \in 1..Len(entries) /\ Entry(t) \in Nfc!Entries /\ Read(t) \in Seq(Subscribers)
      /\ job[t] # <<>>
  <2>1. Entry(t) \in 1..Len(entries) /\ Read(t) \in Seq(Subscribers) /\ job[t] # <<>>
    BY <1>1 DEF NfcWorks
  <2> QED BY <2>1 DEF NfcTyped
<1>3. /\ notif_chain_hand' \in [Nfc!Threads -> NfcHands]
      /\ notif_chain_hand'[t].entry = notif_chain_hand[t].entry
      /\ \A u \in Nfc!Threads \ {t} : notif_chain_hand'[u] = notif_chain_hand[u]
  <2>1. PICK h, g, x : h = notif_chain_hand /\ g = notif_chain_hand' /\ x = NULL
    OBVIOUS
  <2>2. HandRead(g, h, t, x)
    BY <1>1, <2>1, NfcHandRead DEF NfcTyped
  <2> QED BY <2>1, <2>2 DEF HandRead
<1>4. /\ notif_chain_pc'[t] = "registered" /\ Entry(t)' = Entry(t)
      /\ ~Inserting(t) /\ ~Inserting(t)'
  BY <1>1, <1>3 DEF NfcTyped, Entry, Inserting
<1>5. ASSUME NEW u \in Nfc!Threads, u # t
      PROVE  /\ notif_chain_pc'[u] = notif_chain_pc[u] /\ Entry(u)' = Entry(u)
             /\ Read(u)' = Read(u) /\ Inserting(u)' = Inserting(u)
  BY <1>1, <1>3, <1>5 DEF NfcTyped, Entry, Read, Inserting
<1>6. PICK r \in Seq(Subscribers) :
          /\ r = <<t>> \o Read(t)
          /\ \A x : (\E i \in 1..Len(r) : r[i] = x) <=>
                        x = t \/ \E i \in 1..Len(Read(t)) : Read(t)[i] = x
  <2>1. PICK q \in Seq(Subscribers) : q = Read(t)
    BY <1>2
  <2>2. PICK r : r = <<t>> \o q
    OBVIOUS
  <2>2a. r \in Seq(Subscribers)
    <3>1. <<t>> \in Seq(Subscribers)
      OBVIOUS
    <3> QED BY <2>2, <3>1
  <2>3. Len(r) = Len(q) + 1 /\ r[1] = t /\ \A i \in 1..Len(q) : r[i + 1] = q[i] /\ i + 1 \in 1..Len(r)
    BY <2>2
  <2>4. ASSUME NEW i \in 1..Len(r), i # 1 PROVE i - 1 \in 1..Len(q) /\ r[i] = q[i - 1]
    BY <2>2, <2>3, <2>4
  <2>5. 1 \in 1..Len(r)
    BY <2>3
  <2>6. \A x : (\E i \in 1..Len(r) : r[i] = x) <=> x = t \/ \E i \in 1..Len(q) : q[i] = x
    <3>1. ASSUME NEW x, NEW i \in 1..Len(r), r[i] = x
          PROVE  x = t \/ \E j \in 1..Len(q) : q[j] = x
      <4>1. CASE i = 1
        BY <2>3, <3>1, <4>1
      <4>2. CASE i # 1
        BY <2>4, <3>1, <4>2
      <4> QED BY <4>1, <4>2
    <3>2. ASSUME NEW x, NEW j \in 1..Len(q), q[j] = x PROVE \E i \in 1..Len(r) : r[i] = x
      BY <2>3, <3>2
    <3>3. \E i \in 1..Len(r) : r[i] = t
      BY <2>3, <2>5
    <3> QED BY <3>1, <3>2, <3>3, Zenon
  <2>7. \A x : (\E i \in 1..Len(r) : r[i] = x) <=>
                   x = t \/ \E i \in 1..Len(Read(t)) : Read(t)[i] = x
    BY <2>1, <2>6
  <2>8. r = <<t>> \o Read(t)
    BY <2>1, <2>2
  <2> QED BY <2>2a, <2>7, <2>8
<1>7. chain' \in [Nfc!Entries -> Seq(Subscribers)]
  BY <1>1, <1>2, <1>6 DEF NfcTyped
<1>8. NfcTyped'
  BY <1>1, <1>3, <1>7 DEF NfcTyped, NfcPlaces
<1>9. NfcWorks'
  <2>1. ASSUME NEW u \in Nfc!Threads
        PROVE  /\ Len(job'[u]) <= 2
               /\ notif_chain_pc'[u] # "lookup" =>
                     /\ job'[u] # <<>> /\ Entry(u)' \in 1..Len(entries')
                     /\ entries'[Entry(u)'] = Head(job'[u])
               /\ notif_chain_pc'[u] = "register" => Read(u)' \in Seq(Subscribers)
    <3>1. CASE u = t
      BY <1>1, <1>2, <1>4, <3>1 DEF NfcWorks
    <3>2. CASE u # t
      BY <1>1, <1>5, <3>2 DEF NfcWorks
    <3> QED BY <3>1, <3>2
  <2>2. \A e \in Nfc!Entries : version'[e] + Len(job'[0]) <= 2 + entered'
    BY <1>1 DEF NfcWorks
  <2> QED BY <2>1, <2>2 DEF NfcWorks
<1>10. NfcOrder' /\ NfcApart' /\ NfcTable'
  <2>1. ASSUME NEW u \in Nfc!Threads
        PROVE  /\ Inserting(u)' <=> Inserting(u)
               /\ Inserting(u) => /\ notif_chain_pc'[u] = notif_chain_pc[u]
                                  /\ Entry(u)' = Entry(u) /\ Read(u)' = Read(u)
    <3>1. CASE u = t
      BY <1>4, <3>1
    <3>2. CASE u # t
      BY <1>5, <3>2
    <3> QED BY <3>1, <3>2
  <2>2. InsertingKept
    BY <2>1 DEF InsertingKept
  <2> QED BY <1>1, <2>2, NfcTableKept
<1>11. NfcBegun'
  BY <1>1, <1>4, <1>5, NfcBegunKept DEF NfcTyped, NfcBegun, Begun
<1>12. NfcTurns'
  BY <1>1, <1>4, <1>5 DEF NfcTurns, Nfc!MayRun, Nfc!Through
<1>13. NfcKnown'
  <2> SUFFICES ASSUME spaced, NEW s \in Subscribers
               PROVE  /\ job'[s] \in {<<"122.1.1.1", "122.1.1.5">>, <<"122.1.1.5">>, <<>>}
                      /\ job'[s] # <<>> => \A e \in Nfc!Entries : version'[e] = 0
                      /\ notif_chain_pc'[s] = "register" => Read(s)' = chain'[Entry(s)']
                      /\ notif_chain_pc'[s] = "registered" => (s \in Nfc!OnChain(Entry(s)))'
                      /\ Len(job'[s]) < 2 => Knows(s, "122.1.1.1")'
                      /\ Len(job'[s]) < 1 => Knows(s, "122.1.1.5")'
    BY <1>1 DEF NfcKnown
  <2>1. \A u \in Nfc!Threads : u # t => notif_chain_pc'[u] = "lookup"
    BY <1>2, <1>5, NfcAlone
  <2>2. Read(t) = chain[Entry(t)]
    BY <1>1 DEF NfcKnown
  <2>3. t \in Nfc!OnChain(Entry(t))'
    <3>1. chain'[Entry(t)] = r
      BY <1>1, <1>2, <1>6 DEF NfcTyped
    <3>2. \E i \in 1..Len(chain'[Entry(t)]) : chain'[Entry(t)][i] = t
      BY <1>6, <3>1
    <3> QED BY <1>4, <3>2 DEF Nfc!OnChain
  <2>4. ASSUME NEW e \in Nfc!Entries, NEW x \in Nfc!OnChain(e) PROVE (x \in Nfc!OnChain(e))'
    <3>1. PICK i \in 1..Len(chain[e]) : chain[e][i] = x
      BY <2>4 DEF Nfc!OnChain
    <3>2. \E j \in 1..Len(chain'[e]) : chain'[e][j] = x
      <4>1. CASE e = Entry(t)
        <5>1. chain'[e] = r
          BY <1>1, <1>2, <1>6, <4>1 DEF NfcTyped
        <5> QED BY <1>6, <2>2, <3>1, <4>1, <5>1
      <4>2. CASE e # Entry(t)
        BY <1>1, <1>2, <3>1, <4>2 DEF NfcTyped
      <4> QED BY <4>1, <4>2
    <3> QED BY <3>2 DEF Nfc!OnChain
  <2>5. ASSUME NEW d, Knows(s, d) PROVE Knows(s, d)'
    <3>1. PICK e \in 1..Len(entries) :
              /\ entries[e] = d /\ s \in Nfc!OnChain(e)
              /\ version[e] > 0 => <<e, version[e]>> \in told[s]
      BY <2>5 DEF Knows
    <3>2. (s \in Nfc!OnChain(e))'
      <4>1. e \in Nfc!Entries
        BY DEF NfcTyped
      <4> QED BY <2>4, <3>1, <4>1
    <3> QED BY <1>1, <3>1, <3>2 DEF Knows
  <2>6. s # t => notif_chain_pc'[s] = "lookup"
    BY <2>1
  <2>7. notif_chain_pc'[s] = "registered" => (s \in Nfc!OnChain(Entry(s)))'
    BY <2>3, <2>6
  <2>8. notif_chain_pc'[s] # "register"
    BY <1>4, <2>6
  <2> QED BY <1>1, <2>5, <2>7, <2>8 DEF NfcKnown
<1> QED BY <1>8, <1>9, <1>10, <1>11, <1>12, <1>13

\* A thread is through with a destination: its hands are empty.
LEMMA NfcHandEmptied ==
    ASSUME NEW h \in [Nfc!Threads -> NfcHands], NEW t \in Nfc!Threads,
           NEW g, g = [h EXCEPT ![t] = Nfc!Empty]
    PROVE  g \in [Nfc!Threads -> NfcHands] /\ \A u \in Nfc!Threads \ {t} : g[u] = h[u]
BY DEF Nfc!Empty, NfcHands

\* The subscriber, registered, is told if the entry was there before.
LEMMA NfcRegistered ==
    ASSUME NfcInv, NEW t \in Subscribers, Nfc!MayRun(t), Nfc!Registered(t)
    PROVE  NfcInv'
<1> USE NfcNumbers DEF NfcInv
<1>1. /\ notif_chain_pc[t] = "registered"
      /\ notif_chain_pc' = [notif_chain_pc EXCEPT ![t] = "lookup"]
      /\ notif_chain_hand' = [notif_chain_hand EXCEPT ![t] = Nfc!Empty]
      /\ job' = [job EXCEPT ![t] = Tail(@)]
      /\ spaced' = spaced /\ entries' = entries /\ table_head' = table_head /\ rt_next' = rt_next
      /\ chain' = chain /\ version' = version /\ entered' = entered
  BY DEF Nfc!Registered, Nfc!Goto
<1>2. /\ DOMAIN told' = Subscribers
      /\ \A s \in Subscribers : told[s] \subseteq told'[s]
  <2>1. \/ told' = [told EXCEPT ![t] = @ \cup {<<notif_chain_hand[t].entry,
                                                 version[notif_chain_hand[t].entry]>>}]
        \/ told' = told
    BY DEF Nfc!Registered
  <2>2. DOMAIN told = Subscribers
    BY DEF NfcTyped
  <2> QED BY <2>1, <2>2
<1>3. /\ Entry(t) \in 1..Len(entries) /\ job[t] # <<>> /\ entries[Entry(t)] = Head(job[t])
      /\ job[t] \in Seq(Nfc!Dests) /\ Len(job[t]) <= 2
  BY <1>1 DEF NfcWorks, NfcTyped
<1>4. PICK q \in Seq(Nfc!Dests) : q = job[t]
  BY <1>3
<1>5. /\ Tail(q) \in Seq(Nfc!Dests) /\ Len(Tail(q)) = Len(q) - 1 /\ Len(q) \in Nat
      /\ job'[t] = Tail(q) /\ \A u \in Nfc!Threads : u # t => job'[u] = job[u]
      /\ job' \in [Nfc!Threads -> Seq(Nfc!Dests)]
  <2>1. Tail(q) \in Seq(Nfc!Dests) /\ Len(Tail(q)) = Len(q) - 1 /\ Len(q) \in Nat
    BY <1>3, <1>4
  <2>2. job' = [job EXCEPT ![t] = Tail(q)]
    BY <1>1, <1>4
  <2> QED BY <2>1, <2>2 DEF NfcTyped
<1>6. /\ notif_chain_hand' \in [Nfc!Threads -> NfcHands]
      /\ \A u \in Nfc!Threads \ {t} : notif_chain_hand'[u] = notif_chain_hand[u]
  <2>1. PICK h, g : h = notif_chain_hand /\ g = notif_chain_hand'
    OBVIOUS
  <2> QED BY <1>1, <2>1, NfcHandEmptied DEF NfcTyped
<1>7. notif_chain_pc'[t] = "lookup" /\ ~Inserting(t) /\ ~Inserting(t)'
  BY <1>1 DEF NfcTyped, Inserting
<1>8. ASSUME NEW u \in Nfc!Threads, u # t
      PROVE  /\ notif_chain_pc'[u] = notif_chain_pc[u] /\ Entry(u)' = Entry(u)
             /\ Read(u)' = Read(u) /\ Inserting(u)' = Inserting(u)
  BY <1>1, <1>6, <1>8 DEF NfcTyped, Entry, Read, Inserting
<1>9. NfcTyped'
  BY <1>1, <1>2, <1>5, <1>6 DEF NfcTyped, NfcPlaces
<1>10. NfcWorks'
  <2>1. ASSUME NEW u \in Nfc!Threads
        PROVE  /\ Len(job'[u]) <= 2
               /\ notif_chain_pc'[u] # "lookup" =>
                     /\ job'[u] # <<>> /\ Entry(u)' \in 1..Len(entries')
                     /\ entries'[Entry(u)'] = Head(job'[u])
               /\ notif_chain_pc'[u] = "register" => Read(u)' \in Seq(Subscribers)
    <3>1. CASE u = t
      BY <1>3, <1>4, <1>5, <1>7, <3>1
    <3>2. CASE u # t
      BY <1>1, <1>5, <1>8, <3>2 DEF NfcWorks
    <3> QED BY <3>1, <3>2
  <2>2. \A e \in Nfc!Entries : version'[e] + Len(job'[0]) <= 2 + entered'
    BY <1>1, <1>5 DEF NfcWorks
  <2> QED BY <2>1, <2>2 DEF NfcWorks
<1>11. NfcOrder' /\ NfcApart' /\ NfcTable'
  <2>1. ASSUME NEW u \in Nfc!Threads
        PROVE  /\ Inserting(u)' <=> Inserting(u)
               /\ Inserting(u) => /\ notif_chain_pc'[u] = notif_chain_pc[u]
                                  /\ Entry(u)' = Entry(u) /\ Read(u)' = Read(u)
    <3>1. CASE u = t
      BY <1>7, <3>1
    <3>2. CASE u # t
      BY <1>8, <3>2
    <3> QED BY <3>1, <3>2
  <2>2. InsertingKept
    BY <2>1 DEF InsertingKept
  <2> QED BY <1>1, <2>2, NfcTableKept
<1>12. NfcBegun'
  <2>1. ASSUME ~spaced, NEW u \in Nfc!Threads
        PROVE  Len(job'[u]) <= 1 /\ (u \in Begun => u \in Begun')
    <3>1. Len(job[u]) <= 1
      BY <2>1 DEF NfcBegun
    <3>2. CASE u = t
      <4>1a. Len(q) <= 1 /\ Len(Tail(q)) \in Nat
        BY <1>4, <1>5, <3>1, <3>2
      <4>1. Len(Tail(q)) = 0
        BY <1>5, <4>1a
      <4>2. job'[t] = <<>>
        BY <1>5, <4>1
      <4> QED BY <1>5, <3>2, <4>1, <4>2 DEF Begun
    <3>3. CASE u # t
      BY <1>5, <1>8, <3>1, <3>3 DEF Begun
    <3> QED BY <3>2, <3>3
  <2>2. Len(entries) \in Nat
    BY DEF NfcTyped
  <2> QED BY <1>1, <2>1, <2>2, NfcBegunKept
<1>13. NfcTurns'
  <2>1. ASSUME spaced, NEW u \in Nfc!Threads PROVE notif_chain_pc'[u] = "lookup"
    BY <1>3, <1>7, <1>8, <2>1, NfcAlone
  <2> QED BY <1>1, <2>1 DEF NfcTurns
<1>14. NfcKnown'
  <2> SUFFICES ASSUME spaced, NEW s \in Subscribers
               PROVE  /\ job'[s] \in {<<"122.1.1.1", "122.1.1.5">>, <<"122.1.1.5">>, <<>>}
                      /\ job'[s] # <<>> => \A e \in Nfc!Entries : version'[e] = 0
                      /\ notif_chain_pc'[s] = "register" => Read(s)' = chain'[Entry(s)']
                      /\ notif_chain_pc'[s] = "registered" => (s \in Nfc!OnChain(Entry(s)))'
                      /\ Len(job'[s]) < 2 => Knows(s, "122.1.1.1")'
                      /\ Len(job'[s]) < 1 => Knows(s, "122.1.1.5")'
    BY <1>1 DEF NfcKnown
  <2>1. notif_chain_pc'[s] = "lookup" /\ s \in Nfc!Threads
    BY <1>3, <1>7, <1>8, NfcAlone
  <2>2. ASSUME NEW d, Knows(s, d) PROVE Knows(s, d)'
    BY <1>1, <1>2, <2>2 DEF Knows, Nfc!OnChain
  <2>3. /\ job[s] \in {<<"122.1.1.1", "122.1.1.5">>, <<"122.1.1.5">>, <<>>}
        /\ job[s] # <<>> => \A e \in Nfc!Entries : version[e] = 0
        /\ Len(job[s]) < 2 => Knows(s, "122.1.1.1")
        /\ Len(job[s]) < 1 => Knows(s, "122.1.1.5")
    BY DEF NfcKnown
  <2>4. CASE s # t
    BY <1>1, <1>5, <2>1, <2>2, <2>3, <2>4
  <2>5. CASE s = t
    <3>1. Knows(t, Head(q))
      <4>1. \A e \in Nfc!Entries : version[e] = 0
        BY <1>3, <2>3, <2>5
      <4>2. t \in Nfc!OnChain(Entry(t))
        BY <1>1 DEF NfcKnown
      <4>3. Entry(t) \in Nfc!Entries
        BY <1>3 DEF NfcTyped
      <4> QED BY <1>3, <1>4, <4>1, <4>2, <4>3 DEF Knows
    <3>2. Knows(t, Head(q))'
      BY <2>2, <2>5, <3>1
    <3>3. CASE q = <<"122.1.1.1", "122.1.1.5">>
      <4>1. Head(q) = "122.1.1.1" /\ Tail(q) = <<"122.1.1.5">> /\ Len(Tail(q)) = 1
        BY <3>3
      <4>2. job'[s] = <<"122.1.1.5">> /\ Len(job'[s]) = 1
        BY <1>5, <2>5, <4>1
      <4>3. Knows(s, "122.1.1.1")'
        BY <2>5, <3>2, <4>1
      <4>4. \A e \in Nfc!Entries : version'[e] = 0
        BY <1>1, <1>3, <2>3, <2>5
      <4> QED BY <2>1, <4>2, <4>3, <4>4
    <3>4. CASE q = <<"122.1.1.5">>
      <4>1. Head(q) = "122.1.1.5" /\ Tail(q) = <<>> /\ Len(Tail(q)) = 0 /\ Len(q) = 1
        BY <3>4
      <4>2. Knows(t, "122.1.1.1")'
        BY <1>4, <2>2, <2>3, <2>5, <4>1
      <4> QED BY <1>5, <2>1, <2>5, <3>2, <4>1, <4>2
    <3> QED BY <1>3, <1>4, <2>3, <2>5, <3>3, <3>4
  <2> QED BY <2>4, <2>5
<1> QED BY <1>9, <1>10, <1>11, <1>12, <1>13, <1>14

\* The publisher updates its entry and calls back those on the chain.
LEMMA NfcPublishes ==
    ASSUME NfcInv, Nfc!MayRun(0), Nfc!Publish
    PROVE  NfcInv'
<1> USE NfcNumbers DEF NfcInv
<1>1. /\ notif_chain_pc[0] = "act"
      /\ notif_chain_pc' = [notif_chain_pc EXCEPT ![0] = "lookup"]
      /\ notif_chain_hand' = [notif_chain_hand EXCEPT ![0] = Nfc!Empty]
      /\ job' = [job EXCEPT ![0] = Tail(@)]
      /\ version' = [version EXCEPT ![Entry(0)] = @ + 1]
      /\ told' = [s \in Subscribers |->
                      told[s] \cup IF s \in Nfc!OnChain(Entry(0))
                                   THEN {<<Entry(0), version'[Entry(0)]>>} ELSE {}]
      /\ spaced' = spaced /\ entries' = entries /\ table_head' = table_head /\ rt_next' = rt_next
      /\ chain' = chain /\ entered' = entered
  BY DEF Nfc!Publish, Nfc!Goto, Nfc!Publisher, Entry
<1>2. PICK x \in Nfc!Entries : x = Entry(0)
  <2>1. Entry(0) \in 1..Len(entries)
    BY <1>1 DEF NfcWorks
  <2> QED BY <2>1 DEF NfcTyped
<1>3. /\ version' \in [Nfc!Entries -> Nat]
      /\ \A e \in Nfc!Entries : version'[e] = IF e = x THEN version[e] + 1 ELSE version[e]
  <2>1. version' = [version EXCEPT ![x] = version[x] + 1]
    BY <1>1, <1>2
  <2>2. version \in [Nfc!Entries -> Nat]
    BY DEF NfcTyped
  <2> QED BY <2>1, <2>2
<1>4. /\ DOMAIN told' = Subscribers
      /\ \A s \in Subscribers :
             /\ told[s] \subseteq told'[s]
             /\ s \in Nfc!OnChain(x) => <<x, version'[x]>> \in told'[s]
  BY <1>1, <1>2
<1>5. PICK q \in Seq(Nfc!Dests) : q = job[0]
  BY DEF NfcTyped
<1>6. q # <<>> /\ Len(q) <= 2
  BY <1>1, <1>5 DEF NfcWorks
<1>7. /\ Tail(q) \in Seq(Nfc!Dests) /\ Len(Tail(q)) = Len(q) - 1 /\ Len(q) \in Nat
      /\ Len(Tail(q)) \in Nat
      /\ job'[0] = Tail(q) /\ \A u \in Nfc!Threads : u # 0 => job'[u] = job[u]
      /\ job' \in [Nfc!Threads -> Seq(Nfc!Dests)]
  <2>1. Tail(q) \in Seq(Nfc!Dests) /\ Len(Tail(q)) = Len(q) - 1 /\ Len(q) \in Nat
        /\ Len(Tail(q)) \in Nat
    BY <1>6
  <2>2. job' = [job EXCEPT ![0] = Tail(q)]
    BY <1>1, <1>5
  <2> QED BY <2>1, <2>2 DEF NfcTyped
<1>8. /\ notif_chain_hand' \in [Nfc!Threads -> NfcHands]
      /\ \A u \in Nfc!Threads \ {0} : notif_chain_hand'[u] = notif_chain_hand[u]
  <2>1. PICK h, g : h = notif_chain_hand /\ g = notif_chain_hand'
    OBVIOUS
  <2> QED BY <1>1, <2>1, NfcHandEmptied DEF NfcTyped
<1>9. notif_chain_pc'[0] = "lookup" /\ ~Inserting(0) /\ ~Inserting(0)'
  BY <1>1 DEF NfcTyped, Inserting
<1>10. ASSUME NEW u \in Nfc!Threads, u # 0
       PROVE  /\ notif_chain_pc'[u] = notif_chain_pc[u] /\ Entry(u)' = Entry(u)
              /\ Read(u)' = Read(u) /\ Inserting(u)' = Inserting(u)
  BY <1>1, <1>8, <1>10 DEF NfcTyped, Entry, Read, Inserting
<1>11. NfcTyped'
  BY <1>1, <1>3, <1>4, <1>7, <1>8 DEF NfcTyped, NfcPlaces
<1>12. NfcWorks'
  <2>1. ASSUME NEW u \in Nfc!Threads
        PROVE  /\ Len(job'[u]) <= 2
               /\ notif_chain_pc'[u] # "lookup" =>
                     /\ job'[u] # <<>> /\ Entry(u)' \in 1..Len(entries')
                     /\ entries'[Entry(u)'] = Head(job'[u])
               /\ notif_chain_pc'[u] = "register" => Read(u)' \in Seq(Subscribers)
    <3>1. CASE u = 0
      BY <1>6, <1>7, <1>9, <3>1
    <3>2. CASE u # 0
      BY <1>1, <1>7, <1>10, <3>2 DEF NfcWorks
    <3> QED BY <3>1, <3>2
  <2>2. ASSUME NEW e \in Nfc!Entries PROVE version'[e] + Len(job'[0]) <= 2 + entered'
    <3>1. version[e] + Len(q) <= 2 + entered /\ version[e] \in Nat /\ entered \in Nat
      BY <1>5, SubscribersAssumption DEF NfcWorks, NfcTyped
    <3>2. version'[e] <= version[e] + 1 /\ version'[e] \in Nat
      BY <1>3, <3>1
    <3>3. PICK a, b, c, l, m : /\ a = version[e] /\ b = version'[e] /\ c = entered
                               /\ l = Len(q) /\ m = Len(job'[0])
      OBVIOUS
    <3>4. entered' = entered /\ l = m + 1 /\ m \in Nat
      BY <1>1, <1>7, <3>3
    <3>5. b + m <= 2 + c
      BY <3>1, <3>2, <3>3, <3>4
    <3>6. entered' = c
      BY <3>3, <3>4
    <3> QED BY <3>3, <3>5, <3>6, Zenon
  <2> QED BY <2>1, <2>2 DEF NfcWorks
<1>13. NfcOrder' /\ NfcApart' /\ NfcTable'
  <2>1. ASSUME NEW u \in Nfc!Threads
        PROVE  /\ Inserting(u)' <=> Inserting(u)
               /\ Inserting(u) => /\ notif_chain_pc'[u] = notif_chain_pc[u]
                                  /\ Entry(u)' = Entry(u) /\ Read(u)' = Read(u)
    <3>1. CASE u = 0
      BY <1>9, <3>1
    <3>2. CASE u # 0
      BY <1>10, <3>2
    <3> QED BY <3>1, <3>2
  <2>2. InsertingKept
    BY <2>1 DEF InsertingKept
  <2> QED BY <1>1, <2>2, NfcTableKept
<1>14. NfcBegun'
  <2>1. ASSUME ~spaced, NEW u \in Nfc!Threads
        PROVE  Len(job'[u]) <= 1 /\ (u \in Begun => u \in Begun')
    <3>1. Len(job[u]) <= 1
      BY <2>1 DEF NfcBegun
    <3>2. CASE u = 0
      <4>1. Len(q) <= 1
        BY <1>5, <3>1, <3>2
      <4>2. Len(Tail(q)) = 0
        BY <1>7, <4>1
      <4>3. job'[0] = <<>>
        BY <1>7, <4>2
      <4> QED BY <1>7, <3>2, <4>2, <4>3 DEF Begun
    <3>3. CASE u # 0
      BY <1>7, <1>10, <3>1, <3>3 DEF Begun
    <3> QED BY <3>2, <3>3
  <2>2. Len(entries) \in Nat
    BY DEF NfcTyped
  <2> QED BY <1>1, <2>1, <2>2, NfcBegunKept
<1>15. NfcTurns'
  <2>1. ASSUME spaced, NEW u \in Nfc!Threads PROVE notif_chain_pc'[u] = "lookup"
    BY <1>9, <1>10, <2>1, NfcAlone
  <2> QED BY <1>1, <2>1 DEF NfcTurns
<1>16. NfcKnown'
  <2> SUFFICES ASSUME spaced, NEW s \in Subscribers
               PROVE  /\ job'[s] \in {<<"122.1.1.1", "122.1.1.5">>, <<"122.1.1.5">>, <<>>}
                      /\ job'[s] # <<>> => \A e \in Nfc!Entries : version'[e] = 0
                      /\ notif_chain_pc'[s] = "register" => Read(s)' = chain'[Entry(s)']
                      /\ notif_chain_pc'[s] = "registered" => (s \in Nfc!OnChain(Entry(s)))'
                      /\ Len(job'[s]) < 2 => Knows(s, "122.1.1.1")'
                      /\ Len(job'[s]) < 1 => Knows(s, "122.1.1.5")'
    BY <1>1 DEF NfcKnown
  <2>1. s \in Nfc!Threads /\ s # 0
    OBVIOUS
  <2>2. notif_chain_pc'[s] = "lookup"
    BY <1>9, <1>10, <2>1, NfcAlone
  <2>3. job[s] = <<>> /\ job'[s] = <<>>
    BY <1>7, <2>1 DEF Nfc!MayRun, Nfc!Through, Nfc!Publisher
  <2>4. ASSUME NEW d, Knows(s, d) PROVE Knows(s, d)'
    <3>1. PICK e \in 1..Len(entries) :
              /\ entries[e] = d /\ s \in Nfc!OnChain(e)
              /\ version[e] > 0 => <<e, version[e]>> \in told[s]
      BY <2>4 DEF Knows
    <3>2. e \in Nfc!Entries
      BY DEF NfcTyped
    <3>3. (s \in Nfc!OnChain(e))'
      BY <1>1, <3>1 DEF Nfc!OnChain
    <3>4. version'[e] > 0 => <<e, version'[e]>> \in told'[s]
      <4>1. CASE e = x
        BY <1>4, <3>1, <4>1
      <4>2. CASE e # x
        BY <1>3, <1>4, <3>1, <3>2, <4>2
      <4> QED BY <4>1, <4>2
    <3> QED BY <1>1, <3>1, <3>3, <3>4 DEF Knows
  <2>5. /\ job[s] \in {<<"122.1.1.1", "122.1.1.5">>, <<"122.1.1.5">>, <<>>}
        /\ job[s] # <<>> => \A e \in Nfc!Entries : version[e] = 0
        /\ Len(job[s]) < 2 => Knows(s, "122.1.1.1")
        /\ Len(job[s]) < 1 => Knows(s, "122.1.1.5")
    BY DEF NfcKnown
  <2> QED BY <1>1, <2>2, <2>3, <2>4, <2>5
<1> QED BY <1>11, <1>12, <1>13, <1>14, <1>15, <1>16

\* The user enters an update.
LEMMA NfcEnters ==
    ASSUME NfcInv, Nfc!Menu
    PROVE  NfcInv'
<1> USE NfcNumbers DEF NfcInv
<1>1. PICK d \in Nfc!Dests : job' = [job EXCEPT ![0] = <<d>>]
  BY DEF Nfc!Menu, Nfc!Publisher
<1>2. /\ notif_chain_pc[0] = "lookup" /\ job[0] = <<>> /\ spaced
      /\ entered < Updates /\ entered' = entered + 1
      /\ spaced' = spaced /\ entries' = entries /\ table_head' = table_head /\ rt_next' = rt_next
      /\ chain' = chain /\ told' = told /\ version' = version
      /\ notif_chain_hand' = notif_chain_hand /\ notif_chain_pc' = notif_chain_pc
  BY DEF Nfc!Menu, Nfc!Publisher, Nfc!Through
<1>3. /\ job' \in [Nfc!Threads -> Seq(Nfc!Dests)] /\ job'[0] = <<d>> /\ Len(job'[0]) = 1
      /\ \A u \in Nfc!Threads : u # 0 => job'[u] = job[u]
  <2>1. <<d>> \in Seq(Nfc!Dests) /\ Len(<<d>>) = 1
    OBVIOUS
  <2> QED BY <1>1, <2>1 DEF NfcTyped
<1>4. NfcTyped'
  <2>1. entered' \in 0..Updates
    BY <1>2, SubscribersAssumption DEF NfcTyped
  <2> QED BY <1>2, <1>3, <2>1 DEF NfcTyped
<1>5. NfcWorks'
  <2>1. ASSUME NEW u \in Nfc!Threads
        PROVE  /\ Len(job'[u]) <= 2
               /\ notif_chain_pc'[u] # "lookup" =>
                     /\ job'[u] # <<>> /\ Entry(u)' \in 1..Len(entries')
                     /\ entries'[Entry(u)'] = Head(job'[u])
               /\ notif_chain_pc'[u] = "register" => Read(u)' \in Seq(Subscribers)
    <3>1. CASE u = 0
      <4>1. notif_chain_pc'[u] = "lookup"
        BY <1>2, <3>1
      <4>2. job'[u] = job'[0]
        BY <3>1
      <4>3. Len(job'[u]) = 1
        BY <1>3, <4>2
      <4> QED BY <4>1, <4>3
    <3>2. CASE u # 0
      BY <1>2, <1>3, <3>2 DEF NfcWorks, Entry, Read
    <3> QED BY <3>1, <3>2
  <2>2. ASSUME NEW e \in Nfc!Entries PROVE version'[e] + Len(job'[0]) <= 2 + entered'
    <3>1. version[e] + Len(job[0]) <= 2 + entered /\ version[e] \in Nat /\ entered \in Nat
      BY SubscribersAssumption DEF NfcWorks, NfcTyped
    <3>2. Len(job[0]) = 0
      BY <1>2
    <3> QED BY <1>2, <1>3, <3>1, <3>2
  <2> QED BY <2>1, <2>2 DEF NfcWorks
<1>6. NfcOrder' /\ NfcApart' /\ NfcTable'
  <2>1. InsertingKept
    BY <1>2 DEF InsertingKept, Inserting, Entry, Read
  <2> QED BY <1>2, <2>1, NfcTableKept
<1>7. NfcBegun'
  BY <1>2 DEF NfcBegun
<1>8. NfcTurns'
  BY <1>2, <1>3 DEF NfcTurns, Nfc!MayRun, Nfc!Through
<1>9. NfcKnown'
  <2>1. ASSUME NEW s, NEW e PROVE Knows(s, e) => Knows(s, e)'
    BY <1>2 DEF Knows, Nfc!OnChain
  <2>2. ASSUME NEW s \in Subscribers
        PROVE  /\ job'[s] = job[s] /\ notif_chain_pc'[s] = notif_chain_pc[s]
               /\ Read(s)' = Read(s) /\ Entry(s)' = Entry(s)
               /\ s \in Nfc!OnChain(Entry(s)) => (s \in Nfc!OnChain(Entry(s)))'
    BY <1>2, <1>3 DEF Entry, Read, Nfc!OnChain
  <2> QED BY <1>2, <2>1, <2>2 DEF NfcKnown
<1> QED BY <1>4, <1>5, <1>6, <1>7, <1>8, <1>9

LEMMA NfcDestinations == IsFiniteSet(Nfc!Dests) /\ Cardinality(Nfc!Dests) = 3
<1>1. PICK S : S = {"122.1.1.1"}
  OBVIOUS
<1>2. PICK T : T = S \cup {"122.1.1.2"}
  OBVIOUS
<1>3. IsFiniteSet(S) /\ Cardinality(S) = 1
  BY <1>1, FS_Singleton
<1>4. IsFiniteSet(T) /\ Cardinality(T) = 2
  <2>1. "122.1.1.2" \notin S
    BY <1>1
  <2> QED BY <1>2, <1>3, <2>1, FS_AddElement
<1>5. "122.1.1.5" \notin T /\ Nfc!Dests = T \cup {"122.1.1.5"}
  BY <1>1, <1>2 DEF Nfc!Dests
<1> QED BY <1>4, <1>5, FS_AddElement

\* There is room for an entry of a destination that the table does not lead to.
\* Without overlap, there is none of it then.
LEMMA NfcRoom ==
    ASSUME NfcInv, NEW t \in Nfc!Threads, Nfc!MayRun(t), notif_chain_pc[t] = "lookup",
           job[t] # <<>>, \A e \in Nfc!Reached : entries[e] # Head(job[t])
    PROVE  /\ Len(entries) + 1 <= Nfc!MaxEntries
           /\ spaced => \A e \in 1..Len(entries) : entries[e] # Head(job[t])
<1> USE NfcNumbers DEF NfcInv
<1>1. PICK n \in Nat : n = Len(entries)
  BY DEF NfcTyped
<1>2. CASE spaced
  <2>1. \A u \in Nfc!Threads : notif_chain_pc[u] = "lookup"
    BY <1>2, NfcAlone
  <2>2. \A u \in Nfc!Threads : ~Unlinked(u) /\ ~Inserting(u)
    BY <2>1 DEF Unlinked, Inserting
  <2>3. /\ table_head = Top(Len(entries)) /\ \A e \in 1..Len(entries) : rt_next[e] = Below(e)
        /\ \A e, f \in 1..Len(entries) : entries[e] = entries[f] => e = f
    BY <1>2, <2>2 DEF NfcTable
  <2>4. Nfc!Reached = 1..Len(entries)
    BY <2>3, NfcReachesAll
  <2>5. PICK d \in Nfc!Dests : d = Head(job[t])
    <3>1. PICK q \in Seq(Nfc!Dests) : q = job[t]
      BY DEF NfcTyped
    <3>2. Head(q) \in Nfc!Dests
      BY <3>1
    <3> QED BY <3>1, <3>2
  <2>6. \A e \in 1..n : entries[e] # d
    BY <1>1, <2>4, <2>5
  <2>7. PICK p : p = [i \in 1..(n + 1) |-> IF i = n + 1 THEN d ELSE entries[i]]
    OBVIOUS
  <2>8. p \in [1..(n + 1) -> Nfc!Dests]
    <3>1. PICK r \in [1..n -> Nfc!Dests] : r = entries
      BY <1>1 DEF NfcTyped
    <3>2. ASSUME NEW i \in 1..(n + 1)
          PROVE  (IF i = n + 1 THEN d ELSE r[i]) \in Nfc!Dests
      <4>1. i = n + 1 \/ i \in 1..n
        OBVIOUS
      <4> QED BY <2>5, <4>1
    <3> QED BY <2>7, <3>1, <3>2
  <2>9. Distinct(p, n + 1)
    BY <1>1, <2>3, <2>6, <2>7 DEF Distinct
  <2>10. n + 1 <= 3
    BY <2>8, <2>9, DistinctFit, NfcDestinations
  <2> QED BY <1>1, <2>5, <2>6, <2>10
<1>3. CASE ~spaced
  <2>1. Begun \subseteq Nfc!Threads \ {t}
    BY DEF Begun
  <2>2. /\ IsFiniteSet(Nfc!Threads \ {t}) /\ Cardinality(Nfc!Threads \ {t}) \in Nat
        /\ Cardinality(Nfc!Threads \ {t}) = Cardinality(Nfc!Threads) - 1
    BY FS_RemoveElement, FS_CardinalityType
  <2>3. Cardinality(Begun) <= Cardinality(Nfc!Threads \ {t}) /\ Cardinality(Begun) \in Nat
    BY <2>1, <2>2, FS_Subset, FS_CardinalityType
  <2>4. n <= Cardinality(Begun)
    BY <1>1, <1>3 DEF NfcBegun
  <2> QED BY <1>1, <1>3, <2>2, <2>3, <2>4
<1> QED BY <1>2, <1>3

\* A thread has an entry in hand.
HandHolds(g, h, t, x) ==
    /\ g \in [Nfc!Threads -> NfcHands]
    /\ g[t].entry = x
    /\ \A u \in Nfc!Threads \ {t} : g[u] = h[u]

LEMMA NfcHandFilled ==
    ASSUME NEW h \in [Nfc!Threads -> NfcHands], NEW t \in Nfc!Threads,
           NEW x \in Nfc!Entries, NEW g, g = [h EXCEPT ![t].entry = x]
    PROVE  HandHolds(g, h, t, x)
<1>1. PICK r : r = [h[t] EXCEPT !.entry = x]
  OBVIOUS
<1>2. r \in NfcHands /\ r.entry = x
  <2>1. h[t] \in NfcHands
    OBVIOUS
  <2> QED BY <1>1, <2>1 DEF NfcHands
<1>3. g = [h EXCEPT ![t] = r]
  BY <1>1
<1> QED BY <1>2, <1>3 DEF HandHolds

\* A subscriber remembers that its own look-up has found nothing.
HandMissed(g, h) ==
    /\ g \in [Nfc!Threads -> NfcHands]
    /\ \A u \in Nfc!Threads : g[u].entry = h[u].entry /\ g[u].head = h[u].head

LEMMA NfcHandMissed ==
    ASSUME NEW h \in [Nfc!Threads -> NfcHands], NEW t \in Nfc!Threads,
           NEW g, g = [h EXCEPT ![t].new = TRUE]
    PROVE  HandMissed(g, h)
<1>1. PICK r : r = [h[t] EXCEPT !.new = TRUE]
  OBVIOUS
<1>2. r \in NfcHands /\ r.entry = h[t].entry /\ r.head = h[t].head
  <2>1. h[t] \in NfcHands
    OBVIOUS
  <2> QED BY <1>1, <2>1 DEF NfcHands
<1>3. g = [h EXCEPT ![t] = r]
  BY <1>1
<1>4. g \in [Nfc!Threads -> NfcHands]
  BY <1>2, <1>3
<1>5. ASSUME NEW u \in Nfc!Threads
      PROVE  g[u].entry = h[u].entry /\ g[u].head = h[u].head
  <2>1. CASE u = t
    <3>1. g[u] = r
      BY <1>3, <2>1
    <3> QED BY <1>2, <2>1, <3>1
  <2>2. CASE u # t
    <3>1. g[u] = h[u]
      BY <1>3, <2>2
    <3> QED BY <3>1
  <2> QED BY <2>1, <2>2
<1> QED BY <1>4, <1>5 DEF HandMissed

\* A thread's turn does not end while the spacing and the jobs stay.
LEMMA NfcMayRunKept ==
    ASSUME UNCHANGED <<spaced, job>>, NEW u \in Nfc!Threads
    PROVE  Nfc!MayRun(u) => Nfc!MayRun(u)'
BY DEF Nfc!MayRun, Nfc!Through

\* The thread finds an entry of its destination.
LEMMA NfcFinds ==
    ASSUME NfcInv, NEW t \in Nfc!Threads, Nfc!MayRun(t), notif_chain_pc[t] = "lookup",
           job[t] # <<>>, NEW x \in Nfc!Reached, entries[x] = Head(job[t]),
           HandHolds(notif_chain_hand', notif_chain_hand, t, x),
           notif_chain_pc' = [notif_chain_pc EXCEPT ![t] = "act"],
           UNCHANGED <<spaced, entries, table_head, rt_next, chain, job, told, version, entered>>
    PROVE  NfcInv'
<1> USE NfcNumbers DEF NfcInv
<1>1. /\ spaced' = spaced /\ entries' = entries /\ table_head' = table_head /\ rt_next' = rt_next
      /\ chain' = chain /\ job' = job /\ told' = told /\ version' = version /\ entered' = entered
  OBVIOUS
<1>2. x \in 1..Len(entries) /\ x \in Nfc!Entries
  <2>1. PICK c \in Nat : \E p \in [1..c -> Nfc!Entries] : Ordered(c, p)
    BY DEF NfcOrder
  <2>2. PICK p \in [1..c -> Nfc!Entries] : Ordered(c, p)
    BY <2>1
  <2>3. x \in 1..Len(entries)
    BY <2>2, NfcFindsEntries
  <2> QED BY <2>3 DEF NfcTyped
<1>3. /\ notif_chain_hand' \in [Nfc!Threads -> NfcHands]
      /\ notif_chain_hand'[t].entry = x
      /\ \A u \in Nfc!Threads \ {t} : notif_chain_hand'[u] = notif_chain_hand[u]
  BY DEF HandHolds
<1>4. notif_chain_pc'[t] = "act" /\ Entry(t)' = x /\ ~Inserting(t) /\ ~Inserting(t)'
  BY <1>3 DEF NfcTyped, Entry, Inserting
<1>5. ASSUME NEW u \in Nfc!Threads, u # t
      PROVE  /\ notif_chain_pc'[u] = notif_chain_pc[u] /\ Entry(u)' = Entry(u)
             /\ Read(u)' = Read(u) /\ Inserting(u)' = Inserting(u)
  BY <1>3, <1>5 DEF NfcTyped, Entry, Read, Inserting
<1>6. NfcTyped'
  BY <1>1, <1>3 DEF NfcTyped, NfcPlaces
<1>7. NfcWorks'
  <2>1. ASSUME NEW u \in Nfc!Threads
        PROVE  /\ Len(job'[u]) <= 2
               /\ notif_chain_pc'[u] # "lookup" =>
                     /\ job'[u] # <<>> /\ Entry(u)' \in 1..Len(entries')
                     /\ entries'[Entry(u)'] = Head(job'[u])
               /\ notif_chain_pc'[u] = "register" => Read(u)' \in Seq(Subscribers)
    <3>1. CASE u = t
      BY <1>1, <1>2, <1>4, <3>1 DEF NfcWorks
    <3>2. CASE u # t
      BY <1>1, <1>5, <3>2 DEF NfcWorks
    <3> QED BY <3>1, <3>2
  <2>2. \A e \in Nfc!Entries : version'[e] + Len(job'[0]) <= 2 + entered'
    BY <1>1 DEF NfcWorks
  <2> QED BY <2>1, <2>2 DEF NfcWorks
<1>8. NfcOrder' /\ NfcApart' /\ NfcTable'
  <2>1. ASSUME NEW u \in Nfc!Threads
        PROVE  /\ Inserting(u)' <=> Inserting(u)
               /\ Inserting(u) => /\ notif_chain_pc'[u] = notif_chain_pc[u]
                                  /\ Entry(u)' = Entry(u) /\ Read(u)' = Read(u)
    <3>1. CASE u = t
      BY <1>4, <3>1
    <3>2. CASE u # t
      BY <1>5, <3>2
    <3> QED BY <3>1, <3>2
  <2>2. InsertingKept
    BY <2>1 DEF InsertingKept
  <2> QED BY <1>1, <2>2, NfcTableKept
<1>9. NfcBegun'
  <2>1. ASSUME ~spaced, NEW u \in Nfc!Threads
        PROVE  Len(job'[u]) <= 1 /\ (u \in Begun => u \in Begun')
    <3>1. CASE u = t
      BY <1>1, <1>4, <2>1, <3>1 DEF NfcBegun, Begun
    <3>2. CASE u # t
      BY <1>1, <1>5, <2>1, <3>2 DEF NfcBegun, Begun
    <3> QED BY <3>1, <3>2
  <2>2. Len(entries) \in Nat
    BY DEF NfcTyped
  <2> QED BY <1>1, <2>1, <2>2, NfcBegunKept
<1>10. NfcTurns'
  <2>1. ASSUME spaced, NEW u \in Nfc!Threads, notif_chain_pc'[u] # "lookup"
        PROVE  Nfc!MayRun(u)
    BY <1>5, <2>1 DEF NfcTurns
  <2>2. ASSUME NEW u \in Nfc!Threads, Nfc!MayRun(u) PROVE Nfc!MayRun(u)'
    BY <2>2, NfcMayRunKept
  <2>3. spaced' = spaced
    OBVIOUS
  <2> QED BY <2>1, <2>2, <2>3 DEF NfcTurns
<1>11. NfcKnown'
  <2>1. ASSUME NEW s, NEW e PROVE Knows(s, e) => Knows(s, e)'
    BY <1>1 DEF Knows, Nfc!OnChain
  <2>2. ASSUME NEW s \in Subscribers, spaced
        PROVE  notif_chain_pc'[s] # "register" /\ notif_chain_pc'[s] # "registered"
    <3>1. ASSUME NEW u \in Nfc!Threads, u # t PROVE notif_chain_pc'[u] = "lookup"
      <4>1. notif_chain_pc[u] = "lookup"
        BY <2>2, <3>1, NfcAlone
      <4> QED BY <1>5, <3>1, <4>1
    <3> QED BY <1>4, <3>1
  <2> QED BY <1>1, <2>1, <2>2 DEF NfcKnown
<1> QED BY <1>6, <1>7, <1>8, <1>9, <1>10, <1>11

\* It finds none, and creates one.
LEMMA NfcCreates ==
    ASSUME NfcInv, NEW t \in Nfc!Threads, Nfc!MayRun(t), notif_chain_pc[t] = "lookup",
           job[t] # <<>>, \A e \in Nfc!Reached : entries[e] # Head(job[t]),
           entries' = Append(entries, Head(job[t])),
           HandHolds(notif_chain_hand', notif_chain_hand, t, Len(entries')),
           notif_chain_pc' = [notif_chain_pc EXCEPT ![t] = "readhead"],
           UNCHANGED <<spaced, table_head, rt_next, chain, job, told, version, entered>>
    PROVE  NfcInv'
<1> USE NfcNumbers DEF NfcInv
<1>1. /\ spaced' = spaced /\ table_head' = table_head /\ rt_next' = rt_next
      /\ chain' = chain /\ job' = job /\ told' = told /\ version' = version /\ entered' = entered
  OBVIOUS
<1>2. PICK n \in Nat : n = Len(entries)
  BY DEF NfcTyped
<1>3. PICK d \in Nfc!Dests : d = Head(job[t])
  <2>1. PICK q \in Seq(Nfc!Dests) : q = job[t]
    BY DEF NfcTyped
  <2>2. Head(q) \in Nfc!Dests
    BY <2>1
  <2> QED BY <2>1, <2>2
<1>4. /\ n + 1 <= Nfc!MaxEntries /\ n + 1 \in Nfc!Entries
      /\ spaced => \A e \in 1..n : entries[e] # d
  <2>1. n + 1 <= Nfc!MaxEntries /\ (spaced => \A e \in 1..n : entries[e] # d)
    BY <1>2, <1>3, NfcRoom
  <2> QED BY <2>1
<1>5. /\ entries' \in Seq(Nfc!Dests) /\ Len(entries') = n + 1 /\ entries'[n + 1] = d
      /\ \A e \in 1..n : entries'[e] = entries[e] /\ e \in 1..(n + 1)
  <2>1. PICK q \in Seq(Nfc!Dests) : q = entries
    BY DEF NfcTyped
  <2>2. PICK r : r = Append(q, d)
    OBVIOUS
  <2>3. r \in Seq(Nfc!Dests) /\ Len(r) = Len(q) + 1 /\ r[Len(q) + 1] = d
        /\ \A e \in 1..Len(q) : r[e] = q[e]
    BY <2>2
  <2>4. r = entries'
    BY <1>3, <2>1, <2>2
  <2> QED BY <1>2, <2>1, <2>3, <2>4
<1>6. /\ notif_chain_hand' \in [Nfc!Threads -> NfcHands]
      /\ notif_chain_hand'[t].entry = n + 1
      /\ \A u \in Nfc!Threads \ {t} : notif_chain_hand'[u] = notif_chain_hand[u]
  BY <1>5 DEF HandHolds
<1>7. /\ notif_chain_pc'[t] = "readhead" /\ Entry(t)' = n + 1
      /\ Inserting(t)' /\ Unlinked(t)'
  BY <1>6 DEF NfcTyped, Entry, Inserting, Unlinked
<1>8. ASSUME NEW u \in Nfc!Threads, u # t
      PROVE  /\ notif_chain_pc'[u] = notif_chain_pc[u] /\ Entry(u)' = Entry(u)
             /\ Read(u)' = Read(u) /\ Inserting(u)' = Inserting(u) /\ Unlinked(u)' = Unlinked(u)
  BY <1>6, <1>8 DEF NfcTyped, Entry, Read, Inserting, Unlinked
<1>9. NfcTyped'
  BY <1>1, <1>4, <1>5, <1>6 DEF NfcTyped, NfcPlaces
<1>10. ASSUME NEW u \in Nfc!Threads, notif_chain_pc[u] # "lookup"
       PROVE  Entry(u) \in 1..n /\ entries[Entry(u)] = Head(job[u]) /\ job[u] # <<>>
  BY <1>2, <1>10 DEF NfcWorks
<1>11. NfcWorks'
  <2>1. ASSUME NEW u \in Nfc!Threads
        PROVE  /\ Len(job'[u]) <= 2
               /\ notif_chain_pc'[u] # "lookup" =>
                     /\ job'[u] # <<>> /\ Entry(u)' \in 1..Len(entries')
                     /\ entries'[Entry(u)'] = Head(job'[u])
               /\ notif_chain_pc'[u] = "register" => Read(u)' \in Seq(Subscribers)
    <3>1. Len(job'[u]) <= 2
      BY <1>1 DEF NfcWorks
    <3>2. CASE u = t
      BY <1>1, <1>3, <1>5, <1>7, <3>1, <3>2
    <3>3. CASE u # t
      BY <1>1, <1>5, <1>8, <1>10, <3>1, <3>3 DEF NfcWorks
    <3> QED BY <3>2, <3>3
  <2>2. \A e \in Nfc!Entries : version'[e] + Len(job'[0]) <= 2 + entered'
    BY <1>1 DEF NfcWorks
  <2> QED BY <2>1, <2>2 DEF NfcWorks
<1>12. ASSUME NEW u \in Nfc!Threads, u # t, Unlinked(u)' PROVE Unlinked(u) /\ Entry(u) \in 1..n
  <2>1. Unlinked(u) /\ notif_chain_pc[u] # "lookup"
    BY <1>8, <1>12 DEF Unlinked
  <2> QED BY <1>10, <2>1
<1>13. NfcApart'
  <2> SUFFICES ASSUME NEW u \in Nfc!Threads, NEW v \in Nfc!Threads, Unlinked(u)', Unlinked(v)',
                      Entry(u)' = Entry(v)'
               PROVE  u = v
    BY DEF NfcApart
  <2>1. CASE u = t /\ v # t
    <3>1. Entry(v)' \in 1..n
      BY <1>8, <1>12, <2>1
    <3>2. Entry(u)' = n + 1
      BY <1>7, <2>1
    <3> QED BY <3>1, <3>2
  <2>2. CASE u # t /\ v = t
    <3>1. Entry(u)' \in 1..n
      BY <1>8, <1>12, <2>2
    <3>2. Entry(v)' = n + 1
      BY <1>7, <2>2
    <3> QED BY <3>1, <3>2
  <2>3. CASE u # t /\ v # t
    <3>1. Unlinked(u) /\ Unlinked(v) /\ Entry(u) = Entry(v)
      BY <1>8, <1>12, <2>3
    <3> QED BY <3>1 DEF NfcApart
  <2> QED BY <2>1, <2>2, <2>3
<1>14. NfcOrder'
  <2>1. PICK c \in Nat : \E p \in [1..c -> Nfc!Entries] : Ordered(c, p)
    BY DEF NfcOrder
  <2>2. PICK p \in [1..c -> Nfc!Entries] : Ordered(c, p)
    BY <2>1
  <2>3. \A i \in 1..c : p[i] \in 1..n /\ p[i] \in 1..(n + 1)
    BY <1>2, <2>2 DEF Ordered
  <2>4. ASSUME NEW u \in Nfc!Threads
        PROVE  /\ notif_chain_pc'[u] = "writehead" => LeadsBack(Read(u)', p, c + 1)
               /\ notif_chain_pc'[u] = "link" =>
                      \E i \in 1..c : Entry(u)' = p[i] /\ LeadsBack(Read(u)', p, i)
               /\ Unlinked(u)' => \A i \in 1..c : p[i] # Entry(u)'
    <3>1. CASE u = t
      <4>1. \A i \in 1..c : p[i] # n + 1
        BY <2>3
      <4> QED BY <1>7, <3>1, <4>1
    <3>2. CASE u # t
      BY <1>8, <2>2, <3>2 DEF Ordered
    <3> QED BY <3>1, <3>2
  <2>5. \A i \in 1..c : p[i] \in 1..Len(entries') /\ LeadsBack(rt_next'[p[i]], p, i)
    BY <1>1, <1>5, <2>2, <2>3 DEF Ordered
  <2>6. /\ \A i, j \in 1..c : p[i] = p[j] => i = j
        /\ table_head' = IF c = 0 THEN NULL ELSE p[c]
        /\ \A e \in Nfc!Entries : (\A i \in 1..c : p[i] # e) => rt_next'[e] = NULL
    BY <1>1, <2>2 DEF Ordered
  <2>7. Ordered(c, p)'
    BY <2>4, <2>5, <2>6 DEF Ordered, LeadsBack
  <2> QED BY <2>7 DEF NfcOrder
<1>15. NfcBegun'
  <2> SUFFICES ASSUME ~spaced PROVE NfcBegun'
    BY <1>1 DEF NfcBegun
  <2>1. Begun \subseteq Nfc!Threads \ {t} /\ Begun' \subseteq Nfc!Threads
    BY DEF Begun
  <2>2. Begun \cup {t} \subseteq Begun'
    BY <1>1, <1>7, <1>8 DEF Begun
  <2>3. IsFiniteSet(Begun) /\ IsFiniteSet(Begun') /\ Cardinality(Begun) \in Nat
    BY <2>1, FS_Subset, FS_CardinalityType
  <2>4. Cardinality(Begun \cup {t}) = Cardinality(Begun) + 1
    BY <2>1, <2>3, FS_AddElement
  <2>5. Cardinality(Begun \cup {t}) <= Cardinality(Begun') /\ Cardinality(Begun') \in Nat
    BY <2>2, <2>3, FS_Subset, FS_CardinalityType
  <2>6. n <= Cardinality(Begun) /\ \A u \in Nfc!Threads : Len(job'[u]) <= 1
    BY <1>1, <1>2 DEF NfcBegun
  <2>7. Len(entries') <= Cardinality(Begun')
    BY <1>5, <2>3, <2>4, <2>5, <2>6
  <2> QED BY <2>6, <2>7 DEF NfcBegun
<1>16. NfcTurns'
  <2>1. ASSUME spaced, NEW u \in Nfc!Threads, notif_chain_pc'[u] # "lookup"
        PROVE  Nfc!MayRun(u)
    BY <1>8, <2>1 DEF NfcTurns
  <2>2. ASSUME NEW u \in Nfc!Threads, Nfc!MayRun(u) PROVE Nfc!MayRun(u)'
    BY <2>2, NfcMayRunKept
  <2>3. spaced' = spaced
    OBVIOUS
  <2> QED BY <2>1, <2>2, <2>3 DEF NfcTurns
<1>17. NfcTable'
  <2> SUFFICES ASSUME spaced PROVE NfcTable'
    BY <1>1 DEF NfcTable
  <2>1. \A u \in Nfc!Threads : notif_chain_pc[u] = "lookup"
    BY NfcAlone
  <2>2. \A u \in Nfc!Threads : ~Unlinked(u) /\ ~Inserting(u)
    BY <2>1 DEF Unlinked, Inserting
  <2>3. /\ table_head = Top(Len(entries)) /\ \A e \in 1..Len(entries) : rt_next[e] = Below(e)
        /\ \A e, f \in 1..Len(entries) : entries[e] = entries[f] => e = f
    BY <2>2 DEF NfcTable
  <2>4. \A e, f \in 1..Len(entries') : entries'[e] = entries'[f] => e = f
    <3>1. ASSUME NEW e \in 1..(n + 1), NEW f \in 1..(n + 1), entries'[e] = entries'[f]
          PROVE  e = f
      <4>1. CASE e = n + 1
        BY <1>4, <1>5, <3>1, <4>1
      <4>2. CASE f = n + 1
        BY <1>4, <1>5, <3>1, <4>2
      <4>3. CASE e # n + 1 /\ f # n + 1
        BY <1>2, <1>5, <2>3, <3>1, <4>3
      <4> QED BY <4>1, <4>2, <4>3
    <3> QED BY <1>5, <3>1
  <2>5. table_head' = IF n + 1 <= 1 THEN NULL ELSE (n + 1) - 1
    BY <1>1, <1>2, <2>3 DEF Top
  <2>6. ASSUME NEW u \in Nfc!Threads, u # t
        PROVE  /\ notif_chain_pc'[u] = "lookup" /\ ~Inserting(u)' /\ ~Unlinked(u)'
    BY <1>8, <2>1, <2>2, <2>6
  <2>7. ASSUME NEW u \in Nfc!Threads
        PROVE  /\ Inserting(u)' => Entry(u)' = Len(entries')
               /\ Unlinked(u)' => table_head' = Below(Len(entries'))
               /\ notif_chain_pc'[u] \notin {"writehead", "link"}
    <3>1. CASE u = t
      BY <1>5, <1>7, <2>5, <3>1 DEF Below
    <3>2. CASE u # t
      BY <2>6, <3>2
    <3> QED BY <3>1, <3>2
  <2>8. \A e \in 1..Len(entries') : e # Len(entries') => rt_next'[e] = Below(e)
    BY <1>1, <1>2, <1>5, <2>3
  <2>9. ~(\A u \in Nfc!Threads : ~Unlinked(u)') /\ ~(\A u \in Nfc!Threads : ~Inserting(u)')
    BY <1>7
  <2> QED BY <2>4, <2>7, <2>8, <2>9 DEF NfcTable, Below
<1>18. NfcKnown'
  <2>1. ASSUME NEW s, NEW e, Knows(s, e) PROVE Knows(s, e)'
    <3>1. PICK x \in 1..n :
              /\ entries[x] = e /\ s \in Nfc!OnChain(x)
              /\ version[x] > 0 => <<x, version[x]>> \in told[s]
      BY <1>2, <2>1 DEF Knows
    <3>2. x \in 1..Len(entries') /\ entries'[x] = e
      BY <1>5, <3>1
    <3>3. (s \in Nfc!OnChain(x))'
      BY <1>1, <3>1 DEF Nfc!OnChain
    <3> QED BY <1>1, <3>1, <3>2, <3>3 DEF Knows
  <2>2. ASSUME NEW s \in Subscribers, spaced
        PROVE  notif_chain_pc'[s] # "register" /\ notif_chain_pc'[s] # "registered"
    <3>1. ASSUME NEW u \in Nfc!Threads, u # t PROVE notif_chain_pc'[u] = "lookup"
      <4>1. notif_chain_pc[u] = "lookup"
        BY <2>2, <3>1, NfcAlone
      <4> QED BY <1>8, <3>1, <4>1
    <3> QED BY <1>7, <3>1
  <2> QED BY <1>1, <2>1, <2>2 DEF NfcKnown
<1> QED BY <1>9, <1>11, <1>13, <1>14, <1>15, <1>16, <1>17, <1>18

\* The subscriber finds none, and is going to look again.
LEMMA NfcMisses ==
    ASSUME NfcInv, NEW t \in Nfc!Threads,
           notif_chain_hand' \in [Nfc!Threads -> NfcHands],
           \A u \in Nfc!Threads : Entry(u)' = Entry(u) /\ Read(u)' = Read(u),
           UNCHANGED <<spaced, entries, table_head, rt_next, chain, job, told, version, entered,
                       notif_chain_pc>>
    PROVE  NfcInv'
<1>1. /\ spaced' = spaced /\ entries' = entries /\ table_head' = table_head /\ rt_next' = rt_next
      /\ chain' = chain /\ job' = job /\ told' = told /\ version' = version
      /\ entered' = entered /\ notif_chain_pc' = notif_chain_pc
  OBVIOUS
<1>2. /\ notif_chain_hand' \in [Nfc!Threads -> NfcHands]
      /\ \A u \in Nfc!Threads : Entry(u)' = Entry(u) /\ Read(u)' = Read(u)
  OBVIOUS
<1>3. NfcTyped'
  BY <1>1, <1>2 DEF NfcInv, NfcTyped
<1>4. NfcWorks' /\ NfcBegun'
  BY <1>1, <1>2 DEF NfcInv, NfcWorks, NfcBegun, Begun
<1>5. NfcOrder' /\ NfcApart' /\ NfcTable'
  <2>1. InsertingKept
    BY <1>1, <1>2 DEF InsertingKept, Inserting
  <2> QED BY <1>1, <2>1, NfcTableKept DEF NfcInv
<1>6. NfcTurns'
  BY <1>1 DEF NfcInv, NfcTurns, Nfc!MayRun, Nfc!Through
<1>7. NfcKnown'
  <2>1. Subscribers \subseteq Nfc!Threads
    BY DEF Nfc!Threads
  <2> QED BY <1>1, <1>2, <2>1 DEF NfcInv, NfcKnown, Knows, Nfc!OnChain
<1> QED BY <1>3, <1>4, <1>5, <1>6, <1>7 DEF NfcInv

LEMMA NfcHandTakes ==
    ASSUME NfcInv, NEW t \in Nfc!Threads, NEW e \in Nfc!Reached,
           notif_chain_hand' = [notif_chain_hand EXCEPT ![t].entry = e]
    PROVE  HandHolds(notif_chain_hand', notif_chain_hand, t, e)
<1>1. PICK h, g : h = notif_chain_hand /\ g = notif_chain_hand'
  OBVIOUS
<1>2. h \in [Nfc!Threads -> NfcHands] /\ g = [h EXCEPT ![t].entry = e]
  BY <1>1 DEF NfcInv, NfcTyped
<1>3. e \in Nfc!Entries
  <2>1. PICK c \in Nat : \E p \in [1..c -> Nfc!Entries] : Ordered(c, p)
    BY DEF NfcInv, NfcOrder
  <2>2. PICK p \in [1..c -> Nfc!Entries] : Ordered(c, p)
    BY <2>1
  <2>3. e \in 1..Len(entries)
    BY <2>2, NfcFindsEntries DEF NfcInv
  <2>4. PICK n \in Nat : n = Len(entries) /\ n <= Nfc!MaxEntries
    <3>1. PICK q \in Seq(Nfc!Dests) : q = entries
      BY DEF NfcInv, NfcTyped
    <3>2. Len(q) \in Nat
      BY <3>1
    <3>3. Len(entries) <= Nfc!MaxEntries
      BY DEF NfcInv, NfcTyped
    <3> QED BY <3>1, <3>2, <3>3
  <2> QED BY <2>3, <2>4, NfcNumbers
<1>4. HandHolds(g, h, t, e)
  BY <1>2, <1>3, NfcHandFilled
<1> QED BY <1>1, <1>4

\* The look-up of rt_table_register_for_notification
LEMMA NfcLooksUp ==
    ASSUME NfcInv, NEW t \in Nfc!Threads, Nfc!MayRun(t), Nfc!LookUp(t)
    PROVE  NfcInv'
<1>1. /\ notif_chain_pc[t] = "lookup" /\ job[t] # <<>>
      /\ UNCHANGED <<spaced, entries, table_head, rt_next, chain, job, told, version, entered>>
  BY DEF Nfc!LookUp, Nfc!Through
<1>2. CASE /\ notif_chain_hand' = [notif_chain_hand EXCEPT ![t].new = TRUE]
           /\ UNCHANGED notif_chain_pc
  <2>1. PICK h, g : h = notif_chain_hand /\ g = notif_chain_hand'
    OBVIOUS
  <2>2. h \in [Nfc!Threads -> NfcHands] /\ g = [h EXCEPT ![t].new = TRUE]
    BY <1>2, <2>1 DEF NfcInv, NfcTyped
  <2>3. HandMissed(g, h)
    BY <2>2, NfcHandMissed
  <2>4. /\ notif_chain_hand' \in [Nfc!Threads -> NfcHands]
        /\ \A u \in Nfc!Threads : Entry(u)' = Entry(u) /\ Read(u)' = Read(u)
    BY <2>1, <2>3 DEF HandMissed, Entry, Read
  <2> QED BY <1>1, <1>2, <2>4, NfcMisses
<1>3. ASSUME NEW e \in Nfc!Found(t),
             notif_chain_hand' = [notif_chain_hand EXCEPT ![t].entry = e],
             notif_chain_pc' = [notif_chain_pc EXCEPT ![t] = "act"]
      PROVE  NfcInv'
  <2>1. e \in Nfc!Reached /\ entries[e] = Head(job[t])
    BY <1>3 DEF Nfc!Found
  <2>2. HandHolds(notif_chain_hand', notif_chain_hand, t, e)
    BY <1>3, <2>1, NfcHandTakes
  <2> QED BY <1>1, <1>3, <2>1, <2>2, NfcFinds
<1> QED BY <1>2, <1>3 DEF Nfc!LookUp, Nfc!Goto

\* The look-up of rt_add_or_update_rt_entry, and the entry that it may create
LEMMA NfcAddsOrUpdates ==
    ASSUME NfcInv, NEW t \in Nfc!Threads, Nfc!MayRun(t), Nfc!AddOrUpdate(t)
    PROVE  NfcInv'
<1>1. /\ notif_chain_pc[t] = "lookup" /\ job[t] # <<>>
      /\ UNCHANGED <<spaced, table_head, rt_next, chain, job, told, version, entered>>
  BY DEF Nfc!AddOrUpdate, Nfc!Through
<1>2. ASSUME NEW e \in Nfc!Found(t),
             notif_chain_hand' = [notif_chain_hand EXCEPT ![t].entry = e],
             notif_chain_pc' = [notif_chain_pc EXCEPT ![t] = "act"],
             UNCHANGED entries
      PROVE  NfcInv'
  <2>1. e \in Nfc!Reached /\ entries[e] = Head(job[t])
    BY <1>2 DEF Nfc!Found
  <2>2. HandHolds(notif_chain_hand', notif_chain_hand, t, e)
    BY <1>2, <2>1, NfcHandTakes
  <2> QED BY <1>1, <1>2, <2>1, <2>2, NfcFinds
<1>3. CASE /\ Nfc!Found(t) = {}
           /\ entries' = Append(entries, Head(job[t]))
           /\ notif_chain_hand' = [notif_chain_hand EXCEPT ![t].entry = Len(entries')]
           /\ notif_chain_pc' = [notif_chain_pc EXCEPT ![t] = "readhead"]
  <2>1. \A e \in Nfc!Reached : entries[e] # Head(job[t])
    BY <1>3 DEF Nfc!Found
  <2>2. PICK n \in Nat : n = Len(entries)
    BY DEF NfcInv, NfcTyped
  <2>3. n + 1 <= Nfc!MaxEntries /\ n + 1 \in Nfc!Entries
    <3>1. n + 1 <= Nfc!MaxEntries
      BY <1>1, <2>1, <2>2, NfcRoom
    <3> QED BY <2>2, <3>1, NfcNumbers
  <2>4. Len(entries') = n + 1
    <3>1. PICK q \in Seq(Nfc!Dests) : q = entries
      BY DEF NfcInv, NfcTyped
    <3>2. \A d : Len(Append(q, d)) = Len(q) + 1
      BY <3>1
    <3> QED BY <1>3, <2>2, <3>1, <3>2
  <2>5. HandHolds(notif_chain_hand', notif_chain_hand, t, Len(entries'))
    <3>1. PICK h, g : h = notif_chain_hand /\ g = notif_chain_hand'
      OBVIOUS
    <3>2. h \in [Nfc!Threads -> NfcHands] /\ g = [h EXCEPT ![t].entry = n + 1]
      BY <1>3, <2>4, <3>1 DEF NfcInv, NfcTyped
    <3>3. HandHolds(g, h, t, n + 1)
      BY <2>3, <3>2, NfcHandFilled
    <3> QED BY <2>4, <3>1, <3>3
  <2> QED BY <1>1, <1>3, <2>1, <2>5, NfcCreates
<1> QED BY <1>2, <1>3 DEF Nfc!AddOrUpdate, Nfc!Goto

LEMMA NfcUnchanged == ASSUME NfcInv, UNCHANGED Nfc!vars PROVE NfcInv'
<1>1. /\ spaced' = spaced /\ entries' = entries /\ table_head' = table_head /\ rt_next' = rt_next
      /\ chain' = chain /\ job' = job /\ notif_chain_hand' = notif_chain_hand /\ told' = told
      /\ version' = version /\ entered' = entered /\ notif_chain_pc' = notif_chain_pc
  BY DEF Nfc!vars
<1>2. NfcTyped' /\ NfcWorks' /\ NfcBegun'
  BY <1>1 DEF NfcInv, NfcTyped, NfcWorks, NfcBegun, Begun, Entry, Read
<1>3. NfcOrder' /\ NfcApart' /\ NfcTable'
  <2>1. InsertingKept
    BY <1>1 DEF InsertingKept, Inserting, Entry, Read
  <2> QED BY <1>1, <2>1, NfcTableKept DEF NfcInv
<1>4. NfcTurns'
  BY <1>1 DEF NfcInv, NfcTurns, Nfc!MayRun, Nfc!Through
<1>5. NfcKnown'
  BY <1>1 DEF NfcInv, NfcKnown, Knows, Nfc!OnChain, Entry, Read
<1> QED BY <1>2, <1>3, <1>4, <1>5 DEF NfcInv

LEMMA NfcKeeps == NfcInv /\ [Nfc!Next]_Nfc!vars => NfcInv'
<1> SUFFICES ASSUME NfcInv, [Nfc!Next]_Nfc!vars PROVE NfcInv'
  OBVIOUS
<1>1. CASE UNCHANGED Nfc!vars
  BY <1>1, NfcUnchanged
<1>2. ASSUME NEW t \in Nfc!Threads, Nfc!Step(t) PROVE NfcInv'
  <2>1. Nfc!MayRun(t)
    BY <1>2 DEF Nfc!Step
  <2>2. CASE Nfc!LookUp(t) \/ Nfc!AddOrUpdate(t)
    BY <2>1, <2>2, NfcLooksUp, NfcAddsOrUpdates
  <2>3. CASE Nfc!ReadHead(t)
    BY <2>3, NfcReads
  <2>4. CASE Nfc!WriteHead(t)
    BY <2>1, <2>4, NfcWrites
  <2>5. CASE Nfc!Link(t)
    BY <2>1, <2>5, NfcLinks
  <2>6. CASE t = Nfc!Publisher /\ Nfc!Publish
    <3>1. t = 0
      BY <2>6 DEF Nfc!Publisher
    <3> QED BY <2>1, <2>6, <3>1, NfcPublishes
  <2>7. CASE t = Nfc!Publisher /\ Nfc!Menu
    BY <2>7, NfcEnters
  <2>8. CASE t # Nfc!Publisher /\ (Nfc!ReadChain(t) \/ Nfc!Register(t) \/ Nfc!Registered(t))
    <3>1. t \in Subscribers
      BY <2>8 DEF Nfc!Threads
    <3> QED BY <2>1, <2>8, <3>1, NfcReadsChain, NfcRegisters, NfcRegistered
  <2> QED BY <1>2, <2>2, <2>3, <2>4, <2>5, <2>6, <2>7, <2>8 DEF Nfc!Step
<1> QED BY <1>1, <1>2 DEF Nfc!Next

LEMMA NfcAlways == DataSpec => []NfcInv
BY NfcRuns, NfcStarts, NfcKeeps, PTL DEF Nfc!Spec


-----------------------------------------------------------------------------
(* What the threads of MC_Data may rely on *)

\* The students of CRUD/: who has one has a live one, and its count is the
\* number of those who have it (thread_using_object_done frees it at zero).
THEOREM StudentsAreCounted ==
    DataSpec => [](Crud!TypeOK /\ Crud!NoUseAfterFree /\ Crud!RefCountExact)
BY CrudAlways, CrudIsTyped, CrudIsSafe, PTL

\* map_reduce_start: the reducer reads the results of all mappers, after the
\* last was written, the assert behind the wait for the mappers holds, and once the
\* first start has returned nothing is reported to be in progress, whatever cleanup
\* functions are registered.
THEOREM ResultsAreReduced ==
    DataSpec => [](Reduce!TypeOK /\ Reduce!ReducesAll /\ Reduce!IdleReported
                       /\ Reduce!AssertsHold)
BY ReduceAlways, ReduceIsTyped, ReduceLosesNothing, PTL

\* The staged line (asl.c): until it is destroyed its objects are in order and
\* none is missing, the count of working threads is exact, and main, if it
\* waits for the last object, destroys the line cleanly.
THEOREM ObjectsPassInOrder ==
    DataSpec => [](Line!TypeOK /\ Line!InOrder /\ Line!WorkersExact /\ Line!CleanWhenEmpty)
BY LineAlways, LineIsTyped, LineInOrder, LineCountsExactly, LineIsClean, PTL

\* LinkedListApi.c: whatever calls came before, node_count different nodes that
\* are allocated hang on the head, and NULL is behind them; so the loops that
\* run by node_count and those that run to NULL see the same nodes.
THEOREM ListsAreWellFormed == DataSpec => [](List!TypeOK /\ List!WellFormed)
BY ListRuns, ListAlways, ListIsFormed, PTL

\* glthread.c: whatever calls came before, the links of the glue agree in both
\* directions, and a node on no list has none, so that it can be removed again.
THEOREM GlueIsWellLinked == DataSpec => [](Glue!TypeOK /\ Glue!WellLinked)
BY GlueRuns, GlueAlways, GlueIsLinked, PTL

\* ThreadBasics/NFC: however publisher and subscribers overlap, a walk along the
\* routing table ends, though the head of the table is read and written by
\* others before an entry is linked.  If main's sleeps keep the threads apart, the
\* table has one entry for a destination, reaches it, and each subscriber has
\* the last update of the entries that it has registered for.
THEOREM ChainsNotify ==
    DataSpec => [](Nfc!TypeOK /\ Nfc!WalksEnd /\ Nfc!TableExact /\ Nfc!Notified)
BY NfcAlways, NfcIsTyped, NfcEnds, NfcIsExact, NfcNotifies, PTL

\* LinkedListApi.c, glthread.c: in every behaviour each call, whatever calls came
\* before, does to the chain of nodes what it is to do to a sequence: it puts in
\* or takes out one place, turns the sequence round or empties it, and the
\* insertions by order keep an ordered sequence ordered.
THEOREM CallsDoTheirWork == DataSpec => CallsCorrect
<1>1. List!Spec => List!CallsCorrect
  BY ListStarts, ListKeeps, PTL DEF List!Spec, List!CallsCorrect
<1>2. Glue!Spec => Glue!CallsCorrect
  BY GlueStarts, GlueKeeps, PTL DEF Glue!Spec, Glue!CallsCorrect
<1>3. CallsCorrect <=> List!CallsCorrect /\ Glue!CallsCorrect
  BY DEF CallsCorrect
<1> QED BY <1>1, <1>2, <1>3, ListRuns, GlueRuns, PTL

\* The lock of MC_Data runs as the lock alone, about which the first theorems are.
LEMMA RwRuns == DataSpec => Spec
<1>1. DataInit => Init
  BY DEF DataInit
<1>2. [DataNext]_dataVars => [Next]_vars
  BY DEF DataNext, dataVars, OthersLine, OthersReduce, OthersCrud, OthersNfc, OthersList,
         OthersGlue
<1> QED BY <1>1, <1>2, PTL DEF DataSpec, Spec

\* The variables of the seven components keep their types.
THEOREM DataIsTyped == DataSpec => []DataTypeOK
<1>1. DataTypeOK <=>
          /\ Line!TypeOK /\ Reduce!TypeOK /\ Crud!TypeOK
          /\ Nfc!TypeOK /\ List!TypeOK /\ Glue!TypeOK /\ TypeOK
  BY DEF DataTypeOK
<1> QED
  BY <1>1, ObjectsPassInOrder, ResultsAreReduced, StudentsAreCounted, ChainsNotify,
     ListsAreWellFormed, GlueIsWellLinked, RwRuns, TypeCorrect, PTL

\* Nothing is lost between threads: the objects of the staged line, the results of
\* the mappers, the updates of the routing table.
THEOREM NothingIsLost == DataSpec => []NothingLost
<1>1. NothingLost <=>
          /\ Line!InOrder /\ Line!WorkersExact /\ Line!CleanWhenEmpty
          /\ Reduce!ReducesAll /\ Reduce!IdleReported /\ Reduce!AssertsHold
          /\ Nfc!TableExact /\ Nfc!Notified
  BY DEF NothingLost
<1> QED BY <1>1, ObjectsPassInOrder, ResultsAreReduced, ChainsNotify, PTL

\* No freed object is used and no link leads astray: students, routing table, list
\* and glue.
THEOREM LinksStayAlive == DataSpec => []LinksAlive
<1>1. LinksAlive <=>
          /\ Crud!NoUseAfterFree /\ Crud!RefCountExact /\ Nfc!WalksEnd
          /\ List!WellFormed /\ Glue!WellLinked
  BY DEF LinksAlive
<1> QED
  BY <1>1, StudentsAreCounted, ChainsNotify, ListsAreWellFormed, GlueIsWellLinked, PTL
=============================================================================
