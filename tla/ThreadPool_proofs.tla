-------------------------- MODULE ThreadPool_proofs --------------------------
(***************************************************************************)
(* Proofs about the thread pool of threadlib.c, for any sets of threads    *)
(* and dispatchers and any number of dispatches.  What is said of the work *)
(* holds however many callers are blocked at a time; what is said of       *)
(* thread->semaphore, which Cleanup writes without the mutex, holds when   *)
(* only one of the application's threads asks to be blocked.               *)
(***************************************************************************)
EXTENDS ThreadPool, TLAPS

\* At most one dispatcher passes block_caller.
OneBlockingCaller == \A c, d \in Blocking : c = d

\* TypeOK, but for a sem_post of a semaphore that is NULL by now.
VariablesTyped ==
    /\ pool \subseteq Workers
    /\ wpc \in [Workers -> WPCs]
    /\ semaphore \in [Workers -> Dispatchers \cup {NULL}]
    /\ work \in [Workers -> Works \cup {NULL}]
    /\ dpc \in [Dispatchers -> DPCs]
    /\ taken \in [Dispatchers -> Workers \cup {NULL}]
    /\ posted \subseteq Dispatchers \cup {NULL}
    /\ rounds \in [Dispatchers -> 0..Rounds]
    /\ executed \in [Works -> Nat]

\* A dispatcher in the middle of a dispatch has a thread and a piece of work.
TakenTyped ==
    /\ \A d \in Dispatchers : dpc[d] # "idle" => taken[d] \in Workers /\ rounds[d] > 0
    /\ \A d \in Dispatchers : dpc[d] \in {"waiting", "cleanup"} => d \in Blocking

\* The work k has been given to a thread.
HandedOver(k) ==
    /\ k[2] <= rounds[k[1]]
    /\ dpc[k[1]] = "dispatch" => k[2] < rounds[k[1]]

\* Only work that was handed over is done or in hand; what is in hand has not
\* been done, and is in hand of one thread.
WorkInHand ==
    /\ \A k \in Works : executed[k] > 0 => HandedOver(k)
    /\ \A w \in Workers : wpc[w] = "running" =>
           \E k \in Works : work[w] = k /\ HandedOver(k) /\ executed[k] = 0
    /\ \A v, w \in Workers :
           wpc[v] = "running" /\ wpc[w] = "running" /\ work[v] = work[w] => v = w

\* A semaphore is up, or is the one a thread has to post, only for its owner's
\* present call, and is posted after the work, once.
SemaphoreIsCurrent ==
    /\ \A d \in Dispatchers \cap posted : dpc[d] = "waiting" /\ executed[Current(d)] = 1
    /\ \A d \in Dispatchers : dpc[d] = "cleanup" => executed[Current(d)] = 1
    /\ \A w \in Workers : \A d \in Dispatchers : semaphore[w] = d =>
           /\ taken[d] = w
           /\ dpc[d] \in {"waiting", "cleanup"}
           /\ IF wpc[w] = "running" THEN work[w] = Current(d)
                                    ELSE executed[Current(d)] = 1
           /\ (d \in posted \/ dpc[d] = "cleanup") => wpc[w] = "parked"

IInv ==
    /\ VariablesTyped /\ TakenTyped /\ PoolThreadsIdle
    /\ DoneOnce /\ WorkInHand /\ SemaphoreIsCurrent

\* With one blocking caller nobody else clears its thread's semaphore.
SemaphoreSafe ==
    /\ NULL \notin posted
    /\ \A w \in Workers : wpc[w] = "posting" => semaphore[w] # NULL
    /\ \A d \in Dispatchers : dpc[d] = "waiting" /\ d \notin posted =>
           /\ semaphore[taken[d]] = d
           /\ wpc[taken[d]] \in {"running", "stage3", "posting"}

-----------------------------------------------------------------------------
(* The inductive invariant, one lemma per operation *)

LEMMA InitEstablishes == Init => IInv /\ SemaphoreSafe
<1> SUFFICES ASSUME Init PROVE IInv /\ SemaphoreSafe
  OBVIOUS
<1> USE SetsAssumption, BoundAssumption DEF Init
<1>1. VariablesTyped
  BY DEF VariablesTyped, WPCs, DPCs
<1>2. TakenTyped /\ PoolThreadsIdle /\ DoneOnce
  BY DEF TakenTyped, PoolThreadsIdle, DoneOnce
<1>3. WorkInHand
  BY DEF WorkInHand
<1>4. SemaphoreIsCurrent /\ SemaphoreSafe
  BY DEF SemaphoreIsCurrent, SemaphoreSafe
<1> QED BY <1>1, <1>2, <1>3, <1>4 DEF IInv

LEMMA WorkNamed ==
    /\ \A k \in Works : k[1] \in Dispatchers /\ k[2] \in 1..Rounds /\ k = <<k[1], k[2]>>
    /\ \A d \in Dispatchers : \A n \in 1..Rounds :
           <<d, n>> \in Works /\ <<d, n>>[1] = d /\ <<d, n>>[2] = n
BY DEF Works

\* With the mutex free, the threads in the pool are ready to be fired.
LEMMA PoolReady ==
    ASSUME IInv, MutexFree
    PROVE  \A w \in pool : w \in Workers /\ wpc[w] \in {"new", "parked"}
BY DEF IInv, VariablesTyped, PoolThreadsIdle, MutexFree

LEMMA InsertNewKeeps ==
    ASSUME IInv, NEW w \in Workers, InsertNew(w)
    PROVE  IInv'
<1> USE SetsAssumption DEF IInv, InsertNew, dispatcher, VariablesTyped
<1>0. \A v \in Workers : wpc'[v] = IF v = w THEN "new" ELSE wpc[v]
  OBVIOUS
<1>1. VariablesTyped'
  BY DEF WPCs
<1>2. TakenTyped' /\ DoneOnce'
  BY DEF TakenTyped, DoneOnce
<1>3. PoolThreadsIdle'
  BY <1>0 DEF PoolThreadsIdle, TakenTyped
<1>4. WorkInHand'
  BY <1>0 DEF WorkInHand, HandedOver
<1>5. SemaphoreIsCurrent'
  BY <1>0 DEF SemaphoreIsCurrent, Current
<1> QED BY <1>1, <1>2, <1>3, <1>4, <1>5

LEMMA GetThreadKeeps ==
    ASSUME IInv, NEW d \in Dispatchers, GetThread(d)
    PROVE  IInv'
<1> USE SetsAssumption, BoundAssumption DEF IInv
<1>0. /\ dpc[d] = "idle" /\ rounds[d] \in Nat /\ rounds[d] < Rounds
      /\ \A c \in Dispatchers : rounds'[c] = IF c = d THEN rounds[d] + 1 ELSE rounds[c]
      /\ \A c \in Dispatchers \ {d} : dpc'[c] = dpc[c] /\ taken'[c] = taken[c]
      /\ UNCHANGED <<semaphore, posted, wpc, work, executed>>
      /\ dpc'[d] \in {"idle", "dispatch"}
  BY DEF GetThread, TakeFromPool, worker, VariablesTyped
<1>1. \/ pool = {} /\ UNCHANGED <<pool, dpc, taken>>
      \/ \E w \in pool : /\ pool' = pool \ {w} /\ taken'[d] = w /\ dpc'[d] = "dispatch"
                         /\ w \in Workers /\ wpc[w] \in {"new", "parked"}
  BY PoolReady DEF GetThread, TakeFromPool, VariablesTyped
<1>2. VariablesTyped'
  <2>1. rounds' \in [Dispatchers -> 0..Rounds]
    BY <1>0 DEF GetThread, VariablesTyped
  <2>2. /\ pool' \subseteq Workers /\ dpc' \in [Dispatchers -> DPCs]
        /\ taken' \in [Dispatchers -> Workers \cup {NULL}]
    BY DEF GetThread, TakeFromPool, VariablesTyped, DPCs
  <2> QED BY <1>0, <2>1, <2>2 DEF VariablesTyped
<1>3. TakenTyped'
  BY <1>0, <1>1 DEF TakenTyped
<1>4. PoolThreadsIdle'
  BY <1>0, <1>1 DEF PoolThreadsIdle, VariablesTyped, TakenTyped
<1>5. DoneOnce'
  BY <1>0 DEF DoneOnce
<1>6. ASSUME NEW k \in Works, HandedOver(k) PROVE HandedOver(k)'
  BY <1>0, <1>6, WorkNamed DEF HandedOver, VariablesTyped
<1>7. WorkInHand'
  BY <1>0, <1>6 DEF WorkInHand
<1>8. SemaphoreIsCurrent'
  <2>1. d \notin posted /\ \A w \in Workers : semaphore[w] # d
    BY <1>0 DEF SemaphoreIsCurrent
  <2>2. \A c \in Dispatchers \ {d} : Current(c)' = Current(c)
    BY <1>0 DEF Current
  <2> QED BY <1>0, <2>1, <2>2 DEF SemaphoreIsCurrent
<1> QED BY <1>2, <1>3, <1>4, <1>5, <1>7, <1>8

\* The thread d took runs, with the work of this call and no other.
LEMMA FireKeeps ==
    ASSUME IInv, NEW d \in Dispatchers, Fire(d)
    PROVE  IInv'
<1> USE SetsAssumption, BoundAssumption DEF IInv
<1>a. rounds[d] \in 1..Rounds /\ taken[d] \in Workers
  BY DEF Fire, TakenTyped, VariablesTyped
<1>b. PICK w \in Workers : w = taken[d]
  BY <1>a
<1>c. PICK k \in Works : k = Current(d) /\ k[1] = d /\ k[2] = rounds[d]
  BY <1>a, WorkNamed DEF Current
<1>d. PICK s \in Dispatchers \cup {NULL} : s = IF d \in Blocking THEN d ELSE NULL
  OBVIOUS
<1>0. /\ dpc[d] = "dispatch" /\ w \notin pool /\ wpc[w] \in {"new", "parked"}
      /\ dpc'[d] = IF d \in Blocking THEN "waiting" ELSE "idle"
      /\ \A c \in Dispatchers \ {d} : dpc'[c] = dpc[c]
      /\ \A v \in Workers : /\ wpc'[v] = IF v = w THEN "running" ELSE wpc[v]
                            /\ work'[v] = IF v = w THEN k ELSE work[v]
                            /\ semaphore'[v] = IF v = w THEN s ELSE semaphore[v]
      /\ UNCHANGED <<pool, posted, taken, rounds, executed>>
  <2>1. dpc[d] = "dispatch" /\ w \notin pool /\ wpc[w] \in {"new", "parked"}
    BY <1>b DEF Fire, PoolThreadsIdle
  <2> QED BY <1>b, <1>c, <1>d, <2>1 DEF Fire, RunThread, Current, VariablesTyped
<1>1. ~HandedOver(k) /\ HandedOver(k)' /\ executed[k] = 0
  <2>1. ~HandedOver(k)
    BY <1>a, <1>0, <1>c DEF HandedOver
  <2>2. HandedOver(k)'
    <3>1. rounds' = rounds /\ dpc'[d] # "dispatch" /\ rounds[d] <= rounds[d]
      BY <1>a, <1>0
    <3> QED BY <1>c, <3>1 DEF HandedOver
  <2>3. executed[k] \in Nat
    BY DEF VariablesTyped
  <2> QED BY <1>0, <2>1, <2>2, <2>3 DEF WorkInHand
<1>2. VariablesTyped'
  <2>1. dpc' \in [Dispatchers -> DPCs]
    BY <1>0 DEF Fire, VariablesTyped, DPCs
  <2>2. wpc' \in [Workers -> WPCs]
    BY <1>0 DEF Fire, VariablesTyped, WPCs
  <2>3. semaphore' \in [Workers -> Dispatchers \cup {NULL}]
    BY <1>0 DEF Fire, VariablesTyped
  <2>4. work' \in [Workers -> Works \cup {NULL}]
    BY <1>0 DEF Fire, VariablesTyped
  <2> QED BY <1>0, <2>1, <2>2, <2>3, <2>4 DEF VariablesTyped
<1>3. TakenTyped' /\ DoneOnce'
  BY <1>0, <1>a DEF TakenTyped, DoneOnce
<1>4. PoolThreadsIdle'
  <2>1. \A c \in Dispatchers : dpc'[c] = "dispatch" =>
            dpc[c] = "dispatch" /\ taken[c] # w /\ taken[c] \in Workers
    BY <1>0, <1>b DEF PoolThreadsIdle, TakenTyped
  <2>2. ASSUME NEW v \in Workers \ pool
        PROVE  \/ wpc'[v] \in {"outside", "running", "stage3"}
               \/ \E c \in Dispatchers : dpc'[c] = "dispatch" /\ taken[c] = v
    BY <1>0, <1>b DEF PoolThreadsIdle
  <2>3. \A v \in Workers : v \in pool => wpc'[v] \in {"new", "posting", "parked"}
    BY <1>0 DEF PoolThreadsIdle
  <2>4. \A c \in Dispatchers : dpc'[c] = "dispatch" =>
            taken[c] \notin pool /\ wpc'[taken[c]] \in {"new", "parked"}
    BY <1>0, <2>1 DEF PoolThreadsIdle
  <2>5. \A b, c \in Dispatchers :
            dpc'[b] = "dispatch" /\ dpc'[c] = "dispatch" /\ taken[b] = taken[c] => b = c
    BY <2>1 DEF PoolThreadsIdle
  <2> QED BY <1>0, <2>2, <2>3, <2>4, <2>5 DEF PoolThreadsIdle
<1>5. ASSUME NEW j \in Works, HandedOver(j) PROVE HandedOver(j)'
  <2>1. j[1] \in Dispatchers
    BY WorkNamed
  <2>2. dpc'[j[1]] = "dispatch" => dpc[j[1]] = "dispatch"
    BY <1>0, <2>1
  <2>3. rounds' = rounds
    BY <1>0
  <2> QED BY <1>5, <2>2, <2>3 DEF HandedOver
<1>6. WorkInHand'
  <2>1. \A v \in Workers : wpc'[v] = "running" =>
            \E j \in Works : work'[v] = j /\ HandedOver(j)' /\ executed'[j] = 0
    BY <1>0, <1>1, <1>5 DEF WorkInHand
  <2>2. \A u, v \in Workers :
            wpc'[u] = "running" /\ wpc'[v] = "running" /\ work'[u] = work'[v] => u = v
    BY <1>0, <1>1 DEF WorkInHand
  <2>3. \A j \in Works : executed'[j] > 0 => HandedOver(j)'
    BY <1>0, <1>5 DEF WorkInHand
  <2> QED BY <2>1, <2>2, <2>3 DEF WorkInHand
<1>7. SemaphoreIsCurrent'
  <2>1. \A c \in Dispatchers : Current(c)' = Current(c)
    BY <1>0 DEF Current
  <2>2. d \notin posted /\ \A v \in Workers : semaphore[v] # d
    BY <1>0 DEF SemaphoreIsCurrent
  <2>3. ASSUME NEW v \in Workers, NEW c \in Dispatchers, semaphore'[v] = c
        PROVE  /\ taken'[c] = v
               /\ dpc'[c] \in {"waiting", "cleanup"}
               /\ IF wpc'[v] = "running" THEN work'[v] = Current(c)'
                                         ELSE executed'[Current(c)'] = 1
               /\ (c \in posted' \/ dpc'[c] = "cleanup") => wpc'[v] = "parked"
    <3>1. CASE v = w
      <4>1. c = d /\ d \in Blocking
        BY <1>0, <1>d, <2>3, <3>1
      <4> QED BY <1>0, <1>b, <1>c, <2>1, <2>2, <3>1, <4>1
    <3>2. CASE v # w
      <4>1. semaphore[v] = c /\ c # d
        BY <1>0, <2>2, <2>3, <3>2
      <4> QED BY <1>0, <2>1, <3>2, <4>1 DEF SemaphoreIsCurrent
    <3> QED BY <3>1, <3>2
  <2>4. \A c \in Dispatchers \cap posted' : dpc'[c] = "waiting" /\ executed'[Current(c)'] = 1
    BY <1>0, <2>1, <2>2 DEF SemaphoreIsCurrent
  <2>5. \A c \in Dispatchers : dpc'[c] = "cleanup" => executed'[Current(c)'] = 1
    BY <1>0, <2>1 DEF SemaphoreIsCurrent
  <2> QED BY <2>3, <2>4, <2>5 DEF SemaphoreIsCurrent
<1> QED BY <1>2, <1>3, <1>4, <1>6, <1>7

LEMMA SemWaitKeeps ==
    ASSUME IInv, NEW d \in Dispatchers, SemWait(d)
    PROVE  IInv'
<1> USE SetsAssumption DEF IInv
<1>0. /\ dpc[d] = "waiting" /\ d \in posted /\ dpc'[d] = "cleanup"
      /\ posted' = posted \ {d}
      /\ \A c \in Dispatchers \ {d} : dpc'[c] = dpc[c]
      /\ UNCHANGED <<pool, semaphore, wpc, work, executed, taken, rounds>>
  BY DEF SemWait, worker, VariablesTyped
<1>1. VariablesTyped'
  BY <1>0 DEF SemWait, VariablesTyped, DPCs
<1>2. TakenTyped' /\ DoneOnce'
  BY <1>0 DEF TakenTyped, DoneOnce
<1>3. PoolThreadsIdle'
  BY <1>0 DEF PoolThreadsIdle
<1>4. ASSUME NEW k \in Works, HandedOver(k) PROVE HandedOver(k)'
  BY <1>0, <1>4, WorkNamed DEF HandedOver
<1>5. WorkInHand'
  BY <1>0, <1>4 DEF WorkInHand
<1>6. SemaphoreIsCurrent'
  <2>1. \A c \in Dispatchers : Current(c)' = Current(c)
    BY <1>0 DEF Current
  <2> QED BY <1>0, <2>1 DEF SemaphoreIsCurrent
<1> QED BY <1>1, <1>2, <1>3, <1>5, <1>6

\* The field is cleared whatever it holds by now.
LEMMA CleanupKeeps ==
    ASSUME IInv, NEW d \in Dispatchers, Cleanup(d)
    PROVE  IInv'
<1> USE SetsAssumption DEF IInv
<1>0. /\ dpc[d] = "cleanup" /\ dpc'[d] = "idle" /\ taken[d] \in Workers
      /\ \A c \in Dispatchers \ {d} : dpc'[c] = dpc[c]
      /\ \A w \in Workers : semaphore'[w] = IF w = taken[d] THEN NULL ELSE semaphore[w]
      /\ UNCHANGED <<pool, posted, wpc, work, executed, taken, rounds>>
  BY DEF Cleanup, worker, VariablesTyped, TakenTyped
<1>1. VariablesTyped'
  BY <1>0 DEF Cleanup, VariablesTyped, DPCs
<1>2. TakenTyped' /\ DoneOnce'
  BY <1>0 DEF TakenTyped, DoneOnce
<1>3. PoolThreadsIdle'
  BY <1>0 DEF PoolThreadsIdle
<1>4. ASSUME NEW k \in Works, HandedOver(k) PROVE HandedOver(k)'
  BY <1>0, <1>4, WorkNamed DEF HandedOver
<1>5. WorkInHand'
  BY <1>0, <1>4 DEF WorkInHand
<1>6. SemaphoreIsCurrent'
  <2>1. \A c \in Dispatchers : Current(c)' = Current(c)
    BY <1>0 DEF Current
  <2>2. d \notin posted /\ \A w \in Workers : semaphore'[w] # d
    BY <1>0 DEF SemaphoreIsCurrent
  <2> QED BY <1>0, <2>1, <2>2 DEF SemaphoreIsCurrent
<1> QED BY <1>1, <1>2, <1>3, <1>5, <1>6

\* The thread does what it has in hand; it is the first to do it.
LEMMA Stage2Keeps ==
    ASSUME IInv, NEW w \in Workers, Stage2(w)
    PROVE  IInv'
<1> USE SetsAssumption DEF IInv
<1>a. PICK k \in Works : work[w] = k /\ HandedOver(k) /\ executed[k] = 0
  BY DEF Stage2, WorkInHand
<1>0. /\ wpc[w] = "running"
      /\ \A v \in Workers : wpc'[v] = IF v = w THEN "stage3" ELSE wpc[v]
      /\ \A j \in Works : executed'[j] = IF j = k THEN 1 ELSE executed[j]
      /\ UNCHANGED <<pool, semaphore, work, posted, dpc, taken, rounds>>
  BY <1>a DEF Stage2, dispatcher, VariablesTyped
<1>1. VariablesTyped'
  <2>1. executed' \in [Works -> Nat]
    BY <1>a DEF Stage2, VariablesTyped
  <2>2. wpc' \in [Workers -> WPCs]
    BY DEF Stage2, VariablesTyped, WPCs
  <2> QED BY <1>0, <2>1, <2>2 DEF VariablesTyped
<1>2. TakenTyped' /\ DoneOnce'
  BY <1>0 DEF TakenTyped, DoneOnce
<1>3. PoolThreadsIdle'
  <2>1. w \notin pool /\ \A d \in Dispatchers : dpc[d] = "dispatch" => taken[d] # w
    BY <1>0 DEF PoolThreadsIdle
  <2>2. \A d \in Dispatchers : dpc[d] = "dispatch" => taken[d] \in Workers
    BY DEF TakenTyped
  <2> QED BY <1>0, <2>1, <2>2 DEF PoolThreadsIdle
<1>4. \A j \in Works : HandedOver(j)' <=> HandedOver(j)
  BY <1>0 DEF HandedOver
<1>5. WorkInHand'
  <2>1. \A j \in Works : executed'[j] > 0 => HandedOver(j)'
    BY <1>a, <1>0, <1>4 DEF WorkInHand
  <2>2. \A v \in Workers : wpc'[v] = "running" => wpc[v] = "running" /\ work[v] # k
    BY <1>a, <1>0 DEF WorkInHand
  <2> QED BY <1>0, <1>4, <2>1, <2>2 DEF WorkInHand
<1>6. SemaphoreIsCurrent'
  <2>1. \A d \in Dispatchers : Current(d)' = Current(d)
    BY <1>0 DEF Current
  <2>2. ASSUME NEW d \in Dispatchers, Current(d) \in Works, executed[Current(d)] = 1
        PROVE  executed'[Current(d)] = 1
    BY <1>0, <2>2
  <2>3. \A d \in Dispatchers : dpc[d] # "idle" => Current(d) \in Works
    BY DEF Current, Works, TakenTyped, VariablesTyped
  <2>4. ASSUME NEW v \in Workers, NEW d \in Dispatchers, semaphore'[v] = d
        PROVE  /\ taken'[d] = v
               /\ dpc'[d] \in {"waiting", "cleanup"}
               /\ IF wpc'[v] = "running" THEN work'[v] = Current(d)'
                                         ELSE executed'[Current(d)'] = 1
               /\ (d \in posted' \/ dpc'[d] = "cleanup") => wpc'[v] = "parked"
    <3>1. semaphore[v] = d /\ Current(d) \in Works
      BY <1>0, <2>3, <2>4 DEF SemaphoreIsCurrent
    <3>2. CASE v = w
      <4>1. Current(d) = k
        BY <1>a, <1>0, <3>1, <3>2 DEF SemaphoreIsCurrent
      <4> QED BY <1>0, <2>1, <3>1, <3>2, <4>1 DEF SemaphoreIsCurrent
    <3>3. CASE v # w
      BY <1>0, <2>1, <2>2, <3>1, <3>3 DEF SemaphoreIsCurrent
    <3> QED BY <3>2, <3>3
  <2>5. \A d \in Dispatchers \cap posted' : dpc'[d] = "waiting" /\ executed'[Current(d)'] = 1
    BY <1>0, <2>1, <2>2, <2>3 DEF SemaphoreIsCurrent
  <2>6. \A d \in Dispatchers : dpc'[d] = "cleanup" => executed'[Current(d)'] = 1
    BY <1>0, <2>1, <2>2, <2>3 DEF SemaphoreIsCurrent
  <2> QED BY <2>4, <2>5, <2>6 DEF SemaphoreIsCurrent
<1> QED BY <1>1, <1>2, <1>3, <1>5, <1>6

\* The thread is back in the pool, but nobody takes it before it has parked.
LEMMA Stage3Keeps ==
    ASSUME IInv, NEW w \in Workers, Stage3(w)
    PROVE  IInv'
<1> USE SetsAssumption DEF IInv
<1>0. /\ wpc[w] = "stage3" /\ pool' = pool \cup {w}
      /\ wpc'[w] \in {"parked", "posting"}
      /\ \A v \in Workers \ {w} : wpc'[v] = wpc[v]
      /\ UNCHANGED <<semaphore, work, posted, dpc, taken, rounds, executed>>
  BY DEF Stage3, dispatcher, VariablesTyped
<1>1. VariablesTyped'
  BY <1>0 DEF Stage3, VariablesTyped, WPCs
<1>2. TakenTyped' /\ DoneOnce'
  BY <1>0 DEF TakenTyped, DoneOnce
<1>3. PoolThreadsIdle'
  <2>1. \A d \in Dispatchers : dpc[d] = "dispatch" => taken[d] \in Workers /\ taken[d] # w
    BY <1>0 DEF PoolThreadsIdle, TakenTyped
  <2> QED BY <1>0, <2>1 DEF PoolThreadsIdle
<1>4. \A j \in Works : HandedOver(j)' <=> HandedOver(j)
  BY <1>0 DEF HandedOver
<1>5. WorkInHand'
  <2>1. \A v \in Workers : wpc'[v] = "running" => wpc[v] = "running"
    BY <1>0
  <2> QED BY <1>0, <1>4, <2>1 DEF WorkInHand
<1>6. SemaphoreIsCurrent'
  <2>1. \A d \in Dispatchers : Current(d)' = Current(d)
    BY <1>0 DEF Current
  <2> QED BY <1>0, <2>1 DEF SemaphoreIsCurrent
<1> QED BY <1>1, <1>2, <1>3, <1>5, <1>6

LEMMA Stage3PostKeeps ==
    ASSUME IInv, NEW w \in Workers, Stage3Post(w)
    PROVE  IInv'
<1> USE SetsAssumption DEF IInv
<1>0. /\ wpc[w] = "posting" /\ posted' = posted \cup {semaphore[w]}
      /\ \A v \in Workers : wpc'[v] = IF v = w THEN "parked" ELSE wpc[v]
      /\ semaphore[w] \in Dispatchers \cup {NULL}
      /\ UNCHANGED <<pool, semaphore, work, dpc, taken, rounds, executed>>
  BY DEF Stage3Post, dispatcher, VariablesTyped
<1>1. VariablesTyped'
  BY <1>0 DEF Stage3Post, VariablesTyped, WPCs
<1>2. TakenTyped' /\ DoneOnce'
  BY <1>0 DEF TakenTyped, DoneOnce
<1>3. PoolThreadsIdle'
  <2>1. \A d \in Dispatchers : dpc[d] = "dispatch" => taken[d] \in Workers
    BY DEF TakenTyped
  <2> QED BY <1>0, <2>1 DEF PoolThreadsIdle
<1>4. \A j \in Works : HandedOver(j)' <=> HandedOver(j)
  BY <1>0 DEF HandedOver
<1>5. WorkInHand'
  <2>1. \A v \in Workers : wpc'[v] = "running" => wpc[v] = "running"
    BY <1>0
  <2> QED BY <1>0, <1>4, <2>1 DEF WorkInHand
<1>6. SemaphoreIsCurrent'
  <2>1. \A d \in Dispatchers : Current(d)' = Current(d)
    BY <1>0 DEF Current
  <2>2. \A d \in Dispatchers : semaphore[w] = d =>
            dpc[d] = "waiting" /\ executed[Current(d)] = 1 /\ taken[d] = w
    BY <1>0 DEF SemaphoreIsCurrent
  <2>3. \A d \in Dispatchers \cap posted' : dpc[d] = "waiting" /\ executed[Current(d)] = 1
    BY <1>0, <2>2 DEF SemaphoreIsCurrent
  <2>4. ASSUME NEW v \in Workers, NEW d \in Dispatchers, semaphore[v] = d
        PROVE  /\ taken[d] = v
               /\ dpc[d] \in {"waiting", "cleanup"}
               /\ IF wpc'[v] = "running" THEN work[v] = Current(d)
                                         ELSE executed[Current(d)] = 1
               /\ (d \in posted' \/ dpc[d] = "cleanup") => wpc'[v] = "parked"
    <3>1. CASE v = w
      BY <1>0, <2>2, <2>4, <3>1
    <3>2. CASE v # w
      <4>1. semaphore[w] # d
        BY <2>2, <2>4, <3>2 DEF SemaphoreIsCurrent
      <4> QED BY <1>0, <2>4, <3>2, <4>1 DEF SemaphoreIsCurrent
    <3> QED BY <3>1, <3>2
  <2>5. \A d \in Dispatchers : dpc[d] = "cleanup" => executed[Current(d)] = 1
    BY DEF SemaphoreIsCurrent
  <2> QED BY <1>0, <2>1, <2>3, <2>4, <2>5 DEF SemaphoreIsCurrent
<1> QED BY <1>1, <1>2, <1>3, <1>5, <1>6

LEMMA StepKeeps == IInv /\ [Next]_vars => IInv'
<1> SUFFICES ASSUME IInv, [Next]_vars PROVE IInv'
  OBVIOUS
<1>1. ASSUME NEW w \in Workers, InsertNew(w) \/ WorkerStep(w) PROVE IInv'
  BY <1>1, InsertNewKeeps, Stage2Keeps, Stage3Keeps, Stage3PostKeeps DEF WorkerStep
<1>2. ASSUME NEW d \in Dispatchers, DispatcherStep(d) PROVE IInv'
  BY <1>2, GetThreadKeeps, FireKeeps, SemWaitKeeps, CleanupKeeps DEF DispatcherStep
<1>3. CASE UNCHANGED vars
  <2>1. VariablesTyped' /\ TakenTyped' /\ PoolThreadsIdle' /\ DoneOnce'
    BY <1>3 DEF vars, worker, dispatcher, IInv, VariablesTyped, TakenTyped, PoolThreadsIdle,
                DoneOnce
  <2>2. WorkInHand' /\ SemaphoreIsCurrent'
    BY <1>3 DEF vars, worker, dispatcher, IInv, WorkInHand, HandedOver, SemaphoreIsCurrent,
                Current
  <2> QED BY <2>1, <2>2 DEF IInv
<1> QED BY <1>1, <1>2, <1>3 DEF Next, Finished

\* What thread_pool_dispatch_thread and the three stages of a thread keep: work
\* is in one hand at most, and a semaphore is that of its owner's present call.
THEOREM Invariant == Spec => []IInv
<1>1. Init => IInv
  BY InitEstablishes
<1>2. IInv /\ [Next]_vars => IInv'
  BY StepKeeps
<1> QED BY <1>1, <1>2, PTL DEF Spec

\* However many dispatchers there are and whoever of them is blocked: a thread
\* is in the pool only when it is free, no work is done twice, and a blocked
\* caller of thread_pool_dispatch_thread goes on only when its work is done.
THEOREM WorkIsDoneOnce == Spec => []WorkDoneOnce
<1>1. IInv => WorkDoneOnce
  BY DEF IInv, SemaphoreIsCurrent, WorkDoneOnce, BlockedUntilDone
<1> QED BY <1>1, Invariant, PTL

-----------------------------------------------------------------------------
(* One blocking caller *)

LEMMA StepKeepsSemaphores ==
    ASSUME OneBlockingCaller, IInv, SemaphoreSafe, [Next]_vars
    PROVE  SemaphoreSafe'
<1> USE SetsAssumption DEF IInv
<1>1. ASSUME NEW w \in Workers, InsertNew(w) PROVE SemaphoreSafe'
  BY <1>1 DEF InsertNew, dispatcher, SemaphoreSafe, VariablesTyped, TakenTyped
<1>2. ASSUME NEW d \in Dispatchers, GetThread(d) PROVE SemaphoreSafe'
  <2>1. /\ dpc[d] = "idle" /\ dpc'[d] \in {"idle", "dispatch"}
        /\ \A c \in Dispatchers \ {d} : dpc'[c] = dpc[c] /\ taken'[c] = taken[c]
        /\ UNCHANGED <<semaphore, posted, wpc>>
    BY <1>2 DEF GetThread, TakeFromPool, worker, VariablesTyped
  <2> QED BY <2>1 DEF SemaphoreSafe
<1>3. ASSUME NEW d \in Dispatchers, Fire(d) PROVE SemaphoreSafe'
  <2>1. /\ dpc[d] = "dispatch" /\ taken[d] \in Workers /\ wpc[taken[d]] \in {"new", "parked"}
        /\ dpc'[d] = IF d \in Blocking THEN "waiting" ELSE "idle"
        /\ \A c \in Dispatchers \ {d} : dpc'[c] = dpc[c]
        /\ \A v \in Workers : /\ wpc'[v] = IF v = taken[d] THEN "running" ELSE wpc[v]
                              /\ v # taken[d] => semaphore'[v] = semaphore[v]
        /\ d \in Blocking => semaphore'[taken[d]] = d
        /\ UNCHANGED <<posted, taken>>
    BY <1>3 DEF Fire, RunThread, VariablesTyped, TakenTyped, PoolThreadsIdle
  <2>2. \A c \in Dispatchers : dpc[c] = "waiting" /\ c \notin posted =>
            taken[c] \in Workers /\ taken[c] # taken[d] /\ c # d
    BY <2>1 DEF SemaphoreSafe, TakenTyped
  <2> QED BY <2>1, <2>2 DEF SemaphoreSafe
<1>4. ASSUME NEW d \in Dispatchers, SemWait(d) PROVE SemaphoreSafe'
  BY <1>4 DEF SemWait, worker, SemaphoreSafe, VariablesTyped
<1>5. ASSUME NEW d \in Dispatchers, Cleanup(d) PROVE SemaphoreSafe'
  <2>1. /\ dpc[d] = "cleanup" /\ dpc'[d] = "idle"
        /\ \A c \in Dispatchers \ {d} : dpc'[c] = dpc[c]
        /\ \A w \in Workers : semaphore'[w] = IF w = taken[d] THEN NULL ELSE semaphore[w]
        /\ UNCHANGED <<posted, wpc, taken>>
    BY <1>5 DEF Cleanup, worker, VariablesTyped
  <2>2. \A c \in Dispatchers : dpc[c] \in {"waiting", "cleanup"} => c = d
    BY <2>1 DEF TakenTyped, OneBlockingCaller
  <2>3. ASSUME NEW w \in Workers, wpc[w] = "posting" PROVE semaphore'[w] # NULL
    <3>1. semaphore[w] \in Dispatchers
      BY <2>3 DEF SemaphoreSafe, VariablesTyped
    <3>2. semaphore[w] = d
      BY <2>2, <3>1 DEF SemaphoreIsCurrent
    <3> QED BY <2>1, <2>3, <3>2 DEF SemaphoreIsCurrent
  <2> QED BY <2>1, <2>2, <2>3 DEF SemaphoreSafe
<1>6. ASSUME NEW w \in Workers, Stage2(w) PROVE SemaphoreSafe'
  BY <1>6 DEF Stage2, dispatcher, SemaphoreSafe, VariablesTyped, TakenTyped
<1>7. ASSUME NEW w \in Workers, Stage3(w) PROVE SemaphoreSafe'
  BY <1>7 DEF Stage3, dispatcher, SemaphoreSafe, VariablesTyped, TakenTyped
<1>8. ASSUME NEW w \in Workers, Stage3Post(w) PROVE SemaphoreSafe'
  <2>1. /\ wpc[w] = "posting" /\ posted' = posted \cup {semaphore[w]} /\ semaphore[w] # NULL
        /\ \A v \in Workers : wpc'[v] = IF v = w THEN "parked" ELSE wpc[v]
        /\ UNCHANGED <<semaphore, dpc, taken>>
    BY <1>8 DEF Stage3Post, dispatcher, VariablesTyped, SemaphoreSafe
  <2> QED BY <2>1 DEF SemaphoreSafe, TakenTyped
<1>9. CASE UNCHANGED vars
  BY <1>9 DEF vars, worker, dispatcher, SemaphoreSafe
<1> QED BY <1>1, <1>2, <1>3, <1>4, <1>5, <1>6, <1>7, <1>8, <1>9
        DEF Next, WorkerStep, DispatcherStep, Finished

LEMMA SemaphoresSafe ==
    ASSUME OneBlockingCaller
    PROVE  Spec => []SemaphoreSafe
<1>1. Init => SemaphoreSafe
  BY InitEstablishes
<1>2. IInv /\ SemaphoreSafe /\ [Next]_vars => SemaphoreSafe'
  BY StepKeepsSemaphores
<1> QED BY <1>1, <1>2, Invariant, PTL DEF Spec

\* With one blocking caller every variable keeps its type; in particular stage
\* 3 never posts a semaphore that the dispatcher cleared meanwhile.
THEOREM TypeCorrect ==
    ASSUME OneBlockingCaller
    PROVE  Spec => []TypeOK
<1>1. IInv /\ SemaphoreSafe => TypeOK
  BY DEF IInv, VariablesTyped, SemaphoreSafe, TypeOK
<1> QED BY <1>1, Invariant, SemaphoresSafe, PTL

\* With one blocking caller its semaphore stays in thread->semaphore until it
\* is posted; with two of them this is false.
THEOREM SemaphoreStays ==
    ASSUME OneBlockingCaller
    PROVE  Spec => []SemaphoreKept
<1>1. SemaphoreSafe => SemaphoreKept
  BY DEF SemaphoreSafe, SemaphoreKept
<1> QED BY <1>1, SemaphoresSafe, PTL
=============================================================================
