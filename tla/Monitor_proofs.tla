---------------------------- MODULE Monitor_proofs ----------------------------
(***************************************************************************)
(* Proofs about the monitor of threadlib.c, for any finite sets of readers *)
(* and writers, any limits and any number of rounds.                       *)
(***************************************************************************)
EXTENDS Monitor, FiniteSetTheorems, SequenceTheorems, TLAPS

Listed(q) == {q[i] : i \in DOMAIN q}
OnceEach(q) == \A i, j \in DOMAIN q : q[i] = q[j] => i = j

\* The counter of kind k is the number of its threads inside, less those that a
\* refused thread has taken off it; the status goes by the counter.
UsersCounted(k) ==
    /\ n_curr[k] <= Cardinality(Users(k))
    /\ ~refused => n_curr[k] = Cardinality(Users(k))
    /\ n_curr[k] <= max_limit(k)
    /\ resource_status = k <=> n_curr[k] > 0

\* The queue of kind k holds its waiting threads, none of them twice.
QueueExact(k) ==
    /\ Listed(wait_q[k]) = Waiters(k)
    /\ OnceEach(wait_q[k])
    /\ thread_wait_count[k] = Len(wait_q[k])
    /\ thread_wait_count[k] = Cardinality(Waiters(k))

\* Nobody uses the resource without permission, and no assert fails, before a
\* request has been refused.
RefusedKnown == (\E t \in Threads : pc[t] \in {"refused", "aborted"}) => refused

IInv ==
    /\ TypeOK
    /\ RefusedKnown
    /\ \A k \in Kinds : UsersCounted(k) /\ QueueExact(k)
    /\ ~strict_alternation => NoLostWakeup

-----------------------------------------------------------------------------
(* Threads, kinds and queues *)

LEMMA KindType ==
    /\ \A t \in Threads : kind(t) \in Kinds /\ other(kind(t)) \in Kinds
    /\ \A k \in Kinds : max_limit(k) \in Nat \ {0} /\ other(k) # k
    /\ \A k, l \in Kinds : l = k \/ l = other(k)
BY LimitsAssumption DEF kind, other, max_limit, Kinds, Threads

LEMMA GroupSize ==
    ASSUME NEW S \in SUBSET Threads
    PROVE  /\ Cardinality(S) \in 0..Cardinality(Threads)
           /\ Cardinality(Threads) \in Nat
           /\ S = {} <=> Cardinality(S) = 0
           /\ \A t \in Threads :
                  /\ t \notin S => Cardinality(S \cup {t}) = Cardinality(S) + 1
                  /\ t \in S => Cardinality(S \ {t}) = Cardinality(S) - 1
<1>1. IsFiniteSet(S) /\ Cardinality(S) <= Cardinality(Threads)
  BY ThreadsAssumption, FS_Subset
<1>2. Cardinality(S) \in Nat /\ Cardinality(Threads) \in Nat
  BY <1>1, ThreadsAssumption, FS_CardinalityType
<1> QED BY <1>1, <1>2, FS_AddElement, FS_RemoveElement, FS_EmptySet

\* A thread that joins the end of a queue it is not in.
LEMMA JoinQueue ==
    ASSUME NEW q \in Seq(Threads), OnceEach(q),
           NEW t \in Threads, t \notin Listed(q)
    PROVE  /\ Append(q, t) \in Seq(Threads)
           /\ Len(Append(q, t)) = Len(q) + 1
           /\ OnceEach(Append(q, t))
           /\ Listed(Append(q, t)) = Listed(q) \cup {t}
<1> DEFINE a == Append(q, t)
<1>1. /\ a \in Seq(Threads) /\ Len(a) = Len(q) + 1
      /\ \A i \in 1..Len(q) : a[i] = q[i]
      /\ a[Len(q) + 1] = t
  BY AppendProperties
<1>2. /\ Len(q) \in Nat /\ DOMAIN q = 1..Len(q)
      /\ DOMAIN a = 1..(Len(q) + 1)
  BY <1>1, LenProperties
<1> HIDE DEF a
<1>3. OnceEach(a)
  BY <1>1, <1>2 DEF OnceEach, Listed
<1>4. Listed(a) = Listed(q) \cup {t}
  <2>1. \A i \in DOMAIN a : a[i] \in Listed(q) \cup {t}
    BY <1>1, <1>2 DEF Listed
  <2>2. \A i \in DOMAIN q : i \in DOMAIN a /\ a[i] = q[i]
    BY <1>1, <1>2
  <2>3. Len(q) + 1 \in DOMAIN a
    BY <1>2
  <2> QED BY <1>1, <2>1, <2>2, <2>3 DEF Listed
<1> QED BY <1>1, <1>3, <1>4 DEF a

\* A thread that takes itself out leaves the others in their order.
LEMMA LeaveQueue ==
    ASSUME NEW q \in Seq(Threads), OnceEach(q), NEW t \in Listed(q)
    PROVE  /\ Without(q, t) \in Seq(Threads)
           /\ Len(Without(q, t)) = Len(q) - 1
           /\ OnceEach(Without(q, t))
           /\ Listed(Without(q, t)) = Listed(q) \ {t}
<1> DEFINE i == CHOOSE j \in DOMAIN q : q[j] = t
           front == SubSeq(q, 1, i - 1)
           back == SubSeq(q, i + 1, Len(q))
           w == front \o back
<1>0. Len(q) \in Nat /\ DOMAIN q = 1..Len(q) /\ \A j \in 1..Len(q) : q[j] \in Threads
  BY LenProperties, ElementOfSeq
<1>1. i \in 1..Len(q) /\ q[i] = t
  BY <1>0 DEF Listed
<1>2. w = Without(q, t)
  BY DEF Without
<1> HIDE DEF i
<1>3. /\ front \in Seq(Threads) /\ Len(front) = i - 1
      /\ \A j \in 1..(i - 1) : front[j] = q[j]
  <2>1. \A j \in 1..(i - 1) : q[j] \in Threads
    BY <1>0, <1>1
  <2> QED BY <1>0, <1>1, <2>1, SubSeqProperties
<1>4. /\ back \in Seq(Threads) /\ Len(back) = Len(q) - i
      /\ \A j \in 1..(Len(q) - i) : back[j] = q[i + j]
  <2>1. \A j \in (i + 1)..Len(q) : q[j] \in Threads
    BY <1>0, <1>1
  <2>2. i + 1 \in Int /\ Len(q) \in Int
    BY <1>0, <1>1
  <2>3. /\ back \in Seq(Threads)
        /\ Len(back) = IF i + 1 <= Len(q) THEN Len(q) - (i + 1) + 1 ELSE 0
        /\ \A j \in 1..(Len(q) - (i + 1) + 1) : back[j] = q[(i + 1) + j - 1]
    BY <2>1, <2>2, SubSeqProperties
  <2> HIDE DEF back
  <2>4. Len(back) = Len(q) - i
    <3>1. i \in Nat /\ Len(q) \in Nat /\ i <= Len(q)
      BY <1>0, <1>1
    <3>2. CASE i + 1 <= Len(q)
      BY <2>3, <3>1, <3>2
    <3>3. CASE ~(i + 1 <= Len(q))
      BY <2>3, <3>1, <3>3
    <3> QED BY <3>2, <3>3
  <2>5. ASSUME NEW j \in 1..(Len(q) - i)
        PROVE  back[j] = q[i + j]
    <3>1. j \in 1..(Len(q) - (i + 1) + 1) /\ (i + 1) + j - 1 = i + j
      BY <1>0, <1>1
    <3>2. back[j] = q[(i + 1) + j - 1]
      BY <2>3, <3>1
    <3> QED BY <3>1, <3>2
  <2> QED BY <2>3, <2>4, <2>5
<1> HIDE DEF front, back
<1>5. /\ w \in Seq(Threads) /\ Len(w) = Len(q) - 1 /\ DOMAIN w = 1..(Len(q) - 1)
      /\ \A j \in 1..(Len(q) - 1) : w[j] = IF j < i THEN q[j] ELSE q[j + 1]
  <2>1. /\ w \in Seq(Threads) /\ Len(w) = Len(front) + Len(back)
        /\ \A j \in 1..(Len(front) + Len(back)) :
               w[j] = IF j <= Len(front) THEN front[j] ELSE back[j - Len(front)]
    BY <1>3, <1>4, ConcatProperties
  <2>2. DOMAIN w = 1..Len(w)
    BY <2>1, LenProperties
  <2> HIDE DEF w
  <2>3. Len(front) + Len(back) = Len(q) - 1
    BY <1>0, <1>1, <1>3, <1>4
  <2>4. ASSUME NEW j \in 1..(Len(q) - 1)
        PROVE  w[j] = IF j < i THEN q[j] ELSE q[j + 1]
    <3>1. CASE j < i
      BY <1>0, <1>1, <1>3, <2>1, <2>3, <3>1
    <3>2. CASE ~(j < i)
      <4>1. w[j] = back[j - (i - 1)] /\ j - (i - 1) \in 1..(Len(q) - i)
        BY <1>0, <1>1, <1>3, <2>1, <2>3, <3>2
      <4>2. i + (j - (i - 1)) = j + 1
        BY <1>1
      <4>3. back[j - (i - 1)] = q[i + (j - (i - 1))]
        BY <1>4, <4>1
      <4> QED BY <3>2, <4>1, <4>2, <4>3
    <3> QED BY <3>1, <3>2
  <2> QED BY <2>1, <2>2, <2>3, <2>4
<1> HIDE DEF w
<1>6. OnceEach(w)
  BY <1>0, <1>1, <1>5 DEF OnceEach
<1>7. Listed(w) = Listed(q) \ {t}
  <2>1. \A j \in DOMAIN w : w[j] \in Listed(q) \ {t}
    BY <1>0, <1>1, <1>5 DEF OnceEach, Listed
  <2>2. ASSUME NEW j \in DOMAIN q, q[j] # t
        PROVE  q[j] \in Listed(w)
    <3>1. CASE j < i
      <4>1. j \in DOMAIN w /\ w[j] = q[j]
        BY <1>0, <1>1, <1>5, <3>1
      <4> QED BY <4>1 DEF Listed
    <3>2. CASE j > i
      <4>1. j - 1 \in DOMAIN w /\ w[j - 1] = q[j]
        BY <1>0, <1>1, <1>5, <3>2
      <4> QED BY <4>1 DEF Listed
    <3> QED BY <1>0, <1>1, <2>2, <3>1, <3>2
  <2> QED BY <2>1, <2>2 DEF Listed
<1> QED BY <1>2, <1>5, <1>6, <1>7

-----------------------------------------------------------------------------
(* The inductive invariant *)

LEMMA InitEstablishes == Init => IInv
<1> SUFFICES ASSUME Init PROVE IInv
  OBVIOUS
<1> USE ClientAssumption
<1>1. Cardinality({}) = 0 /\ Cardinality(Threads) \in Nat
  BY FS_EmptySet, GroupSize
<1>2. TypeOK
  <2>1. 0 \in 0..Cardinality(Threads) /\ Rounds \in 0..Rounds
    BY <1>1
  <2>2. pc \in [Threads -> PCs] /\ rounds \in [Threads -> 0..Rounds]
    BY <2>1 DEF Init, PCs
  <2>3. << >> \in Seq(Threads)
    BY EmptySeq
  <2> QED BY <2>1, <2>2, <2>3 DEF Init, TypeOK
<1>3. ASSUME NEW k \in Kinds PROVE UsersCounted(k) /\ QueueExact(k)
  <2>1. Users(k) = {} /\ Waiters(k) = {}
    BY DEF Init, Users, Waiters
  <2>2. /\ n_curr[k] = 0 /\ wait_q[k] = << >> /\ thread_wait_count[k] = 0
        /\ resource_status = "available" /\ k # "available"
    BY DEF Init, Kinds
  <2>3. UsersCounted(k)
    BY <1>1, <2>1, <2>2, KindType DEF UsersCounted
  <2>4. Len(<< >>) = 0 /\ DOMAIN << >> = {}
    BY EmptySeq, LenProperties
  <2>5. Listed(<< >>) = {} /\ OnceEach(<< >>)
    BY <2>4 DEF Listed, OnceEach
  <2>6. QueueExact(k)
    BY <1>1, <2>1, <2>2, <2>4, <2>5 DEF QueueExact
  <2> QED BY <2>3, <2>6
<1>4. NoLostWakeup
  BY DEF Init, NoLostWakeup
<1>5. RefusedKnown
  BY DEF Init, RefusedKnown
<1> QED BY <1>2, <1>3, <1>4, <1>5 DEF IInv

\* Only one kind is counted inside, and the resource is available when none is.
\* Before a request is refused, the kind that is not counted is not inside.
LEMMA Exclusion ==
    ASSUME IInv
    PROVE  /\ \A k \in Kinds : resource_status = k => n_curr[other(k)] = 0
           /\ resource_status = "available" => \A k \in Kinds : n_curr[k] = 0
           /\ ~refused => \A k \in Kinds : n_curr[k] = 0 => Users(k) = {}
<1>1. \A k \in Kinds : /\ resource_status = k <=> n_curr[k] > 0
                       /\ n_curr[k] \in Nat
                       /\ ~refused => n_curr[k] = Cardinality(Users(k))
  BY DEF IInv, UsersCounted, TypeOK
<1>2. "available" \notin Kinds /\ \A k \in Kinds : other(k) \in Kinds /\ other(k) # k
  BY KindType DEF Kinds
<1>3. \A k \in Kinds : Users(k) \in SUBSET Threads
  BY DEF Users
<1>4. \A k \in Kinds : Users(k) = {} <=> Cardinality(Users(k)) = 0
  BY <1>3, GroupSize
<1> QED BY <1>1, <1>2, <1>4

\* Permission granted: one more user of the kind, and no step of a queue.
LEMMA GrantedCounts ==
    ASSUME IInv, NEW t \in Threads, pc[t] # "inside",
           Available(kind(t)), Granted(t), UNCHANGED refused
    PROVE  /\ \A k \in Kinds : UsersCounted(k)'
           /\ n_curr' \in [Kinds -> 0..Cardinality(Threads)]
           /\ resource_status' # "available"
<1> DEFINE k == kind(t)
<1> USE DEF IInv, TypeOK
<1>1. k \in Kinds /\ "available" \notin Kinds
  BY KindType DEF Kinds
<1>2. /\ n_curr[k] < max_limit(k) /\ n_curr[k] \in Nat
      /\ n_curr[other(k)] = 0
  <2>1. n_curr[k] < max_limit(k) /\ n_curr[k] \in Nat
    BY <1>1 DEF Available
  <2>2. resource_status \in {"available", k}
    BY DEF Available
  <2>3. other(k) \in Kinds
    BY KindType
  <2> QED BY <1>1, <2>1, <2>2, <2>3, Exclusion
<1>3. Users(k)' = Users(k) \cup {t} /\ t \notin Users(k)
  BY DEF Users, Granted, Goes
<1>4. Users(other(k))' = Users(other(k))
  BY <1>1, KindType DEF Users, Granted, Goes
<1>5. /\ Cardinality(Users(k)') = Cardinality(Users(k)) + 1
      /\ Cardinality(Users(k)') \in 0..Cardinality(Threads)
  <2>1. Users(k) \in SUBSET Threads /\ Users(k) \cup {t} \in SUBSET Threads
    BY DEF Users
  <2>2. Users(k)' \in SUBSET Threads
    BY <1>3, <2>1
  <2>3. Cardinality(Users(k) \cup {t}) = Cardinality(Users(k)) + 1
    BY <1>3, <2>1, GroupSize
  <2>4. Cardinality(Users(k) \cup {t}) \in 0..Cardinality(Threads)
    BY <2>1, GroupSize
  <2> QED BY <1>3, <2>3, <2>4
<1>6. /\ n_curr'[k] = n_curr[k] + 1
      /\ \A l \in Kinds : l # k => n_curr'[l] = n_curr[l]
      /\ n_curr' = [n_curr EXCEPT ![k] = n_curr[k] + 1]
      /\ resource_status' = k
  BY <1>1 DEF Granted
<1>7. /\ n_curr[k] <= Cardinality(Users(k))
      /\ ~refused => n_curr[k] = Cardinality(Users(k))
      /\ Cardinality(Users(k)) \in Nat
  <2>1. Users(k) \in SUBSET Threads
    BY DEF Users
  <2>2. Cardinality(Users(k)) \in Nat
    BY <2>1, GroupSize
  <2> QED BY <1>1, <2>2 DEF UsersCounted
<1>8. UsersCounted(k)'
  BY <1>1, <1>2, <1>3, <1>5, <1>6, <1>7, KindType DEF UsersCounted, max_limit
<1>9. UsersCounted(other(k))'
  <2>1. other(k) \in Kinds /\ other(k) # k
    BY <1>1, KindType
  <2>2. n_curr'[other(k)] = n_curr[other(k)] /\ resource_status' # other(k)
    BY <1>6, <2>1
  <2> QED BY <1>2, <1>4, <2>1, <2>2 DEF UsersCounted, max_limit
<1>10. \A l \in Kinds : UsersCounted(l)'
  <2>1. \A l \in Kinds : l = k \/ l = other(k)
    BY <1>1, KindType
  <2> SUFFICES ASSUME NEW l \in Kinds PROVE UsersCounted(l)'
    OBVIOUS
  <2>2. CASE l = k
    BY <1>8, <2>2
  <2>3. CASE l = other(k)
    BY <1>9, <2>3
  <2> QED BY <2>1, <2>2, <2>3
<1>11. n_curr' \in [Kinds -> 0..Cardinality(Threads)]
  <2>1. n_curr[k] + 1 \in 0..Cardinality(Threads)
    <3>1. Cardinality(Threads) \in Nat
      BY GroupSize
    <3> HIDE DEF k
    <3> QED BY <1>2, <1>3, <1>5, <1>7, <3>1
  <2> QED BY <1>1, <1>6, <2>1
<1> QED BY <1>1, <1>6, <1>10, <1>11

\* Who is told nothing by a refused request is known to have been refused; an
\* assert of the release fails for no other reason.
LEMMA RefusedKeeps ==
    ASSUME IInv, NEW t \in Threads, Step(t) \/ SpuriousWakeup(t)
    PROVE  RefusedKnown' /\ (refused => refused')
<1>0. pc \in [Threads -> PCs] /\ RefusedKnown
  BY DEF IInv, TypeOK
<1>1. CASE Request(t)
  <2>1. refused' = (refused \/ shutdown)
    BY <1>1 DEF Request
  <2>2. \A u \in Threads : pc'[u] \in {"refused", "aborted"} => pc[u] \in {"refused", "aborted"} \/ shutdown
    BY <1>0, <1>1 DEF Request, Goes
  <2> QED BY <1>0, <2>1, <2>2 DEF RefusedKnown
<1>2. CASE ReleaseFails(t)
  <2>1. UNCHANGED refused
    BY <1>2 DEF ReleaseFails, flags
  <2>2. \A u \in Threads : u # t => pc'[u] = pc[u]
    BY <1>0, <1>2 DEF ReleaseFails, Goes
  <2>3. refused
    <3>1. CASE pc[t] = "refused"
      BY <1>0, <3>1 DEF RefusedKnown
    <3>2. CASE pc[t] = "inside"
      <4>1. t \in Users(kind(t)) /\ kind(t) \in Kinds /\ n_curr[kind(t)] = 0
        BY <1>2, <3>2, KindType DEF ReleaseFails, Users
      <4> QED BY <4>1, Exclusion
    <3> QED BY <1>2, <3>1, <3>2 DEF ReleaseFails, Uses
  <2> QED BY <2>1, <2>3 DEF RefusedKnown
<1>3. CASE Release(t)
  <2>1. UNCHANGED refused
    BY <1>3 DEF Release
  <2>2. \A u \in Threads : pc'[u] \in {"leaving", "woken", pc[u]}
    BY <1>0, <1>3 DEF Release
  <2> QED BY <1>0, <2>1, <2>2 DEF RefusedKnown
<1>4. CASE Enter(t) \/ Wait(t) \/ WakeEnter(t) \/ WakeWait(t) \/ Leave(t) \/ SpuriousWakeup(t)
  <2>1. UNCHANGED refused
    BY <1>4 DEF Enter, Wait, WakeEnter, WakeWait, Leave, SpuriousWakeup, flags
  <2>2. \A u \in Threads : pc'[u] \in {"inside", "asleep", "woken", "idle", pc[u]}
    BY <1>0, <1>4 DEF Enter, Wait, WakeEnter, WakeWait, Leave, SpuriousWakeup, Granted, Goes
  <2> QED BY <1>0, <2>1, <2>2 DEF RefusedKnown
<1> QED BY <1>1, <1>2, <1>3, <1>4 DEF Step

\* A step that moves t, no user before or after it, leaves the users alone.
LEMMA UsersSame ==
    ASSUME IInv, UNCHANGED resource, refused => refused', NEW t \in Threads, NEW place \in PCs \ {"inside"},
           pc[t] # "inside", Goes(t, place)
    PROVE  \A k \in Kinds : UsersCounted(k)'
<1>1. \A k \in Kinds : Users(k)' = Users(k)
  BY DEF Users, Goes, IInv, TypeOK
<1> QED BY <1>1 DEF resource, UsersCounted, IInv, max_limit

\* A thread joins the end of its queue, or comes back to it.
LEMMA WaitKeeps ==
    ASSUME IInv, NEW t \in Threads, Wait(t)
    PROVE  IInv'
<1> DEFINE k == kind(t)
<1> USE ClientAssumption DEF IInv
<1>1. k \in Kinds /\ other(k) \in Kinds /\ other(k) # k
  BY KindType
<1>2. /\ wait_q[k] \in Seq(Threads) /\ OnceEach(wait_q[k])
      /\ Listed(wait_q[k]) = Waiters(k) /\ t \notin Waiters(k)
  BY <1>1 DEF TypeOK, QueueExact, Wait, Waiters
<1>3. /\ wait_q'[k] = Append(wait_q[k], t)
      /\ thread_wait_count'[k] = thread_wait_count[k] + 1
      /\ wait_q'[other(k)] = wait_q[other(k)]
      /\ thread_wait_count'[other(k)] = thread_wait_count[other(k)]
  BY <1>1 DEF Wait, TypeOK
<1>4. Waiters(k)' = Waiters(k) \cup {t} /\ Waiters(other(k))' = Waiters(other(k))
  BY <1>1, KindType DEF Wait, Goes, Waiters, TypeOK
<1>5. /\ Cardinality(Waiters(k)') = Cardinality(Waiters(k)) + 1
      /\ Cardinality(Waiters(k)') \in 0..Cardinality(Threads)
  <2>1. Waiters(k) \in SUBSET Threads /\ Waiters(k) \cup {t} \in SUBSET Threads
    BY DEF Waiters
  <2> QED BY <1>2, <1>4, <2>1, GroupSize
<1>6. QueueExact(k)'
  <2>1. /\ wait_q'[k] \in Seq(Threads) /\ Len(wait_q'[k]) = Len(wait_q[k]) + 1
        /\ OnceEach(wait_q'[k]) /\ Listed(wait_q'[k]) = Waiters(k)'
    BY <1>2, <1>3, <1>4, JoinQueue
  <2>2. thread_wait_count[k] = Len(wait_q[k]) /\ thread_wait_count[k] = Cardinality(Waiters(k))
    BY <1>1 DEF QueueExact
  <2> QED BY <1>3, <1>5, <2>1, <2>2 DEF QueueExact, OnceEach
<1>7. QueueExact(other(k))'
  BY <1>1, <1>3, <1>4 DEF QueueExact, OnceEach
<1>8. TypeOK'
  <2>1. Append(wait_q[k], t) \in Seq(Threads)
    BY <1>2, AppendProperties
  <2>2. wait_q' \in [Kinds -> Seq(Threads)]
    BY <1>1, <2>1 DEF Wait, TypeOK
  <2>3. thread_wait_count[k] + 1 \in 0..Cardinality(Threads)
    BY <1>1, <1>5 DEF QueueExact
  <2>4. thread_wait_count' \in [Kinds -> 0..Cardinality(Threads)]
    BY <1>1, <2>3 DEF Wait, TypeOK
  <2>5. pc' \in [Threads -> PCs]
    BY DEF Wait, Goes, TypeOK, PCs
  <2> QED BY <2>2, <2>4, <2>5 DEF Wait, resource, flags, TypeOK
<1>9. \A l \in Kinds : UsersCounted(l)'
  BY UsersSame DEF Wait, flags, PCs
<1>10. ~strict_alternation => NoLostWakeup'
  <2>1. ~strict_alternation => resource_status # "available"
    BY <1>1, Exclusion, KindType DEF Wait, Available
  <2> QED BY <2>1 DEF Wait, resource, NoLostWakeup
<1>11. RefusedKnown'
  BY RefusedKeeps DEF Step
<1> QED BY <1>1, <1>6, <1>7, <1>8, <1>9, <1>10, <1>11, KindType

LEMMA WakeWaitKeeps ==
    ASSUME IInv, NEW t \in Threads, WakeWait(t)
    PROVE  IInv'
<1> DEFINE k == kind(t)
           w == Without(wait_q[k], t)
<1> USE ClientAssumption DEF IInv
<1>1. k \in Kinds /\ other(k) \in Kinds /\ other(k) # k
  BY KindType
<1>2. /\ wait_q[k] \in Seq(Threads) /\ OnceEach(wait_q[k])
      /\ Listed(wait_q[k]) = Waiters(k) /\ t \in Waiters(k)
  BY <1>1 DEF TypeOK, QueueExact, WakeWait, Waiters
<1>3. /\ wait_q'[k] = Append(w, t)
      /\ wait_q'[other(k)] = wait_q[other(k)]
      /\ UNCHANGED thread_wait_count
  BY <1>1 DEF WakeWait, TypeOK
<1>4. Waiters(k)' = Waiters(k) /\ Waiters(other(k))' = Waiters(other(k))
  BY <1>1, KindType DEF WakeWait, Goes, Waiters, TypeOK
<1>5. /\ w \in Seq(Threads) /\ OnceEach(w)
      /\ Len(w) = Len(wait_q[k]) - 1 /\ Listed(w) = Waiters(k) \ {t}
  BY <1>2, LeaveQueue
<1> HIDE DEF w
<1>6. /\ wait_q'[k] \in Seq(Threads) /\ OnceEach(wait_q'[k])
      /\ Len(wait_q'[k]) = Len(wait_q[k]) /\ Listed(wait_q'[k]) = Waiters(k)
  <2>1. Len(wait_q[k]) \in Nat /\ t \notin Listed(w)
    BY <1>2, <1>5, LenProperties
  <2>2. /\ Append(w, t) \in Seq(Threads) /\ OnceEach(Append(w, t))
        /\ Len(Append(w, t)) = Len(w) + 1
        /\ Listed(Append(w, t)) = Listed(w) \cup {t}
    BY <1>5, <2>1, JoinQueue
  <2> QED BY <1>2, <1>3, <1>5, <2>1, <2>2
<1>7. QueueExact(k)' /\ QueueExact(other(k))'
  BY <1>1, <1>3, <1>4, <1>6 DEF QueueExact, OnceEach
<1>8. TypeOK'
  <2>1. wait_q' \in [Kinds -> Seq(Threads)]
    BY <1>1, <1>3, <1>6 DEF WakeWait, TypeOK
  <2>2. pc' \in [Threads -> PCs]
    BY DEF WakeWait, Goes, TypeOK, PCs
  <2> QED BY <1>3, <2>1, <2>2 DEF WakeWait, resource, flags, TypeOK
<1>9. \A l \in Kinds : UsersCounted(l)'
  BY UsersSame DEF WakeWait, flags, PCs
<1>10. ~strict_alternation => NoLostWakeup'
  <2>1. ~strict_alternation => resource_status # "available"
    BY <1>1, Exclusion, KindType DEF WakeWait, Available
  <2> QED BY <2>1 DEF WakeWait, resource, NoLostWakeup
<1>11. RefusedKnown'
  BY RefusedKeeps DEF Step
<1> QED BY <1>1, <1>7, <1>8, <1>9, <1>10, <1>11, KindType

LEMMA WakeEnterKeeps ==
    ASSUME IInv, NEW t \in Threads, WakeEnter(t)
    PROVE  IInv'
<1> DEFINE k == kind(t)
           w == Without(wait_q[k], t)
<1> USE ClientAssumption DEF IInv
<1>1. k \in Kinds /\ other(k) \in Kinds /\ other(k) # k
  BY KindType
<1>2. /\ wait_q[k] \in Seq(Threads) /\ OnceEach(wait_q[k])
      /\ Listed(wait_q[k]) = Waiters(k) /\ t \in Waiters(k)
  BY <1>1 DEF TypeOK, QueueExact, WakeEnter, Waiters
<1>3. /\ wait_q'[k] = w
      /\ thread_wait_count'[k] = thread_wait_count[k] - 1
      /\ wait_q'[other(k)] = wait_q[other(k)]
      /\ thread_wait_count'[other(k)] = thread_wait_count[other(k)]
  BY <1>1 DEF WakeEnter, TypeOK
<1>4. Waiters(k)' = Waiters(k) \ {t} /\ Waiters(other(k))' = Waiters(other(k))
  BY <1>1, KindType DEF WakeEnter, Granted, Goes, Waiters, TypeOK
<1>5. /\ w \in Seq(Threads) /\ OnceEach(w)
      /\ Len(w) = Len(wait_q[k]) - 1 /\ Listed(w) = Waiters(k) \ {t}
  BY <1>2, LeaveQueue
<1> HIDE DEF w
<1>6. /\ Cardinality(Waiters(k)') = Cardinality(Waiters(k)) - 1
      /\ Cardinality(Waiters(k)') \in 0..Cardinality(Threads)
  <2>1. Waiters(k) \in SUBSET Threads /\ Waiters(k) \ {t} \in SUBSET Threads
    BY DEF Waiters
  <2> QED BY <1>2, <1>4, <2>1, GroupSize
<1>7. QueueExact(k)' /\ QueueExact(other(k))'
  <2>1. thread_wait_count[k] = Len(wait_q[k]) /\ thread_wait_count[k] = Cardinality(Waiters(k))
    BY <1>1 DEF QueueExact
  <2>2. QueueExact(k)'
    BY <1>3, <1>4, <1>5, <1>6, <2>1 DEF QueueExact, OnceEach
  <2>3. QueueExact(other(k))'
    BY <1>1, <1>3, <1>4 DEF QueueExact, OnceEach
  <2> QED BY <2>2, <2>3
<1>8. /\ \A l \in Kinds : UsersCounted(l)'
      /\ n_curr' \in [Kinds -> 0..Cardinality(Threads)]
      /\ resource_status' # "available"
  <2>1. pc[t] # "inside" /\ Available(k) /\ Granted(t) /\ UNCHANGED refused
    BY DEF WakeEnter, flags
  <2> QED BY <2>1, GrantedCounts
<1>9. TypeOK'
  <2>1. wait_q' \in [Kinds -> Seq(Threads)]
    BY <1>1, <1>3, <1>5 DEF WakeEnter, TypeOK
  <2>2. thread_wait_count[k] - 1 \in 0..Cardinality(Threads)
    BY <1>1, <1>6 DEF QueueExact
  <2>3. thread_wait_count' \in [Kinds -> 0..Cardinality(Threads)]
    BY <1>1, <2>2 DEF WakeEnter, TypeOK
  <2>4. pc' \in [Threads -> PCs] /\ resource_status' \in Kinds /\ who_last' \in Kinds
    BY <1>1 DEF WakeEnter, Granted, Goes, TypeOK, PCs
  <2> QED BY <1>8, <2>1, <2>3, <2>4 DEF WakeEnter, flags, TypeOK
<1>10. NoLostWakeup'
  BY <1>8 DEF NoLostWakeup
<1>11. RefusedKnown'
  BY RefusedKeeps DEF Step
<1> QED BY <1>1, <1>7, <1>8, <1>9, <1>10, <1>11, KindType

LEMMA EnterKeeps ==
    ASSUME IInv, NEW t \in Threads, Enter(t)
    PROVE  IInv'
<1> USE ClientAssumption DEF IInv
<1>1. /\ \A l \in Kinds : UsersCounted(l)'
      /\ n_curr' \in [Kinds -> 0..Cardinality(Threads)]
      /\ resource_status' # "available"
  <2>1. pc[t] # "inside" /\ Available(kind(t)) /\ Granted(t) /\ UNCHANGED refused
    BY DEF Enter, flags
  <2> QED BY <2>1, GrantedCounts
<1>2. \A l \in Kinds : Waiters(l)' = Waiters(l)
  BY DEF Enter, Granted, Goes, Waiters, TypeOK
<1>3. \A l \in Kinds : QueueExact(l)'
  BY <1>2 DEF Enter, queues, QueueExact, OnceEach
<1>4. TypeOK'
  <2>1. pc' \in [Threads -> PCs] /\ resource_status' \in Kinds /\ who_last' \in Kinds
    BY KindType DEF Enter, Granted, Goes, TypeOK, PCs
  <2> QED BY <1>1, <2>1 DEF Enter, queues, flags, TypeOK
<1>5. NoLostWakeup'
  BY <1>1 DEF NoLostWakeup
<1>6. RefusedKnown'
  BY RefusedKeeps DEF Step
<1> QED BY <1>1, <1>3, <1>4, <1>5, <1>6

\* A request, a wake-up without a signal and the way out move one thread.
LEMMA MoveKeeps ==
    ASSUME IInv, NEW t \in Threads, Request(t) \/ SpuriousWakeup(t) \/ Leave(t)
    PROVE  IInv'
<1> USE ClientAssumption DEF IInv
<1>0. RefusedKnown' /\ (refused => refused')
  BY RefusedKeeps DEF Step
<1>1. \A l \in Kinds : UsersCounted(l)'
  <2>1. /\ UNCHANGED resource /\ pc[t] # "inside"
        /\ \E place \in PCs \ {"inside"} : Goes(t, place)
    BY DEF Request, SpuriousWakeup, Leave, PCs
  <2> QED BY <1>0, <2>1, UsersSame
<1>2. \A l \in Kinds : Waiters(l)' = Waiters(l)
  BY DEF Request, SpuriousWakeup, Leave, Goes, Waiters, TypeOK
<1>3. \A l \in Kinds : QueueExact(l)'
  BY <1>2 DEF Request, SpuriousWakeup, Leave, queues, QueueExact, OnceEach
<1>4. TypeOK'
  <2>1. pc' \in [Threads -> PCs]
    BY DEF Request, SpuriousWakeup, Leave, Goes, TypeOK, PCs
  <2>2. rounds' \in [Threads -> 0..Rounds]
    BY DEF Request, SpuriousWakeup, Leave, TypeOK
  <2>3. refused' \in BOOLEAN
    BY DEF Request, SpuriousWakeup, Leave, flags, TypeOK
  <2>4. is_deleted' \in BOOLEAN /\ shutdown' \in BOOLEAN /\ freed' \in BOOLEAN
    BY DEF Request, SpuriousWakeup, Leave, flags, TypeOK
  <2> QED BY <2>1, <2>2, <2>3, <2>4 DEF Request, SpuriousWakeup, Leave, resource, queues, TypeOK
<1>5. ~strict_alternation => NoLostWakeup'
  <2>1. /\ UNCHANGED <<resource_status, n_curr, who_last>>
        /\ \A u \in Threads : pc'[u] = "asleep" => pc[u] = "asleep"
        /\ \A u \in Threads : pc[u] = "woken" => pc'[u] = "woken"
    BY DEF Request, SpuriousWakeup, Leave, Goes, resource, TypeOK
  <2> QED BY <2>1 DEF NoLostWakeup, Available, max_limit
<1> QED BY <1>0, <1>1, <1>3, <1>4, <1>5

\* A failing assert: the thread leaves the resource and nothing else changes.
LEMMA FailKeeps ==
    ASSUME IInv, NEW t \in Threads, ReleaseFails(t)
    PROVE  IInv'
<1> USE ClientAssumption DEF IInv
<1>1. RefusedKnown' /\ UNCHANGED <<refused, n_curr, resource_status, who_last, queues>>
  BY RefusedKeeps DEF Step, ReleaseFails, flags, resource
<1>2. \A u \in Threads : pc'[u] = IF u = t THEN "aborted" ELSE pc[u]
  BY DEF ReleaseFails, Goes, TypeOK
<1>3. refused
  BY <1>1, <1>2 DEF RefusedKnown
<1>4. ASSUME NEW l \in Kinds PROVE UsersCounted(l)'
  <2>1. CASE l = kind(t)
    <3>1. n_curr[l] = 0 /\ Users(l)' \in SUBSET Threads
      BY <2>1 DEF ReleaseFails, Users
    <3>2. Cardinality(Users(l)') \in Nat
      BY <3>1, GroupSize
    <3> QED BY <1>1, <1>3, <3>1, <3>2 DEF UsersCounted, max_limit
  <2>2. CASE l # kind(t)
    <3>1. Users(l)' = Users(l)
      BY <1>2, <2>2 DEF Users
    <3> QED BY <1>1, <3>1 DEF UsersCounted, max_limit
  <2> QED BY <2>1, <2>2
<1>5. \A l \in Kinds : Waiters(l)' = Waiters(l)
  BY <1>2 DEF ReleaseFails, Uses, Waiters
<1>6. \A l \in Kinds : QueueExact(l)'
  BY <1>1, <1>5 DEF queues, QueueExact, OnceEach
<1>7. TypeOK'
  <2>1. pc' \in [Threads -> PCs]
    BY DEF ReleaseFails, Goes, TypeOK, PCs
  <2> QED BY <2>1 DEF ReleaseFails, resource, queues, flags, TypeOK
<1>8. ~strict_alternation => NoLostWakeup'
  <2>1. /\ \A u \in Threads : pc'[u] = "asleep" => pc[u] = "asleep"
        /\ \A u \in Threads : pc[u] = "woken" => pc'[u] = "woken"
    BY <1>2 DEF ReleaseFails, Uses
  <2> QED BY <1>1, <2>1 DEF NoLostWakeup, Available, max_limit
<1> QED BY <1>1, <1>4, <1>6, <1>7, <1>8

\* The last user to leave wakes the first of its own queue, awake or not, or
\* all of the other queue: nobody sleeps while the resource is available and
\* nobody is awake to take it.
LEMMA ReleaseKeeps ==
    ASSUME IInv, NEW t \in Threads, Release(t)
    PROVE  IInv'
<1> DEFINE k == kind(t)
           left == n_curr[k] - 1
<1> USE ClientAssumption DEF IInv
<1>1. k \in Kinds /\ other(k) \in Kinds /\ other(k) # k /\ "available" \notin Kinds
  BY KindType DEF Kinds
<1>2. /\ n_curr' = [n_curr EXCEPT ![k] = left]
      /\ resource_status' = IF left = 0 THEN "available" ELSE resource_status
      /\ \A u \in Threads : pc'[u] = IF u = t THEN "leaving"
                                     ELSE IF u \in WokenBy(k, left) THEN "woken"
                                     ELSE pc[u]
      /\ UNCHANGED <<who_last, queues, shutdown, freed, refused, rounds>>
      /\ is_deleted' \in BOOLEAN /\ pc[t] \in {"inside", "refused"} /\ n_curr[k] > 0
  BY DEF Release, Uses, TypeOK
<1>3. \A u \in WokenBy(k, left) : u \in Threads /\ pc[u] = "asleep"
  BY DEF WokenBy, Signalled, Broadcast
<1>4. pc' \in [Threads -> PCs]
  BY DEF Release, TypeOK, PCs
<1>5. \A l \in Kinds : Waiters(l)' = Waiters(l)
  BY <1>2, <1>3 DEF Waiters
<1>6. \A l \in Kinds : QueueExact(l)'
  BY <1>2, <1>5 DEF queues, QueueExact, OnceEach
<1>7. Users(k)' = Users(k) \ {t} /\ Users(other(k))' = Users(other(k))
  BY <1>1, <1>2, <1>3, KindType DEF Users
<1>8. /\ left <= Cardinality(Users(k)') /\ left \in 0..Cardinality(Threads)
      /\ ~refused => Cardinality(Users(k)') = left
  <2>1. Users(k) \in SUBSET Threads
    BY DEF Users
  <2>2. /\ Cardinality(Users(k)) \in Nat
        /\ t \in Users(k) => Cardinality(Users(k) \ {t}) = Cardinality(Users(k)) - 1
        /\ t \notin Users(k) => Users(k) \ {t} = Users(k)
    BY <2>1, GroupSize
  <2>3. /\ n_curr[k] <= Cardinality(Users(k)) /\ n_curr[k] \in 0..Cardinality(Threads)
        /\ ~refused => n_curr[k] = Cardinality(Users(k))
    BY <1>1 DEF UsersCounted, TypeOK
  <2>4. left \in 0..Cardinality(Threads)
    BY <1>2, <2>3, GroupSize
  <2>5. ~refused => t \in Users(k)
    <3>1. pc[t] = "refused" => refused
      BY DEF RefusedKnown
    <3> QED BY <1>2, <3>1 DEF Users
  <2>6. Cardinality(Users(k)') = IF t \in Users(k) THEN Cardinality(Users(k)) - 1
                                 ELSE Cardinality(Users(k))
    BY <1>7, <2>2
  <2>7. left = n_curr[k] - 1
    OBVIOUS
  <2> HIDE DEF k, left
  <2> QED BY <2>2, <2>3, <2>4, <2>5, <2>6, <2>7
<1>9. resource_status = k /\ n_curr[other(k)] = 0
  BY <1>1, <1>2, Exclusion DEF UsersCounted
<1>10. \A l \in Kinds : UsersCounted(l)'
  <2>1. n_curr'[k] = left /\ n_curr'[other(k)] = n_curr[other(k)]
    BY <1>1, <1>2 DEF TypeOK
  <2>2. n_curr[k] <= max_limit(k) /\ n_curr[k] \in Nat /\ max_limit(k) \in Nat
    BY <1>1, KindType DEF UsersCounted, TypeOK
  <2>3. UsersCounted(k)'
    BY <1>1, <1>2, <1>8, <1>9, <2>1, <2>2 DEF UsersCounted, max_limit
  <2>4. UsersCounted(other(k))'
    BY <1>1, <1>2, <1>7, <1>9, <2>1 DEF UsersCounted, max_limit
  <2> QED BY <1>1, <2>3, <2>4, KindType
<1>11. TypeOK'
  <2>1. n_curr' \in [Kinds -> 0..Cardinality(Threads)]
    BY <1>1, <1>2, <1>8 DEF TypeOK
  <2>2. resource_status' \in Kinds \cup {"available"}
    BY <1>2 DEF TypeOK
  <2> QED BY <1>2, <1>4, <2>1, <2>2 DEF queues, TypeOK
<1>12. NoLostWakeup'
  <2>1. SUFFICES ASSUME resource_status' = "available",
                        NEW u \in Threads, pc'[u] = "asleep"
                 PROVE  \E v \in Threads : pc'[v] = "woken"
    BY DEF NoLostWakeup
  <2>2. left = 0
    BY <1>1, <1>2, <1>9, <2>1
  <2>3. u # t /\ pc[u] = "asleep" /\ u \notin WokenBy(k, left)
    BY <1>2, <2>1
  <2>4. CASE thread_wait_count[k] > 0
    <3>1. wait_q[k] \in Seq(Threads) /\ wait_q[k] # << >>
      BY <1>1, <2>4, EmptySeq DEF QueueExact, TypeOK
    <3>2. Head(wait_q[k]) = wait_q[k][1] /\ 1 \in DOMAIN wait_q[k]
      BY <3>1, EmptySeq, LenProperties
    <3>3. Head(wait_q[k]) \in Waiters(k)
      BY <1>1, <3>2 DEF QueueExact, Listed
    <3> DEFINE v == Head(wait_q[k])
    <3>4. v \in Threads /\ v # t /\ pc[v] \in {"asleep", "woken"}
      BY <1>2, <3>3 DEF Waiters
    <3>5. pc[v] = "asleep" => v \in WokenBy(k, left)
      BY <2>4, <3>1, <3>4 DEF WokenBy, Signalled
    <3> HIDE DEF v
    <3> QED BY <1>2, <3>4, <3>5
  <2>5. CASE ~(thread_wait_count[k] > 0)
    <3>1. Waiters(k) = {}
      <4>1. Cardinality(Waiters(k)) = 0
        BY <1>1, <2>5 DEF QueueExact, TypeOK
      <4>2. Waiters(k) \in SUBSET Threads
        BY DEF Waiters
      <4> HIDE DEF k
      <4> QED BY <4>1, <4>2, GroupSize
    <3>2. u \in Waiters(other(k)) /\ kind(u) = other(k)
      BY <1>1, <2>3, <3>1, KindType DEF Waiters
    <3>3. thread_wait_count[other(k)] > 0
      <4>1. Waiters(other(k)) \in SUBSET Threads
        BY DEF Waiters
      <4>2. Cardinality(Waiters(other(k))) # 0
        BY <3>2, <4>1, GroupSize
      <4> QED BY <1>1, <4>2 DEF QueueExact, TypeOK
    <3>4. u \in WokenBy(k, left)
      BY <2>2, <2>3, <2>5, <3>2, <3>3 DEF WokenBy, Broadcast
    <3> QED BY <2>3, <3>4
  <2> QED BY <2>4, <2>5
<1>13. RefusedKnown'
  BY RefusedKeeps DEF Step
<1> QED BY <1>6, <1>10, <1>11, <1>12, <1>13

\* Steps that touch neither the resource, nor the queues, nor a thread.
LEMMA SameMonitor ==
    ASSUME IInv, TypeOK',
           UNCHANGED <<resource_status, n_curr, who_last, wait_q, thread_wait_count, refused, pc>>
    PROVE  IInv'
<1>1. \A k \in Kinds : Users(k)' = Users(k) /\ Waiters(k)' = Waiters(k)
  BY DEF Users, Waiters
<1>2. \A k \in Kinds : UsersCounted(k)'
  BY <1>1 DEF IInv, UsersCounted, max_limit
<1>3. \A k \in Kinds : QueueExact(k)'
  BY <1>1 DEF IInv, QueueExact, OnceEach
<1>4. ~strict_alternation => NoLostWakeup'
  BY DEF IInv, NoLostWakeup, Available
<1>5. RefusedKnown'
  BY DEF IInv, RefusedKnown
<1> QED BY <1>2, <1>3, <1>4, <1>5 DEF IInv

LEMMA StepKeeps == IInv /\ [Next]_vars => IInv'
<1> SUFFICES ASSUME IInv, [Next]_vars PROVE IInv'
  OBVIOUS
<1>1. ASSUME NEW t \in Threads, Step(t) PROVE IInv'
  BY <1>1, MoveKeeps, EnterKeeps, WaitKeeps, WakeEnterKeeps, WakeWaitKeeps, ReleaseKeeps,
     FailKeeps DEF Step
<1>2. ASSUME NEW t \in Threads, SpuriousWakeup(t) PROVE IInv'
  BY <1>2, MoveKeeps
<1>3. CASE ShutDown
  <2>1. /\ TypeOK'
        /\ UNCHANGED <<resource_status, n_curr, who_last, wait_q, thread_wait_count, refused, pc>>
    BY <1>3 DEF ShutDown, resource, queues, IInv, TypeOK
  <2> QED BY <2>1, SameMonitor
<1>4. CASE UNCHANGED vars
  <2>1. /\ TypeOK'
        /\ UNCHANGED <<resource_status, n_curr, who_last, wait_q, thread_wait_count, refused, pc>>
    BY <1>4 DEF vars, resource, queues, flags, IInv, TypeOK
  <2> QED BY <2>1, SameMonitor
<1> QED BY <1>1, <1>2, <1>3, <1>4 DEF Next, Finished

\* Counters, status and queues of the monitor agree with its threads at every
\* step of monitor_request_access_permission and of the release.
THEOREM Invariant == Spec => []IInv
<1>1. Init => IInv
  BY InitEstablishes
<1>2. IInv /\ [Next]_vars => IInv'
  BY StepKeeps
<1> QED BY <1>1, <1>2, PTL DEF Spec

-----------------------------------------------------------------------------
(* What follows from it *)

\* Every variable keeps its type: no counter of threadlib.c goes below zero or
\* above the number of threads.
THEOREM TypeCorrect == Spec => []TypeOK
<1>1. IInv => TypeOK
  BY DEF IInv
<1> QED BY <1>1, Invariant, PTL

LEMMA Exact == IInv => monitor_sanity_check /\ BookkeepingExact
<1> SUFFICES ASSUME IInv PROVE monitor_sanity_check /\ BookkeepingExact
  OBVIOUS
<1>1. \A k \in Kinds : UsersCounted(k) /\ QueueExact(k)
  BY DEF IInv
<1>2. \A t \in Threads : pc[t] = "aborted" => refused
  BY DEF IInv, RefusedKnown
<1> QED BY <1>1, <1>2 DEF UsersCounted, QueueExact, Listed, monitor_sanity_check,
                          BookkeepingExact

\* Queues tell the truth and the limits are kept, with strict alternation or
\* without it, and so does monitor_sanity_check.  Until the monitor, being shut
\* down, refuses a request, the counters are the numbers of threads inside and
\* every assert of monitor_inform_resource_released holds.
THEOREM BookkeepingHolds == Spec => [](monitor_sanity_check /\ BookkeepingExact)
BY Exact, Invariant, PTL

\* Without strict alternation, no wake-up is lost either: whom the last thread
\* to leave wakes in monitor_inform_resource_released is enough for all.
THEOREM Sound == ASSUME ~strict_alternation PROVE Spec => []MonitorSound
<1>1. IInv => MonitorSound
  BY Exact DEF IInv, MonitorSound
<1> QED BY <1>1, Invariant, PTL

\* With strict alternation and one thread of each kind, whoever sleeps while
\* the resource is free waits for the other kind to take its turn.
TurnAwaited ==
    resource_status = "available" =>
        \A t \in Threads : pc[t] = "asleep" => kind(t) = who_last

LEMMA TurnKeeps ==
    ASSUME strict_alternation, \A t, u \in Threads : kind(t) = kind(u) => t = u,
           IInv, TurnAwaited, [Next]_vars
    PROVE  TurnAwaited'
<1>0. /\ pc \in [Threads -> PCs] /\ TypeOK
      /\ \A k \in Kinds : UsersCounted(k) /\ QueueExact(k)
  BY DEF IInv, TypeOK
<1>1. ASSUME NEW t \in Threads,
             Request(t) \/ Leave(t) \/ SpuriousWakeup(t) \/ ReleaseFails(t)
      PROVE  TurnAwaited'
  BY <1>0, <1>1 DEF Request, Leave, SpuriousWakeup, ReleaseFails, Goes, resource, TurnAwaited
<1>2. ASSUME NEW t \in Threads, Enter(t) \/ WakeEnter(t)
      PROVE  TurnAwaited'
  <2>1. resource_status' = kind(t) /\ kind(t) # "available"
    BY <1>2 DEF Enter, WakeEnter, Granted, kind
  <2> QED BY <2>1 DEF TurnAwaited
<1>3. ASSUME NEW t \in Threads, Wait(t) \/ WakeWait(t)
      PROVE  TurnAwaited'
  <2>1. /\ ~Available(kind(t)) /\ UNCHANGED resource
        /\ pc' = [pc EXCEPT ![t] = "asleep"]
    BY <1>3 DEF Wait, WakeWait, Goes
  <2>2. resource_status = "available" => kind(t) = who_last
    <3> SUFFICES ASSUME resource_status = "available" PROVE kind(t) = who_last
      OBVIOUS
    <3>1. kind(t) \in Kinds
      BY KindType
    <3>3. n_curr[kind(t)] = 0
      BY <3>1, Exclusion
    <3>4. max_limit(kind(t)) \in Nat \ {0}
      BY <3>1, KindType
    <3> QED BY <2>1, <3>3, <3>4 DEF Available
  <2> QED BY <1>0, <2>1, <2>2 DEF TurnAwaited, resource
<1>4. ASSUME NEW t \in Threads, Release(t)
      PROVE  TurnAwaited'
  <2>a. PICK k : k = kind(t)
    OBVIOUS
  <2> SUFFICES ASSUME resource_status' = "available", NEW u \in Threads, pc'[u] = "asleep"
               PROVE  FALSE
    BY DEF TurnAwaited
  <2>1. /\ k \in Kinds /\ other(k) \in Kinds
        /\ pc[t] \in {"inside", "refused"} /\ n_curr[k] > 0
        /\ resource_status' = IF n_curr[k] - 1 = 0 THEN "available" ELSE resource_status
        /\ pc' = [x \in Threads |-> IF x = t THEN "leaving"
                                    ELSE IF x \in WokenBy(k, n_curr[k] - 1) THEN "woken"
                                    ELSE pc[x]]
    BY <1>4, <2>a, KindType DEF Release, Uses
  <2>2. resource_status # "available"
    <3>1. k # "available"
      BY <2>1 DEF Kinds
    <3> QED BY <1>0, <2>1, <3>1 DEF UsersCounted
  <2>3. n_curr[k] - 1 = 0
    BY <2>1, <2>2
  <2>4. u # t /\ pc[u] = "asleep" /\ u \notin WokenBy(k, 0)
    BY <2>1, <2>3
  <2>5. Waiters(k) = {} /\ Waiters(k) \in SUBSET Threads
    BY <2>1, <2>a DEF Waiters
  <2>6. thread_wait_count[k] = 0
    BY <1>0, <2>1, <2>5, GroupSize DEF QueueExact
  <2>7. kind(u) = other(k) /\ u \in Waiters(other(k)) /\ Waiters(other(k)) \in SUBSET Threads
    BY <2>1, <2>4, <2>5, KindType DEF Waiters
  <2>8. thread_wait_count[other(k)] > 0
    <3>1. Cardinality(Waiters(other(k))) # 0
      BY <2>7, GroupSize
    <3> QED BY <1>0, <2>1, <3>1 DEF QueueExact, TypeOK
  <2>9. u \in WokenBy(k, 0)
    BY <2>4, <2>6, <2>7, <2>8 DEF WokenBy, Broadcast
  <2> QED BY <2>4, <2>9
<1>5. CASE ShutDown \/ UNCHANGED vars
  BY <1>5 DEF ShutDown, vars, resource, TurnAwaited
<1> QED BY <1>1, <1>2, <1>3, <1>4, <1>5 DEF Next, Step, Finished

\* With strict alternation and one thread of each kind, the thread that leaves
\* wakes the other, and no wake-up of monitor_inform_resource_released is lost.
THEOREM SoundInTurns ==
    ASSUME strict_alternation, \A t, u \in Threads : kind(t) = kind(u) => t = u
    PROVE  Spec => []MonitorSound
<1>1. Init => TurnAwaited
  BY DEF Init, TurnAwaited
<1>2. IInv /\ TurnAwaited /\ [Next]_vars => TurnAwaited'
  BY TurnKeeps
<1>3. IInv /\ TurnAwaited => MonitorSound
  <2>1. TurnAwaited => NoLostWakeup
    BY DEF TurnAwaited, NoLostWakeup, Available, Kinds, kind
  <2> QED BY <2>1, Exact DEF IInv, MonitorSound
<1> QED BY <1>1, <1>2, <1>3, Invariant, PTL DEF Spec

-----------------------------------------------------------------------------
(* The monitor implements the abstract readers-writers lock *)

\* The abstract module brings its own copy of the library's Cardinality.
LEMMA SameCardinality ==
    ASSUME NEW S
    PROVE  Abstract!Cardinality(S) = Cardinality(S)
BY DEF Cardinality, Abstract!Cardinality

LEMMA InsideAre ==
    Abstract!Inside(Reading) = Users("reader") /\ Abstract!Inside(Writing) = Users("writer")
BY DEF Abstract!Inside, Reading, Writing, Users

LEMMA EnterMaps ==
    ASSUME IInv, ~refused, NEW t \in Threads, pc[t] # "inside",
           Available(kind(t)), Granted(t)
    PROVE  Abstract!EnterRead(t) \/ Abstract!EnterWrite(t)
<1> DEFINE k == kind(t)
<1>0. k \in Kinds
  BY KindType
<1>1. Users(other(k)) = {}
  <2>1. n_curr[other(k)] = 0 /\ other(k) \in Kinds
    BY <1>0, KindType, Exclusion DEF Available
  <2> QED BY <2>1, Exclusion
<1>2. Cardinality(Users(k)) < max_limit(k)
  BY <1>0 DEF Available, IInv, UsersCounted
<1>3. \A u \in Threads : pc'[u] = IF u = t THEN "inside" ELSE pc[u]
  BY DEF Granted, Goes, IInv, TypeOK
<1>4. CASE k = "reader"
  <2>1. t \notin Users("reader") /\ Users("reader")' = Users("reader") \cup {t}
    BY <1>3, <1>4 DEF Users
  <2>2. Users("writer")' = Users("writer")
    BY <1>3, <1>4 DEF Users
  <2>3. Reading' = [Reading EXCEPT ![t] = @ + 1] /\ Writing' = Writing
    <3>1. /\ Reading[t] = 0 /\ Reading'[t] = 1
          /\ \A u \in Threads \ {t} : Reading'[u] = Reading[u]
          /\ \A u \in Threads : Writing'[u] = Writing[u]
      BY <2>1, <2>2 DEF Reading, Writing
    <3>2. Writing' = Writing
      BY <3>1 DEF Writing
    <3>3. Reading' = [Reading EXCEPT ![t] = @ + 1]
      <4>1. Reading \in [Threads -> {0, 1}] /\ Reading' \in [Threads -> {0, 1}]
        BY DEF Reading
      <4> QED BY <3>1, <4>1
    <3> QED BY <3>1, <3>2, <3>3
  <2>4. Abstract!Inside(Writing) = {} /\ Cardinality(Abstract!Inside(Reading)) < n_readers_max_limit
    BY <1>1, <1>2, <1>4, InsideAre DEF other, max_limit
  <2> QED BY <2>3, <2>4, SameCardinality DEF Abstract!EnterRead
<1>5. CASE k = "writer"
  <2>1. t \notin Users("writer") /\ Users("writer")' = Users("writer") \cup {t}
    BY <1>3, <1>5 DEF Users
  <2>2. Users("reader")' = Users("reader")
    BY <1>3, <1>5 DEF Users
  <2>3. Writing' = [Writing EXCEPT ![t] = @ + 1] /\ Reading' = Reading
    <3>1. /\ Writing[t] = 0 /\ Writing'[t] = 1
          /\ \A u \in Threads \ {t} : Writing'[u] = Writing[u]
          /\ \A u \in Threads : Reading'[u] = Reading[u]
      BY <2>1, <2>2 DEF Writing, Reading
    <3>2. Reading' = Reading
      BY <3>1 DEF Reading
    <3>3. Writing' = [Writing EXCEPT ![t] = @ + 1]
      <4>1. Writing \in [Threads -> {0, 1}] /\ Writing' \in [Threads -> {0, 1}]
        BY DEF Writing
      <4> QED BY <3>1, <4>1
    <3> QED BY <3>1, <3>2, <3>3
  <2>4. Abstract!Inside(Reading) = {} /\ Cardinality(Abstract!Inside(Writing)) < n_writers_max_limit
    BY <1>1, <1>2, <1>5, InsideAre DEF other, max_limit
  <2> QED BY <2>3, <2>4, SameCardinality DEF Abstract!EnterWrite
<1> QED BY <1>0, <1>4, <1>5 DEF Kinds

LEMMA ReleaseMaps ==
    ASSUME IInv, ~refused, NEW t \in Threads, Release(t)
    PROVE  Abstract!Leave(t)
<1> DEFINE k == kind(t)
<1>1. /\ pc[t] = "inside" /\ k \in Kinds
      /\ \A u \in Threads : pc'[u] = "inside" <=> u # t /\ pc[u] = "inside"
  <2>1. pc[t] = "inside"
    BY DEF Release, Uses, IInv, RefusedKnown
  <2> QED BY <2>1, KindType DEF Release, WokenBy, Signalled, Broadcast, IInv, TypeOK
<1>2. CASE k = "reader"
  <2>1. t \in Users("reader") /\ Users("reader")' = Users("reader") \ {t}
    BY <1>1, <1>2 DEF Users
  <2>2. Users("writer")' = Users("writer")
    BY <1>1, <1>2 DEF Users
  <2>3. Reading' = [Reading EXCEPT ![t] = @ - 1] /\ Writing' = Writing /\ Reading[t] > 0
    <3>1. /\ Reading[t] = 1 /\ Reading'[t] = 0
          /\ \A u \in Threads \ {t} : Reading'[u] = Reading[u]
          /\ \A u \in Threads : Writing'[u] = Writing[u]
      BY <2>1, <2>2 DEF Reading, Writing
    <3>2. Writing' = Writing
      BY <3>1 DEF Writing
    <3>3. Reading' = [Reading EXCEPT ![t] = @ - 1]
      <4>1. Reading \in [Threads -> {0, 1}] /\ Reading' \in [Threads -> {0, 1}]
        BY DEF Reading
      <4> QED BY <3>1, <4>1
    <3> QED BY <3>1, <3>2, <3>3
  <2> QED BY <2>3 DEF Abstract!Leave
<1>3. CASE k = "writer"
  <2>1. t \in Users("writer") /\ Users("writer")' = Users("writer") \ {t}
    BY <1>1, <1>3 DEF Users
  <2>2. Users("reader")' = Users("reader")
    BY <1>1, <1>3 DEF Users
  <2>3. Writing' = [Writing EXCEPT ![t] = @ - 1] /\ Reading' = Reading /\ Writing[t] > 0
    <3>1. /\ Writing[t] = 1 /\ Writing'[t] = 0
          /\ \A u \in Threads \ {t} : Writing'[u] = Writing[u]
          /\ \A u \in Threads : Reading'[u] = Reading[u]
      BY <2>1, <2>2 DEF Writing, Reading
    <3>2. Reading' = Reading
      BY <3>1 DEF Reading
    <3>3. Writing' = [Writing EXCEPT ![t] = @ - 1]
      <4>1. Writing \in [Threads -> {0, 1}] /\ Writing' \in [Threads -> {0, 1}]
        BY DEF Writing
      <4> QED BY <3>1, <4>1
    <3> QED BY <3>1, <3>2, <3>3
  <2> QED BY <2>3 DEF Abstract!Leave
<1> QED BY <1>1, <1>2, <1>3 DEF Kinds

\* Steps that move nobody in or out.
LEMMA OutsideMaps ==
    ASSUME IInv, \A u \in Threads : pc'[u] = "inside" <=> pc[u] = "inside"
    PROVE  UNCHANGED <<Reading, Writing>>
BY DEF Reading, Writing, Users

\* Whoever the code lets in, the abstract lock lets in: with their limits,
\* readers and writers are never in together, up to the first request that is
\* refused because of monitor_shut_down.
THEOREM Implements == Spec => ImplementsReadersWriters
<1>1. Init => Abstract!Init
  BY DEF Init, Abstract!Init, Reading, Writing, Users
<1>2. IInv /\ [Next]_vars => [Abstract!Next \/ refused']_<<Reading, Writing>>
  <2> SUFFICES ASSUME IInv, [Next]_vars, ~refused'
               PROVE  Abstract!Next \/ UNCHANGED <<Reading, Writing>>
    OBVIOUS
  <2>0. ~refused /\ \A t \in Threads : Step(t) => ~ReleaseFails(t)
    <3>1. refused => refused'
      <4>1. CASE \E t \in Threads : Step(t) \/ SpuriousWakeup(t)
        BY <4>1, RefusedKeeps
      <4>2. CASE ShutDown \/ UNCHANGED vars
        BY <4>2 DEF ShutDown, vars, flags
      <4> QED BY <4>1, <4>2 DEF Next, Finished
    <3>2. ASSUME NEW t \in Threads, ReleaseFails(t) PROVE FALSE
      <4>1. RefusedKnown'
        BY <3>2, RefusedKeeps DEF Step
      <4>2. pc'[t] = "aborted"
        BY <3>2 DEF ReleaseFails, Goes, IInv, TypeOK
      <4> QED BY <4>1, <4>2 DEF RefusedKnown
    <3> QED BY <3>1, <3>2
  <2>1. ASSUME NEW t \in Threads, Enter(t) \/ WakeEnter(t)
        PROVE  Abstract!Next
    <3>1. pc[t] # "inside" /\ Available(kind(t)) /\ Granted(t)
      BY <2>1 DEF Enter, WakeEnter
    <3> QED BY <2>0, <3>1, EnterMaps DEF Abstract!Next
  <2>2. ASSUME NEW t \in Threads, Release(t)
        PROVE  Abstract!Next
    BY <2>0, <2>2, ReleaseMaps DEF Abstract!Next
  <2>3. ASSUME NEW t \in Threads,
               Request(t) \/ Wait(t) \/ WakeWait(t) \/ Leave(t) \/ SpuriousWakeup(t)
        PROVE  UNCHANGED <<Reading, Writing>>
    <3>1. \A u \in Threads : pc'[u] = "inside" <=> pc[u] = "inside"
      BY <2>3 DEF Request, Wait, WakeWait, Leave, SpuriousWakeup, Goes, IInv, TypeOK
    <3> QED BY <3>1, OutsideMaps
  <2>4. CASE ShutDown \/ UNCHANGED vars
    <3>1. UNCHANGED pc
      BY <2>4 DEF ShutDown, vars
    <3> QED BY <3>1, OutsideMaps
  <2> QED BY <2>0, <2>1, <2>2, <2>3, <2>4 DEF Next, Step, Finished
<1> QED BY <1>1, <1>2, Invariant, PTL DEF Spec, ImplementsReadersWriters
=============================================================================
