---------------------------- MODULE AsmLine_proofs ----------------------------
(***************************************************************************)
(* Proofs about the assembly line of threadlib.c, for any number of slots  *)
(* and items.                                                              *)
(*                                                                         *)
(* The workers go round in lock step: in one cycle worker w works on the   *)
(* w-th slot after that of the first worker, whether or not it has gone on *)
(* to the next one already.  From the slots of a cycle everything else     *)
(* follows: how often an item has been worked on, that the last worker     *)
(* takes the oldest item out, and that the slot it leaves is free when the *)
(* engine puts in the next.                                                *)
(***************************************************************************)
EXTENDS AsmLine, FiniteSetTheorems, SequenceTheorems, TLAPS

Up(s) == IF s = asl_size - 1 THEN 0 ELSE s + 1
Down(s) == IF s = 0 THEN asl_size - 1 ELSE s - 1

\* The w-th slot after slot b.
At(b, w) == IF b + w < asl_size THEN b + w ELSE b + w - asl_size

InCycle == engine \in {"waiting", "woken"}
Worked(w) == InCycle /\ pc[w] \in {"removing", "moving", "moved", "asleep"}
Moved(w) == InCycle /\ pc[w] \in {"moved", "asleep"}

\* The slot of w in this cycle, or in the next one while there is none.
Slot(w) == IF Moved(w) THEN Up(curr_slot[w]) ELSE curr_slot[w]

\* TypeOK, but for the bounds of the two counters.
VariablesTyped ==
    /\ hasty \in BOOLEAN
    /\ elem \in [Slots -> Items \cup {NoItem}]
    /\ count \in Nat
    /\ wait_lst_fq \in Seq(Items) /\ Len(wait_lst_fq) <= WaitSize
    /\ curr_slot \in [Workers -> Slots]
    /\ n_workers_ready \in Nat
    /\ asl_state \in {"NOT_STARTED", "IN_PROGRESS", "WAIT"}
    /\ pc \in [Workers -> PCs]
    /\ engine \in Engines
    /\ main \in {"init", "asleep", "woken", "ready"}
    /\ came \in Seq(Items)
    /\ work \in [Items -> Seq(Workers)]
    /\ finished \in Seq(Items)
    /\ outcome \in {"running", "assert failed"}

Asleep == {w \in Workers : pc[w] = "asleep"}

\* Between the cycles all workers sleep, and no more threads are started.
PhasesOK ==
    /\ n_workers_ready = Cardinality(Asleep)
    /\ engine = "none" => \A w \in Workers : pc[w] \in {"start", "asleep"}
    /\ engine # "none" => main = "ready"
    /\ main = "ready" /\ ~InCycle => \A w \in Workers : pc[w] = "asleep"
    /\ InCycle => asl_state = "IN_PROGRESS" /\ \A w \in Workers : pc[w] # "start"
    /\ asl_state = "WAIT" => engine \in {"halted", "restarted"}

LockStep == \A w \in Workers : Slot(w) = At(Slot(T0), w)

\* A worker at work has an item in its slot.
ItemsFound ==
    \A w \in Workers :
        /\ pc[w] \in {"working", "removing"} => elem[curr_slot[w]] # NoItem
        /\ pc[w] = "removing" => w = Tn

Conserved ==
    /\ count = Cardinality(Filled)
    /\ Elements(came) =
           {elem[s] : s \in Filled} \cup Elements(wait_lst_fq) \cup Elements(finished)
    /\ Len(came) = count + Len(wait_lst_fq) + Len(finished)

Core == VariablesTyped /\ PhasesOK /\ LockStep /\ ItemsFound /\ Conserved

-----------------------------------------------------------------------------
(* What holds without hasty clients *)

\* The last worker has left its slot empty; nothing waits for an empty line
\* that has come to a halt.
LastSlotFree ==
    /\ InCycle /\ pc[Tn] \in {"moving", "moved", "asleep"} => elem[Slot(Tn)] = NoItem
    /\ asl_state # "IN_PROGRESS" /\ count = 0 => wait_lst_fq = <<>>

\* came is what is finished, what is in the slots, and what waits.
Divided ==
    /\ \A j, k \in DOMAIN came : came[j] = came[k] => j = k
    /\ \A k \in DOMAIN finished : k \in DOMAIN came /\ finished[k] = came[k]
    /\ \A k \in DOMAIN wait_lst_fq :
           wait_lst_fq[k] = came[Len(came) - Len(wait_lst_fq) + k]
    /\ \A s \in Filled : \E k \in DOMAIN came :
           came[k] = elem[s] /\ Len(finished) < k /\ k <= Len(came) - Len(wait_lst_fq)
    /\ \A k \in DOMAIN came : Len(finished) < k /\ k <= Len(came) - Len(wait_lst_fq) =>
           \E s \in Filled : elem[s] = came[k]

\* The later the worker of a slot, the earlier its item has come.
Ordered ==
    \A v, w \in Workers : \A j, k \in DOMAIN came :
        v < w /\ came[j] = elem[Slot(v)] /\ came[k] = elem[Slot(w)] => k < j

\* How many workers an item has behind it.
Staged ==
    /\ \A w \in Workers : elem[Slot(w)] # NoItem =>
           Len(work[elem[Slot(w)]]) = IF Worked(w) THEN w + 1 ELSE w
    /\ \A i \in Items : Untried(i) => work[i] = <<>>
    /\ \A k \in DOMAIN wait_lst_fq : work[wait_lst_fq[k]] = <<>>

InOrder == LastSlotFree /\ Divided /\ Ordered /\ Staged

IInv == Core /\ (hasty \/ (outcome = "running" /\ InOrder))

-----------------------------------------------------------------------------
(* Going round *)

LEMMA SlotsAre ==
    /\ Workers = Slots /\ T0 \in Workers /\ Tn \in Workers /\ T0 < Tn /\ Tn = asl_size - 1
    /\ asl_size \in Nat /\ asl_size > 1
    /\ \A s \in Slots : s \in Nat /\ s < asl_size
    /\ \A s \in Nat : s < asl_size => s \in Slots
    /\ IsFiniteSet(Slots) /\ Cardinality(Slots) = asl_size
<1>1. IsFiniteSet(0..(asl_size - 1)) /\ Cardinality(0..(asl_size - 1)) = asl_size
  BY SizeAssumption, FS_Interval
<1> QED BY <1>1, SizeAssumption DEF Workers, Slots, T0, Tn

LEMMA GoingRound ==
    ASSUME NEW b \in Slots
    PROVE  /\ Up(b) \in Slots /\ Down(b) \in Slots /\ Up(Down(b)) = b /\ Down(Up(b)) = b
           /\ At(b, T0) = b
           /\ \A w \in Workers : At(b, w) \in Slots
           /\ \A v, w \in Workers : At(b, v) = At(b, w) => v = w
           /\ \A w \in Workers : Down(At(b, w)) = At(Down(b), w)
           /\ \A w \in Workers : w > 0 => w - 1 \in Workers /\ At(Down(b), w) = At(b, w - 1)
           /\ At(Down(b), T0) = At(b, Tn)
           /\ \A s \in Slots : \E w \in Workers : At(b, w) = s
<1> USE SizeAssumption DEF Slots, Workers, T0, Tn, Up, Down, At
<1>1. /\ Up(b) \in Slots /\ Down(b) \in Slots /\ Up(Down(b)) = b /\ Down(Up(b)) = b
      /\ At(b, T0) = b /\ At(Down(b), T0) = At(b, Tn)
  OBVIOUS
<1>2. /\ \A w \in Workers : At(b, w) \in Slots
      /\ \A v, w \in Workers : At(b, v) = At(b, w) => v = w
  OBVIOUS
<1>3. \A w \in Workers : Down(At(b, w)) = At(Down(b), w)
  OBVIOUS
<1>4. \A w \in Workers : w > 0 => w - 1 \in Workers /\ At(Down(b), w) = At(b, w - 1)
  OBVIOUS
<1>5. ASSUME NEW s \in Slots PROVE \E w \in Workers : At(b, w) = s
  <2>1. CASE s >= b
    <3>1. s - b \in Workers /\ At(b, s - b) = s
      BY <2>1
    <3> QED BY <3>1
  <2>2. CASE s < b
    <3>1. s - b + asl_size \in Workers /\ At(b, s - b + asl_size) = s
      BY <2>2
    <3> QED BY <3>1
  <2> QED BY <2>1, <2>2
<1> QED BY <1>1, <1>2, <1>3, <1>4, <1>5

\* In lock step every slot is the slot of one worker.
LEMMA SlotOf ==
    ASSUME VariablesTyped, LockStep
    PROVE  /\ \A w \in Workers : Slot(w) \in Slots
           /\ \A v, w \in Workers : Slot(v) = Slot(w) => v = w
           /\ \A s \in Slots : \E w \in Workers : Slot(w) = s
<1>1. Slot(T0) \in Slots
  <2>1. curr_slot[T0] \in Slots
    BY SlotsAre DEF VariablesTyped
  <2> QED BY <2>1, GoingRound DEF Slot
<1>2. PICK b \in Slots : b = Slot(T0)
  BY <1>1
<1>3. \A w \in Workers : Slot(w) = At(b, w)
  BY <1>2 DEF LockStep
<1>4. /\ \A w \in Workers : At(b, w) \in Slots
      /\ \A v, w \in Workers : At(b, v) = At(b, w) => v = w
      /\ \A s \in Slots : \E w \in Workers : At(b, w) = s
  BY <1>2, GoingRound
<1> QED BY <1>3, <1>4

\* A step in which everybody keeps its slot.
LEMMA SlotsStay ==
    ASSUME LockStep, \A w \in Workers : Slot(w)' = Slot(w)
    PROVE  LockStep'
<1>1. T0 \in Workers
  BY SlotsAre
<1> QED BY <1>1 DEF LockStep, At

\* A step from one cycle to the next: everybody takes the slot of the worker
\* before it.
LEMMA SlotsShift ==
    ASSUME VariablesTyped, LockStep, \A w \in Workers : Moved(w) /\ ~Moved(w)',
           curr_slot' = curr_slot
    PROVE  /\ LockStep' /\ Slot(T0)' = Slot(Tn)
           /\ \A w \in Workers : w > 0 => w - 1 \in Workers /\ Slot(w)' = Slot(w - 1)
<1>1. \A w \in Workers : /\ curr_slot[w] \in Slots /\ Slot(w) = Up(curr_slot[w])
                         /\ Slot(w)' = curr_slot[w]
  BY DEF VariablesTyped, Slot
<1>2. \A w \in Workers : Slot(w)' = Down(Slot(w))
  BY <1>1, GoingRound
<1>3. T0 \in Workers /\ Tn \in Workers
  BY SlotsAre
<1>4. PICK b \in Slots : b = Slot(T0)
  BY <1>3, SlotOf
<1>5. \A w \in Workers : Slot(w) = At(b, w) /\ Slot(w)' = At(Down(b), w)
  BY <1>2, <1>4, GoingRound DEF LockStep
<1>6. Slot(T0)' = Down(b)
  BY <1>2, <1>3, <1>4
<1>7. LockStep'
  BY <1>5, <1>6 DEF LockStep, At
<1> QED BY <1>3, <1>5, <1>7, GoingRound

-----------------------------------------------------------------------------
(* The queues and the count of the workers *)

\* asl_q->count follows the slots.
LEMMA ReplaceCounts ==
    ASSUME VariablesTyped, count = Cardinality(Filled),
           NEW s \in Slots, NEW i \in Items \cup {NoItem}, Replace(s, i)
    PROVE  /\ elem' \in [Slots -> Items \cup {NoItem}]
           /\ elem'[s] = i /\ \A r \in Slots \ {s} : elem'[r] = elem[r]
           /\ count' = Cardinality(Filled') /\ count' \in Nat
           /\ i # NoItem /\ elem[s] = NoItem => count' = count + 1
           /\ i = NoItem /\ elem[s] # NoItem => count = count' + 1
<1>1. /\ elem' \in [Slots -> Items \cup {NoItem}]
      /\ elem'[s] = i /\ \A r \in Slots \ {s} : elem'[r] = elem[r]
      /\ count' = CASE elem[s] = NoItem /\ i # NoItem -> count + 1
                    [] elem[s] # NoItem /\ i = NoItem -> count - 1
                    [] OTHER -> count
  BY DEF Replace, VariablesTyped
<1>2. IsFiniteSet(Filled) /\ Cardinality(Filled) \in Nat
  BY SlotsAre, FS_Subset, FS_CardinalityType DEF Filled
<1>3. /\ Cardinality(Filled \cup {s}) =
             IF s \in Filled THEN Cardinality(Filled) ELSE Cardinality(Filled) + 1
      /\ Cardinality(Filled \ {s}) =
             IF s \in Filled THEN Cardinality(Filled) - 1 ELSE Cardinality(Filled)
  BY <1>2, FS_AddElement, FS_RemoveElement
<1>4. s \in Filled <=> elem[s] # NoItem
  BY DEF Filled
<1>5. CASE i # NoItem
  <2>1. Filled' = Filled \cup {s}
    BY <1>1, <1>5 DEF Filled
  <2> QED BY <1>1, <1>2, <1>3, <1>4, <1>5, <2>1
<1>6. CASE i = NoItem
  <2>1. Filled' = Filled \ {s}
    BY <1>1, <1>6 DEF Filled
  <2>2. s \in Filled => Cardinality(Filled) # 0
    BY <1>2, FS_EmptySet
  <2> QED BY <1>1, <1>2, <1>3, <1>4, <1>6, <2>1, <2>2
<1> QED BY <1>5, <1>6

LEMMA PartOfSlots ==
    ASSUME NEW S, S \subseteq Slots
    PROVE  /\ Cardinality(S) \in 0..asl_size
           /\ Cardinality(S) = 0 <=> S = {}
           /\ Cardinality(S) = asl_size <=> S = Slots
<1>1. IsFiniteSet(Slots) /\ Cardinality(Slots) = asl_size /\ asl_size \in Nat
  BY SlotsAre
<1>2. /\ IsFiniteSet(S) /\ Cardinality(S) <= Cardinality(Slots)
      /\ Cardinality(S) = Cardinality(Slots) => S = Slots
  BY <1>1, FS_Subset
<1>3. Cardinality(S) \in Nat /\ (Cardinality(S) = 0 <=> S = {})
  BY <1>2, FS_CardinalityType, FS_EmptySet
<1> QED BY <1>1, <1>2, <1>3

LEMMA CountIs ==
    ASSUME count = Cardinality(Filled)
    PROVE  /\ count \in 0..asl_size
           /\ count = 0 <=> Filled = {}
<1>1. Filled \subseteq Slots
  BY DEF Filled
<1> QED BY <1>1, PartOfSlots

LEMMA ElementsAre ==
    ASSUME NEW q \in Seq(Items), NEW i \in Items
    PROVE  /\ Elements(Append(q, i)) = Elements(q) \cup {i}
           /\ Len(Append(q, i)) = Len(q) + 1 /\ Append(q, i) \in Seq(Items)
           /\ \A k \in DOMAIN q : k \in DOMAIN Append(q, i) /\ Append(q, i)[k] = q[k]
           /\ \A k \in DOMAIN Append(q, i) : k \in DOMAIN q \/ k = Len(q) + 1
           /\ Append(q, i)[Len(q) + 1] = i /\ Len(q) + 1 \in DOMAIN Append(q, i)
<1>1. /\ Len(Append(q, i)) = Len(q) + 1 /\ Append(q, i) \in Seq(Items)
      /\ \A k \in DOMAIN q : k \in DOMAIN Append(q, i) /\ Append(q, i)[k] = q[k]
      /\ \A k \in DOMAIN Append(q, i) : k \in DOMAIN q \/ k = Len(q) + 1
      /\ Append(q, i)[Len(q) + 1] = i /\ Len(q) + 1 \in DOMAIN Append(q, i)
  OBVIOUS
<1> HIDE DEF Elements
<1>2. Elements(Append(q, i)) = Elements(q) \cup {i}
  BY <1>1 DEF Elements
<1> QED BY <1>1, <1>2

LEMMA TailIs ==
    ASSUME NEW q \in Seq(Items), q # <<>>
    PROVE  /\ Head(q) \in Items /\ Tail(q) \in Seq(Items) /\ Len(q) = Len(Tail(q)) + 1
           /\ 1 \in DOMAIN q /\ Head(q) = q[1]
           /\ \A k \in DOMAIN Tail(q) : k + 1 \in DOMAIN q /\ Tail(q)[k] = q[k + 1]
           /\ Elements(q) = {Head(q)} \cup Elements(Tail(q))
<1>1. /\ Head(q) \in Items /\ Tail(q) \in Seq(Items) /\ Len(q) = Len(Tail(q)) + 1
      /\ 1 \in DOMAIN q /\ Head(q) = q[1]
      /\ \A k \in DOMAIN Tail(q) : k + 1 \in DOMAIN q /\ Tail(q)[k] = q[k + 1]
      /\ \A k \in DOMAIN q : k = 1 \/ (k - 1 \in DOMAIN Tail(q) /\ q[k] = Tail(q)[k - 1])
  OBVIOUS
<1>2. Elements(q) = {Head(q)} \cup Elements(Tail(q))
  BY <1>1 DEF Elements
<1> QED BY <1>1, <1>2

\* A worker that is not asleep goes to another place.
LEMMA GoesIs ==
    ASSUME VariablesTyped, NEW w \in Workers, pc[w] # "asleep", NEW place \in PCs,
           Goes(w, place)
    PROVE  /\ pc' \in [Workers -> PCs] /\ pc'[w] = place
           /\ \A v \in Workers \ {w} : pc'[v] = pc[v]
           /\ Cardinality(Asleep)' =
                  Cardinality(Asleep) + (IF place = "asleep" THEN 1 ELSE 0)
<1>1. /\ pc' \in [Workers -> PCs] /\ pc'[w] = place
      /\ \A v \in Workers \ {w} : pc'[v] = pc[v]
  BY DEF Goes, VariablesTyped
<1>2. IsFiniteSet(Asleep) /\ w \notin Asleep /\ Cardinality(Asleep) \in Nat
  BY SlotsAre, FS_Subset, FS_CardinalityType DEF Asleep
<1>3. Asleep' = IF place = "asleep" THEN Asleep \cup {w} ELSE Asleep
  BY <1>1, <1>2 DEF Asleep
<1>4. Cardinality(Asleep \cup {w}) = Cardinality(Asleep) + 1
  BY <1>2, FS_AddElement
<1>5. CASE place = "asleep"
  BY <1>1, <1>3, <1>4, <1>5
<1>6. CASE place # "asleep"
  BY <1>1, <1>2, <1>3, <1>6
<1> QED BY <1>5, <1>6

LEMMA AllAsleep ==
    /\ Cardinality(Asleep) \in 0..asl_size
    /\ Cardinality(Asleep) = asl_size <=> \A w \in Workers : pc[w] = "asleep"
    /\ (\A w \in Workers : pc[w] # "asleep") => Cardinality(Asleep) = 0
<1>1. Asleep \subseteq Slots /\ (Asleep = Slots <=> \A w \in Workers : pc[w] = "asleep")
  BY SlotsAre DEF Asleep
<1>2. (\A w \in Workers : pc[w] # "asleep") => Asleep = {}
  BY DEF Asleep
<1>3. /\ Cardinality(Asleep) \in 0..asl_size
      /\ Cardinality(Asleep) = 0 <=> Asleep = {}
      /\ Cardinality(Asleep) = asl_size <=> Asleep = Slots
  BY <1>1, PartOfSlots
<1> QED BY <1>1, <1>2, <1>3

-----------------------------------------------------------------------------
(* The workers, whether or not there are hasty clients *)

\* Outside the waits a worker is in a cycle.
LEMMA AtWork ==
    ASSUME PhasesOK, NEW w \in Workers, pc[w] \notin {"start", "asleep"}
    PROVE  InCycle
BY DEF PhasesOK

LEMMA QueuesStay ==
    ASSUME Conserved, UNCHANGED <<line, came, finished>>
    PROVE  Conserved'
<1>1. /\ elem' = elem /\ count' = count /\ wait_lst_fq' = wait_lst_fq
      /\ came' = came /\ finished' = finished
  BY DEF line
<1>2. /\ Filled' = Filled /\ Elements(came)' = Elements(came)
      /\ Elements(wait_lst_fq)' = Elements(wait_lst_fq)
      /\ Elements(finished)' = Elements(finished)
  BY <1>1 DEF Filled, Elements
<1>3. Cardinality(Filled)' = Cardinality(Filled)
  BY <1>2
<1>4. {elem[s] : s \in Filled}' = {elem[s] : s \in Filled}
  BY <1>1, <1>2
<1> QED BY <1>1, <1>2, <1>3, <1>4 DEF Conserved

\* A worker's step that leaves the queues and the engine's phase alone.
LEMMA WorkerSteps ==
    ASSUME Core, NEW w \in Workers, NEW place \in PCs, pc[w] # "asleep", Goes(w, place),
           UNCHANGED <<hasty, line, came, finished, asl_state, outcome>>,
           curr_slot' \in [Workers -> Slots], Slot(w)' = Slot(w),
           \A v \in Workers \ {w} : curr_slot'[v] = curr_slot[v],
           work' \in [Items -> Seq(Workers)],
           n_workers_ready' = IF place = "asleep" THEN n_workers_ready + 1 ELSE n_workers_ready,
           main' = main \/ (main = "asleep" /\ main' = "woken"),
           engine' = engine \/ (engine = "waiting" /\ engine' = "woken"),
           engine = "none" => place = "asleep",
           place # "start",
           ~InCycle => pc[w] = "start",
           place \in {"working", "removing"} => elem[curr_slot'[w]] # NoItem,
           place = "removing" => w = Tn
    PROVE  Core'
<1> USE DEF Core
<1>1. /\ pc' \in [Workers -> PCs] /\ pc'[w] = place
      /\ \A v \in Workers \ {w} : pc'[v] = pc[v]
      /\ Cardinality(Asleep)' = Cardinality(Asleep) + (IF place = "asleep" THEN 1 ELSE 0)
  BY GoesIs
<1>2. InCycle' = InCycle
  BY DEF InCycle
<1>3. VariablesTyped'
  <2>1. n_workers_ready' \in Nat
    <3>1. n_workers_ready \in Nat
      BY DEF VariablesTyped
    <3> HIDE DEF Core
    <3> QED BY <3>1
  <2>2. engine' \in Engines
    BY DEF VariablesTyped, Engines
  <2>3. main' \in {"init", "asleep", "woken", "ready"}
    BY DEF VariablesTyped
  <2> QED BY <1>1, <2>1, <2>2, <2>3 DEF VariablesTyped, line
<1>4. PhasesOK'
  <2>1. (n_workers_ready = Cardinality(Asleep))'
    BY <1>1, AllAsleep DEF PhasesOK
  <2>2. main = "ready" /\ ~InCycle => FALSE
    BY DEF PhasesOK
  <2>3. main' = "ready" <=> main = "ready"
    OBVIOUS
  <2> QED BY <1>1, <1>2, <2>1, <2>2, <2>3 DEF PhasesOK
<1>5. LockStep'
  <2>1. \A v \in Workers \ {w} : Slot(v)' = Slot(v)
    BY <1>1, <1>2 DEF Slot, Moved
  <2> QED BY <2>1, SlotsStay
<1>6. ItemsFound'
  BY <1>1 DEF ItemsFound, line
<1>7. Conserved'
  BY QueuesStay
<1> QED BY <1>3, <1>4, <1>5, <1>6, <1>7

LEMMA WorkerReadyKeeps ==
    ASSUME Core, NEW w \in Workers, WorkerReady(w), UNCHANGED hasty
    PROVE  Core'
<1>1. /\ pc[w] = "start" /\ n_workers_ready' = n_workers_ready + 1 /\ Goes(w, "asleep")
      /\ main' = main \/ (main = "asleep" /\ main' = "woken")
      /\ UNCHANGED <<line, curr_slot, asl_state, engine, came, work, finished, outcome>>
  BY DEF WorkerReady, history
<1>2. ~InCycle /\ "asleep" \in PCs
  BY <1>1 DEF Core, PhasesOK, PCs
<1>3. Slot(w)' = Slot(w)
  BY <1>1, <1>2 DEF Slot, Moved, InCycle
<1> QED BY <1>1, <1>2, <1>3, WorkerSteps DEF Core, VariablesTyped

LEMMA LookKeeps ==
    ASSUME Core, NEW w \in Workers, Look(w), UNCHANGED hasty
    PROVE  Core'
<1>1. PICK place : place = IF elem[curr_slot[w]] # NoItem THEN "working" ELSE "moving"
  OBVIOUS
<1>2. /\ pc[w] = "woken" /\ Goes(w, place)
      /\ UNCHANGED <<line, curr_slot, n_workers_ready, asl_state, engine, main,
                     came, work, finished, outcome>>
  BY <1>1 DEF Look, history
<1>3. InCycle /\ place \in PCs /\ place \in {"working", "moving"}
  BY <1>1, <1>2, AtWork DEF Core, PCs
<1>4. pc'[w] = place
  BY <1>2, <1>3, GoesIs DEF Core
<1>5. Slot(w)' = Slot(w) /\ engine # "none"
  BY <1>2, <1>3, <1>4 DEF Slot, Moved, InCycle
<1>6. curr_slot' \in [Workers -> Slots] /\ work' \in [Items -> Seq(Workers)]
  BY <1>2 DEF Core, VariablesTyped
<1> QED BY <1>1, <1>2, <1>3, <1>5, <1>6, WorkerSteps

LEMMA WorkKeeps ==
    ASSUME Core, NEW w \in Workers, Work(w), UNCHANGED hasty
    PROVE  Core'
<1>1. PICK place : place = IF w = Tn THEN "removing" ELSE "moving"
  OBVIOUS
<1>2. /\ pc[w] = "working" /\ Goes(w, place)
      /\ work' = [work EXCEPT ![elem[curr_slot[w]]] = Append(@, w)]
      /\ UNCHANGED <<line, curr_slot, n_workers_ready, asl_state, engine, main,
                     came, finished, outcome>>
  BY <1>1 DEF Work
<1>3. InCycle /\ place \in PCs /\ place \in {"removing", "moving"}
  BY <1>1, <1>2, AtWork DEF Core, PCs
<1>4. pc'[w] = place
  BY <1>2, <1>3, GoesIs DEF Core
<1>5. Slot(w)' = Slot(w) /\ engine # "none"
  BY <1>2, <1>3, <1>4 DEF Slot, Moved, InCycle
<1>6. curr_slot' \in [Workers -> Slots] /\ elem[curr_slot[w]] # NoItem
  BY <1>2 DEF Core, VariablesTyped, ItemsFound
<1>7. work' \in [Items -> Seq(Workers)]
  <2>1. elem[curr_slot[w]] \in Items
    BY <1>6 DEF Core, VariablesTyped
  <2>2. PICK i \in Items : i = elem[curr_slot[w]]
    BY <2>1
  <2>3. work[i] \in Seq(Workers)
    BY DEF Core, VariablesTyped
  <2>4. Append(work[i], w) \in Seq(Workers)
    BY <2>3
  <2> QED BY <1>2, <2>2, <2>4 DEF Core, VariablesTyped
<1> QED BY <1>1, <1>2, <1>3, <1>5, <1>6, <1>7, WorkerSteps, SlotsAre DEF line

LEMMA MoveKeeps ==
    ASSUME Core, NEW w \in Workers, Move(w), UNCHANGED hasty
    PROVE  Core' /\ Slot(w)' = Slot(w)
<1>1. /\ pc[w] = "moving" /\ Goes(w, "moved")
      /\ curr_slot' = [curr_slot EXCEPT ![w] = Down(@)]
      /\ UNCHANGED <<line, n_workers_ready, asl_state, engine, main,
                     came, work, finished, outcome>>
  BY DEF Move, Down, history
<1>2. InCycle /\ "moved" \in PCs
  BY <1>1, AtWork DEF Core, PCs
<1>3. pc'[w] = "moved"
  BY <1>1, <1>2, GoesIs DEF Core
<1>4. PICK s \in Slots : s = curr_slot[w]
  BY DEF Core, VariablesTyped
<1>5. /\ curr_slot' \in [Workers -> Slots] /\ curr_slot'[w] = Down(s)
      /\ \A v \in Workers \ {w} : curr_slot'[v] = curr_slot[v]
  BY <1>1, <1>4, GoingRound DEF Core, VariablesTyped
<1>6. Slot(w)' = Slot(w)
  <2>1. Slot(w) = s /\ Slot(w)' = Up(Down(s))
    BY <1>1, <1>2, <1>3, <1>4, <1>5 DEF Slot, Moved, InCycle
  <2> QED BY <2>1, GoingRound
<1>7. engine # "none" /\ work' \in [Items -> Seq(Workers)]
  BY <1>1, <1>2 DEF InCycle, Core, VariablesTyped
<1> QED BY <1>1, <1>2, <1>5, <1>6, <1>7, WorkerSteps

LEMMA ReportKeeps ==
    ASSUME Core, NEW w \in Workers, Report(w), UNCHANGED hasty
    PROVE  Core'
<1>1. /\ pc[w] = "moved" /\ n_workers_ready' = n_workers_ready + 1 /\ Goes(w, "asleep")
      /\ engine' = engine \/ (engine = "waiting" /\ engine' = "woken")
      /\ UNCHANGED <<line, curr_slot, asl_state, main, came, work, finished, outcome>>
  BY DEF Report, history
<1>2. InCycle /\ InCycle' /\ "asleep" \in PCs
  BY <1>1, AtWork DEF Core, PCs, InCycle
<1>3. pc'[w] = "asleep"
  BY <1>1, <1>2, GoesIs DEF Core
<1>4. Slot(w)' = Slot(w)
  BY <1>1, <1>2, <1>3 DEF Slot, Moved
<1>5. /\ work' \in [Items -> Seq(Workers)] /\ curr_slot' \in [Workers -> Slots]
  BY <1>1 DEF Core, VariablesTyped
<1> QED BY <1>1, <1>2, <1>4, <1>5, WorkerSteps

\* The last worker takes the finished item out of the queue.
LEMMA RemoveKeeps ==
    ASSUME Core, NEW w \in Workers, Remove(w), UNCHANGED hasty
    PROVE  /\ Core' /\ w = Tn /\ elem[Slot(w)] \in Items /\ elem'[Slot(w)] = NoItem
           /\ \A v \in Workers : Slot(v)' = Slot(v) /\ (v # w => elem'[Slot(v)] = elem[Slot(v)])
<1> USE DEF Core
<1>1. PICK s \in Slots : s = curr_slot[w]
  BY DEF VariablesTyped
<1>2. /\ pc[w] = "removing" /\ Goes(w, "moving") /\ finished' = Append(finished, elem[s])
      /\ Replace(s, NoItem)
      /\ UNCHANGED <<hasty, wait_lst_fq, curr_slot, n_workers_ready, asl_state, engine, main,
                     came, work, outcome>>
  BY <1>1 DEF Remove
<1>3. InCycle /\ "moving" \in PCs /\ elem[s] \in Items /\ elem[s] # NoItem /\ w = Tn
  BY <1>1, <1>2, AtWork DEF PCs, ItemsFound, VariablesTyped
<1>4. /\ elem' \in [Slots -> Items \cup {NoItem}] /\ elem'[s] = NoItem
      /\ \A r \in Slots \ {s} : elem'[r] = elem[r]
      /\ count' = Cardinality(Filled') /\ count' \in Nat /\ count = count' + 1
  BY <1>2, <1>3, ReplaceCounts DEF Conserved
<1>5. PICK i \in Items : i = elem[s]
  BY <1>3
<1>6. /\ Elements(finished') = Elements(finished) \cup {i} /\ Len(finished') = Len(finished) + 1
      /\ finished' \in Seq(Items) /\ Len(finished) \in Nat /\ Len(wait_lst_fq) \in Nat
  <2>1. finished \in Seq(Items) /\ wait_lst_fq \in Seq(Items)
    BY DEF VariablesTyped
  <2> QED BY <1>2, <1>5, <2>1, ElementsAre
<1>7. /\ pc' \in [Workers -> PCs] /\ pc'[w] = "moving"
      /\ \A v \in Workers \ {w} : pc'[v] = pc[v]
      /\ Cardinality(Asleep)' = Cardinality(Asleep) + 0
  BY <1>2, <1>3, GoesIs
<1>8. InCycle'
  BY <1>2, <1>3 DEF InCycle
<1>9. VariablesTyped'
  BY <1>2, <1>4, <1>6, <1>7 DEF VariablesTyped
<1>10. PhasesOK'
  <2>1. Cardinality(Asleep)' = Cardinality(Asleep)
    BY <1>7, AllAsleep
  <2>2. n_workers_ready' = Cardinality(Asleep)'
    BY <1>2, <2>1 DEF PhasesOK
  <2>3. engine # "none"
    BY <1>3 DEF InCycle
  <2> QED BY <1>2, <1>3, <1>7, <1>8, <2>2, <2>3 DEF PhasesOK
<1>11. \A v \in Workers : Slot(v)' = Slot(v)
  BY <1>2, <1>3, <1>7, <1>8 DEF Slot, Moved
<1>12. LockStep'
  BY <1>11, SlotsStay
<1>13. /\ Slot(w) = s /\ \A v \in Workers : Slot(v) = s => v = w
       /\ \A v \in Workers : Slot(v) \in Slots
  <2>1. Slot(w) = s
    BY <1>1, <1>2 DEF Slot, Moved
  <2> QED BY <2>1, SlotOf
<1>14. ItemsFound'
  <2> SUFFICES ASSUME NEW v \in Workers
               PROVE  /\ pc'[v] \in {"working", "removing"} => elem'[curr_slot'[v]] # NoItem
                      /\ pc'[v] = "removing" => v = Tn
    BY DEF ItemsFound
  <2>1. CASE v = w
    BY <1>7, <2>1
  <2>2. CASE v # w
    <3>1. pc'[v] \in {"working", "removing"} => Slot(v) = curr_slot[v]
      BY <1>7, <2>2 DEF Slot, Moved
    <3>2. pc'[v] \in {"working", "removing"} => curr_slot[v] # s /\ curr_slot[v] \in Slots
      BY <1>13, <2>2, <3>1
    <3> QED BY <1>2, <1>4, <1>7, <2>2, <3>2 DEF ItemsFound
  <2> QED BY <2>1, <2>2
<1>15. Conserved'
  <2>1. {elem[r] : r \in Filled} = {elem[r] : r \in Filled}' \cup {i}
    BY <1>3, <1>4, <1>5 DEF Filled
  <2>2. Elements(came') = {elem[r] : r \in Filled}' \cup Elements(wait_lst_fq')
                          \cup Elements(finished')
    BY <1>2, <1>6, <2>1 DEF Conserved
  <2>3. Len(came') = count' + Len(wait_lst_fq') + Len(finished')
    BY <1>2, <1>4, <1>6 DEF Conserved
  <2> QED BY <1>4, <2>2, <2>3 DEF Conserved
<1> QED BY <1>3, <1>4, <1>9, <1>10, <1>11, <1>12, <1>13, <1>14, <1>15

-----------------------------------------------------------------------------
(* The client and the engine, whether or not there are hasty clients *)

\* A step of a client or of the engine between two cycles.
LEMMA PausesKeep ==
    ASSUME Core, VariablesTyped', Conserved', ItemsFound',
           UNCHANGED <<curr_slot, n_workers_ready, pc>>, InCycle' = InCycle,
           engine' = "none" => engine = "none",
           engine' # "none" => main' = "ready",
           main' = "ready" /\ ~InCycle => \A w \in Workers : pc[w] = "asleep",
           InCycle => asl_state' = "IN_PROGRESS",
           asl_state' = "WAIT" => engine' \in {"halted", "restarted"}
    PROVE  Core' /\ \A w \in Workers : Slot(w)' = Slot(w)
<1>1. \A w \in Workers : Slot(w)' = Slot(w)
  BY DEF Slot, Moved
<1>2. LockStep'
  BY <1>1, SlotsStay DEF Core
<1>3. PhasesOK'
  BY DEF Core, PhasesOK, Asleep
<1> QED BY <1>1, <1>2, <1>3 DEF Core

LEMMA MainWaitsKeeps ==
    ASSUME Core, MainWaits, UNCHANGED hasty
    PROVE  Core' /\ \A w \in Workers : Slot(w)' = Slot(w)
<1>1. /\ main \in {"init", "woken"} /\ main' \in {"init", "asleep", "woken", "ready"}
      /\ main' = "ready" => n_workers_ready = asl_size
      /\ UNCHANGED <<hasty, elem, count, wait_lst_fq, curr_slot, n_workers_ready, asl_state, pc,
                     engine, came, work, finished, outcome>>
  BY DEF MainWaits, line, history
<1>2. InCycle' = InCycle /\ engine = "none" /\ engine' = "none"
  BY <1>1 DEF InCycle, Core, PhasesOK
<1>3. main' = "ready" => \A w \in Workers : pc[w] = "asleep"
  BY <1>1, AllAsleep DEF Core, PhasesOK
<1>4. VariablesTyped' /\ ItemsFound'
  BY <1>1 DEF Core, VariablesTyped, ItemsFound
<1>5. Conserved'
  BY <1>1, QueuesStay DEF Core, line
<1> QED BY <1>1, <1>2, <1>3, <1>4, <1>5, PausesKeep DEF Core, PhasesOK

LEMMA SpuriousWakeupKeeps ==
    ASSUME Core, SpuriousWakeup, UNCHANGED hasty
    PROVE  Core' /\ \A w \in Workers : Slot(w)' = Slot(w)
<1>1. /\ \/ engine = "waiting" /\ engine' = "woken" /\ main' = main
         \/ engine = "halted" /\ engine' = "restarted" /\ main' = main
         \/ main = "asleep" /\ main' = "woken" /\ engine' = engine
      /\ UNCHANGED <<hasty, elem, count, wait_lst_fq, curr_slot, n_workers_ready, asl_state, pc,
                     came, work, finished, outcome>>
  BY DEF SpuriousWakeup, line, history
<1>2. InCycle' = InCycle
  BY <1>1 DEF InCycle
<1>3. VariablesTyped' /\ ItemsFound'
  BY <1>1 DEF Core, VariablesTyped, ItemsFound, Engines
<1>4. Conserved'
  BY <1>1, QueuesStay DEF Core, line
<1> QED BY <1>1, <1>2, <1>3, <1>4, PausesKeep DEF Core, PhasesOK

\* assembly_line_push_new_item puts the item into a slot or makes it wait.
LEMMA PushKeeps ==
    ASSUME Core, NEW i \in Items, Push(i), UNCHANGED hasty
    PROVE  Core' /\ \A w \in Workers : Slot(w)' = Slot(w)
<1> USE DEF Core
<1>1. PICK s \in Slots : s = curr_slot[T0]
  BY SlotsAre DEF VariablesTyped
<1>2. /\ main = "ready" /\ EngineStart /\ came' = Append(came, i)
      /\ \/ elem[s] = NoItem /\ Replace(s, i) /\ wait_lst_fq' = wait_lst_fq
         \/ /\ Len(wait_lst_fq) # WaitSize /\ wait_lst_fq' = Append(wait_lst_fq, i)
            /\ UNCHANGED <<elem, count>>
      /\ UNCHANGED <<hasty, curr_slot, n_workers_ready, pc, main, work, finished, outcome>>
  BY <1>1 DEF Push, Pushes, SlotFree, Enqueue, FifoEnqueue, WaitListFull
<1>3. i # NoItem
  BY ItemsAssumption
<1>4. /\ Elements(came') = Elements(came) \cup {i} /\ Len(came') = Len(came) + 1
      /\ came' \in Seq(Items) /\ Len(came) \in Nat /\ Len(wait_lst_fq) \in Nat
      /\ Len(finished) \in Nat /\ count \in Nat
  <2>1. finished \in Seq(Items) /\ wait_lst_fq \in Seq(Items) /\ came \in Seq(Items)
        /\ count \in Nat
    BY DEF VariablesTyped
  <2> QED BY <1>2, <2>1, ElementsAre
<1>5. /\ elem' \in [Slots -> Items \cup {NoItem}] /\ count' \in Nat
      /\ count' = Cardinality(Filled')
      /\ \A r \in Slots : elem[r] # NoItem => elem'[r] = elem[r]
      /\ wait_lst_fq' \in Seq(Items) /\ Len(wait_lst_fq') <= WaitSize
      /\ Elements(came') = {elem[r] : r \in Filled}' \cup Elements(wait_lst_fq')
                           \cup Elements(finished)
      /\ Len(came') = count' + Len(wait_lst_fq') + Len(finished)
  <2>1. CASE elem[s] = NoItem /\ Replace(s, i) /\ wait_lst_fq' = wait_lst_fq
    <3>1. /\ elem' \in [Slots -> Items \cup {NoItem}] /\ elem'[s] = i
          /\ \A r \in Slots \ {s} : elem'[r] = elem[r]
          /\ count' = Cardinality(Filled') /\ count' \in Nat /\ count' = count + 1
      BY <1>3, <2>1, ReplaceCounts DEF Conserved
    <3>2. {elem[r] : r \in Filled}' = {elem[r] : r \in Filled} \cup {i}
      BY <1>3, <2>1, <3>1 DEF Filled
    <3>3. /\ Elements(came) = {elem[r] : r \in Filled} \cup Elements(wait_lst_fq)
                              \cup Elements(finished)
          /\ Len(came) = count + Len(wait_lst_fq) + Len(finished)
          /\ wait_lst_fq' \in Seq(Items) /\ Len(wait_lst_fq') <= WaitSize
      BY <2>1 DEF Conserved, VariablesTyped
    <3>4. \A r \in Slots : elem[r] # NoItem => elem'[r] = elem[r]
      BY <2>1, <3>1
    <3>5. Elements(came') = {elem[r] : r \in Filled}' \cup Elements(wait_lst_fq')
                            \cup Elements(finished)
      BY <1>4, <2>1, <3>2, <3>3
    <3>6. Len(came') = count' + Len(wait_lst_fq') + Len(finished)
      BY <1>4, <2>1, <3>1, <3>3
    <3> QED BY <3>1, <3>3, <3>4, <3>5, <3>6
  <2>2. CASE /\ Len(wait_lst_fq) # WaitSize /\ wait_lst_fq' = Append(wait_lst_fq, i)
             /\ UNCHANGED <<elem, count>>
    <3>1. /\ Elements(wait_lst_fq') = Elements(wait_lst_fq) \cup {i}
          /\ Len(wait_lst_fq') = Len(wait_lst_fq) + 1 /\ wait_lst_fq' \in Seq(Items)
      BY <2>2, ElementsAre DEF VariablesTyped
    <3>2. /\ Elements(came) = {elem[r] : r \in Filled} \cup Elements(wait_lst_fq)
                              \cup Elements(finished)
          /\ Len(came) = count + Len(wait_lst_fq) + Len(finished)
          /\ Len(wait_lst_fq) <= WaitSize /\ elem \in [Slots -> Items \cup {NoItem}]
          /\ count = Cardinality(Filled)
      BY DEF Conserved, VariablesTyped
    <3>3. Len(wait_lst_fq') <= WaitSize
      BY <1>4, <2>2, <3>1, <3>2, SizeAssumption
    <3>4. Filled' = Filled
      BY <2>2 DEF Filled
    <3>5. Elements(came') = {elem[r] : r \in Filled}' \cup Elements(wait_lst_fq')
                            \cup Elements(finished)
      BY <1>4, <2>2, <3>1, <3>2, <3>4
    <3>6. Len(came') = count' + Len(wait_lst_fq') + Len(finished)
      BY <1>4, <2>2, <3>1, <3>2
    <3> QED BY <1>4, <2>2, <3>1, <3>2, <3>3, <3>4, <3>5, <3>6
  <2> QED BY <1>2, <2>1, <2>2
<1>6. Conserved'
  BY <1>2, <1>5 DEF Conserved
<1>7. /\ engine' \in Engines /\ asl_state' \in {"NOT_STARTED", "IN_PROGRESS", "WAIT"}
      /\ InCycle' = InCycle /\ engine' # "none"
      /\ asl_state' = "WAIT" => engine' \in {"halted", "restarted"}
      /\ InCycle => asl_state' = "IN_PROGRESS"
  <2>1. /\ engine \in Engines /\ asl_state \in {"NOT_STARTED", "IN_PROGRESS", "WAIT"}
        /\ asl_state = "WAIT" => engine \in {"halted", "restarted"}
        /\ InCycle => asl_state = "IN_PROGRESS"
    BY DEF PhasesOK, VariablesTyped
  <2>2. EngineStart
    BY <1>2
  <2> HIDE DEF Core
  <2>3. CASE engine = "none"
    BY <2>1, <2>2, <2>3 DEF EngineStart, InCycle, Engines
  <2>4. CASE engine # "none"
    BY <2>1, <2>2, <2>4 DEF EngineStart, InCycle, Engines
  <2> QED BY <2>3, <2>4
<1>8. VariablesTyped'
  BY <1>2, <1>4, <1>5, <1>7 DEF VariablesTyped
<1>9. ItemsFound'
  BY <1>2, <1>5 DEF ItemsFound, VariablesTyped
<1>10. main' = "ready" /\ (~InCycle => \A w \in Workers : pc[w] = "asleep")
  BY <1>2 DEF PhasesOK
<1> QED BY <1>2, <1>6, <1>7, <1>8, <1>9, <1>10, PausesKeep

\* The engine wakes all workers.
LEMMA StartIs ==
    ASSUME StartCycle, VariablesTyped, \A w \in Workers : pc[w] = "asleep"
    PROVE  /\ pc' = [w \in Workers |-> "woken"] /\ pc' \in [Workers -> PCs]
           /\ n_workers_ready' = 0 /\ n_workers_ready' = Cardinality(Asleep)'
           /\ asl_state' = "IN_PROGRESS" /\ engine' = "waiting" /\ engine' \in Engines
           /\ InCycle'
           /\ \A w \in Workers : ~Moved(w)' /\ ~Worked(w)' /\ pc'[w] = "woken"
<1>1. /\ pc' = [w \in Workers |-> "woken"] /\ n_workers_ready' = 0
      /\ asl_state' = "IN_PROGRESS" /\ engine' = "waiting" /\ InCycle'
  BY DEF StartCycle, InCycle
<1>2. \A w \in Workers : pc'[w] = "woken"
  BY <1>1
<1>3. \A w \in Workers : ~Moved(w)' /\ ~Worked(w)'
  BY <1>2 DEF Moved, Worked
<1>4. Asleep' = {}
  BY <1>2 DEF Asleep
<1>5. Cardinality(Asleep)' = 0
  BY <1>4, FS_EmptySet
<1>6. pc' \in [Workers -> PCs] /\ engine' \in Engines
  BY <1>1 DEF PCs, Engines
<1> QED BY <1>1, <1>2, <1>3, <1>5, <1>6

LEMMA EngineBeginsKeeps ==
    ASSUME Core, EngineBegins, UNCHANGED hasty
    PROVE  Core' /\ \A w \in Workers : Slot(w)' = Slot(w)
<1> USE DEF Core
<1>1. /\ engine \in {"created", "restarted"} /\ StartCycle
      /\ UNCHANGED <<hasty, elem, count, wait_lst_fq, curr_slot, main, came, work, finished,
                     outcome>>
  BY DEF EngineBegins, line, history
<1>2. ~InCycle /\ main = "ready" /\ \A w \in Workers : pc[w] = "asleep"
  BY <1>1 DEF PhasesOK, InCycle
<1>3. /\ pc' \in [Workers -> PCs]
      /\ n_workers_ready' = 0 /\ n_workers_ready' = Cardinality(Asleep)'
      /\ asl_state' = "IN_PROGRESS" /\ engine' = "waiting" /\ engine' \in Engines /\ InCycle'
      /\ \A w \in Workers : ~Moved(w)' /\ pc'[w] = "woken"
  BY <1>1, <1>2, StartIs
<1>4. \A w \in Workers : Slot(w)' = Slot(w)
  BY <1>1, <1>2, <1>3 DEF Slot, Moved
<1>5. LockStep'
  BY <1>4, SlotsStay
<1>6. VariablesTyped'
  <2>1. n_workers_ready' \in Nat /\ asl_state' \in {"NOT_STARTED", "IN_PROGRESS", "WAIT"}
    BY <1>3
  <2> QED BY <1>1, <1>3, <2>1 DEF VariablesTyped
<1>7. PhasesOK'
  BY <1>1, <1>2, <1>3 DEF PhasesOK
<1>8. ItemsFound'
  BY <1>3 DEF ItemsFound
<1>9. Conserved'
  BY <1>1, QueuesStay DEF line
<1> QED BY <1>4, <1>5, <1>6, <1>7, <1>8, <1>9

LEMMA EngineWaitsOnKeeps ==
    ASSUME Core, EngineWaitsOn, UNCHANGED hasty
    PROVE  Core' /\ \A w \in Workers : Slot(w)' = Slot(w)
<1>1. /\ engine = "woken" /\ engine' = "waiting"
      /\ UNCHANGED <<hasty, elem, count, wait_lst_fq, curr_slot, n_workers_ready, asl_state, pc,
                     main, came, work, finished, outcome>>
  BY DEF EngineWaitsOn, line, history
<1>2. InCycle' = InCycle
  BY <1>1 DEF InCycle
<1>3. VariablesTyped' /\ ItemsFound'
  BY <1>1 DEF Core, VariablesTyped, ItemsFound, Engines
<1>4. Conserved'
  BY <1>1, QueuesStay DEF Core, line
<1> QED BY <1>1, <1>2, <1>3, <1>4, PausesKeep DEF Core, PhasesOK

\* The end of a cycle: all workers have moved.
LEMMA CycleEnds ==
    ASSUME Core, CycleDone
    PROVE  /\ InCycle /\ engine = "woken" /\ main = "ready" /\ asl_state = "IN_PROGRESS"
           /\ \A w \in Workers : pc[w] = "asleep" /\ Moved(w) /\ Worked(w)
<1>1. engine = "woken" /\ Cardinality(Asleep) = asl_size /\ InCycle
  BY DEF CycleDone, Core, PhasesOK, InCycle
<1>2. \A w \in Workers : pc[w] = "asleep"
  BY <1>1, AllAsleep
<1> QED BY <1>1, <1>2 DEF Core, PhasesOK, Moved, Worked

LEMMA EngineHaltsKeeps ==
    ASSUME Core, EngineHalts, UNCHANGED hasty
    PROVE  Core'
<1> USE DEF Core
<1>1. /\ CycleDone /\ asl_state' = "WAIT" /\ engine' = "halted"
      /\ UNCHANGED <<hasty, elem, count, wait_lst_fq, curr_slot, n_workers_ready, pc, main,
                     came, work, finished, outcome>>
  BY DEF EngineHalts, line, history
<1>2. main = "ready" /\ ~InCycle' /\ \A w \in Workers : pc[w] = "asleep" /\ Moved(w)
  BY <1>1, CycleEnds DEF InCycle
<1>3. \A w \in Workers : ~Moved(w)'
  BY <1>2 DEF Moved
<1>4. LockStep'
  BY <1>1, <1>2, <1>3, SlotsShift
<1>5. VariablesTyped' /\ ItemsFound'
  BY <1>1 DEF VariablesTyped, ItemsFound, Engines
<1>6. PhasesOK'
  BY <1>1, <1>2 DEF PhasesOK, Asleep
<1>7. Conserved'
  BY <1>1, QueuesStay DEF line
<1> QED BY <1>4, <1>5, <1>6, <1>7

LEMMA EngineGoesOnKeeps ==
    ASSUME Core, EngineGoesOn, UNCHANGED hasty
    PROVE  Core'
<1> USE DEF Core
<1>1. PICK s \in Slots : s = curr_slot[T0]
  BY SlotsAre DEF VariablesTyped
<1>2. /\ CycleDone /\ StartCycle
      /\ \/ /\ wait_lst_fq # <<>> /\ wait_lst_fq' = Tail(wait_lst_fq)
            /\ elem[s] = NoItem /\ Replace(s, Head(wait_lst_fq))
         \/ UNCHANGED <<elem, count, wait_lst_fq>>
      /\ UNCHANGED <<hasty, curr_slot, main, came, work, finished, outcome>>
  BY <1>1 DEF EngineGoesOn, FifoDeque, SlotFree, Enqueue, line, history
<1>3. main = "ready" /\ \A w \in Workers : pc[w] = "asleep" /\ Moved(w)
  BY <1>2, CycleEnds
<1>4. /\ pc' \in [Workers -> PCs]
      /\ n_workers_ready' = 0 /\ n_workers_ready' = Cardinality(Asleep)'
      /\ asl_state' = "IN_PROGRESS" /\ engine' = "waiting" /\ engine' \in Engines /\ InCycle'
      /\ \A w \in Workers : ~Moved(w)' /\ pc'[w] = "woken"
  BY <1>2, <1>3, StartIs
<1>5. LockStep'
  BY <1>2, <1>3, <1>4, SlotsShift
<1>6. /\ elem' \in [Slots -> Items \cup {NoItem}] /\ count' \in Nat
      /\ wait_lst_fq' \in Seq(Items) /\ Len(wait_lst_fq') <= WaitSize /\ Conserved'
  <2>1. CASE /\ wait_lst_fq # <<>> /\ wait_lst_fq' = Tail(wait_lst_fq)
             /\ elem[s] = NoItem /\ Replace(s, Head(wait_lst_fq))
    <3>0. /\ wait_lst_fq \in Seq(Items) /\ finished \in Seq(Items)
          /\ Len(wait_lst_fq) <= WaitSize
      BY DEF VariablesTyped
    <3>1. PICK i \in Items : i = Head(wait_lst_fq)
      BY <2>1, <3>0, TailIs
    <3>2. /\ wait_lst_fq' \in Seq(Items) /\ Len(wait_lst_fq) = Len(wait_lst_fq') + 1
          /\ Elements(wait_lst_fq) = {i} \cup Elements(wait_lst_fq')
          /\ Len(wait_lst_fq') \in Nat /\ Len(finished) \in Nat
      BY <2>1, <3>0, <3>1, TailIs
    <3>3. i # NoItem
      BY ItemsAssumption
    <3>4. /\ elem' \in [Slots -> Items \cup {NoItem}] /\ elem'[s] = i
          /\ \A r \in Slots \ {s} : elem'[r] = elem[r]
          /\ count' = Cardinality(Filled') /\ count' \in Nat /\ count' = count + 1
      BY <2>1, <3>1, <3>3, ReplaceCounts DEF Conserved
    <3>5. {elem[r] : r \in Filled}' = {elem[r] : r \in Filled} \cup {i}
      BY <2>1, <3>3, <3>4 DEF Filled
    <3>6. Elements(came') = {elem[r] : r \in Filled}' \cup Elements(wait_lst_fq')
                            \cup Elements(finished')
      BY <1>2, <3>2, <3>5 DEF Conserved
    <3>7. count \in Nat /\ Len(came) = count + Len(wait_lst_fq) + Len(finished)
      BY DEF Conserved, VariablesTyped
    <3>8. Len(came') = count' + Len(wait_lst_fq') + Len(finished')
      BY <1>2, <3>2, <3>4, <3>7
    <3>9. Len(wait_lst_fq') <= WaitSize
      BY <3>0, <3>2, SizeAssumption
    <3> QED BY <3>2, <3>4, <3>6, <3>8, <3>9 DEF Conserved
  <2>2. CASE UNCHANGED <<elem, count, wait_lst_fq>>
    BY <1>2, <2>2, QueuesStay DEF VariablesTyped, line
  <2> QED BY <1>2, <2>1, <2>2
<1>7. VariablesTyped'
  <2>1. n_workers_ready' \in Nat /\ asl_state' \in {"NOT_STARTED", "IN_PROGRESS", "WAIT"}
    BY <1>4
  <2> QED BY <1>2, <1>4, <1>6, <2>1 DEF VariablesTyped
<1>8. PhasesOK'
  BY <1>2, <1>3, <1>4 DEF PhasesOK
<1>9. ItemsFound'
  BY <1>4 DEF ItemsFound
<1> QED BY <1>5, <1>6, <1>7, <1>8, <1>9

LEMMA AssertFailsKeeps ==
    ASSUME Core, AssertFails, UNCHANGED hasty
    PROVE  Core'
<1>1. /\ outcome' \in {"running", "assert failed"} /\ main' = main /\ engine' = engine
      /\ UNCHANGED <<hasty, elem, count, wait_lst_fq, curr_slot, n_workers_ready, asl_state, pc,
                     came, work, finished>>
  BY DEF AssertFails, line, history
<1>2. VariablesTyped' /\ ItemsFound' /\ InCycle' = InCycle
  BY <1>1 DEF Core, VariablesTyped, ItemsFound, InCycle
<1>3. Conserved'
  BY <1>1, QueuesStay DEF Core, line
<1> QED BY <1>1, <1>2, <1>3, PausesKeep DEF Core, PhasesOK

LEMMA InitCore == Init => Core
<1> SUFFICES ASSUME Init PROVE Core
  OBVIOUS
<1> USE DEF Init
<1>1. Filled = {} /\ Elements(<<>>) = {} /\ Len(<<>>) = 0
  BY DEF Filled, Elements
<1>2. VariablesTyped
  BY SizeAssumption, SlotsAre DEF VariablesTyped, PCs, Engines
<1>3. Conserved
  BY <1>1, FS_EmptySet DEF Conserved
<1>4. ~InCycle /\ \A w \in Workers : pc[w] = "start"
  BY DEF InCycle
<1>5. PhasesOK
  <2>1. Cardinality(Asleep) = 0
    BY <1>4, AllAsleep
  <2> QED BY <1>4, <2>1 DEF PhasesOK
<1>6. LockStep
  <2>1. \A w \in Workers : Slot(w) = w
    BY <1>4 DEF Slot, Moved
  <2>2. \A w \in Workers : At(T0, w) = w
    BY SlotsAre DEF At, T0
  <2> QED BY <2>1, <2>2, SlotsAre DEF LockStep
<1>7. ItemsFound
  BY <1>4 DEF ItemsFound
<1> QED BY <1>2, <1>3, <1>5, <1>6, <1>7 DEF Core

-----------------------------------------------------------------------------
(* The order of the items, without hasty clients *)

LEMMA CameIs ==
    ASSUME Core
    PROVE  /\ came \in Seq(Items) /\ wait_lst_fq \in Seq(Items) /\ finished \in Seq(Items)
           /\ Len(came) \in Nat /\ Len(wait_lst_fq) \in Nat /\ Len(finished) \in Nat
           /\ count \in Nat /\ Len(came) = count + Len(wait_lst_fq) + Len(finished)
           /\ \A k \in DOMAIN came : k \in Nat /\ came[k] \in Items /\ came[k] # NoItem
<1>1. /\ came \in Seq(Items) /\ wait_lst_fq \in Seq(Items) /\ finished \in Seq(Items)
      /\ count \in Nat /\ Len(came) = count + Len(wait_lst_fq) + Len(finished)
  BY DEF Core, VariablesTyped, Conserved
<1>2. \A k \in DOMAIN came : k \in Nat /\ came[k] \in Items /\ came[k] # NoItem
  BY <1>1, ItemsAssumption
<1> QED BY <1>1, <1>2

LEMMA WaitAt ==
    ASSUME Core, NEW k \in DOMAIN wait_lst_fq
    PROVE  /\ Len(came) - Len(wait_lst_fq) + k \in DOMAIN came
           /\ Len(came) - Len(wait_lst_fq) + k > Len(came) - Len(wait_lst_fq)
<1>1. /\ Len(came) \in Nat /\ Len(wait_lst_fq) \in Nat /\ Len(finished) \in Nat /\ count \in Nat
      /\ Len(came) = count + Len(wait_lst_fq) + Len(finished)
      /\ DOMAIN wait_lst_fq = 1..Len(wait_lst_fq) /\ DOMAIN came = 1..Len(came)
  BY CameIs
<1> QED BY <1>1

\* A step that touches neither the queues nor the slots nor the work.
LEMMA OrderStays ==
    ASSUME Core, InOrder, LastSlotFree',
           UNCHANGED <<elem, count, wait_lst_fq, came, work, finished>>,
           \A w \in Workers : Slot(w)' = Slot(w),
           \A w \in Workers : elem[Slot(w)] # NoItem => (Worked(w)' <=> Worked(w))
    PROVE  InOrder'
<1>1. Divided'
  BY DEF InOrder, Divided, Filled
<1>2. Ordered'
  BY DEF InOrder, Ordered
<1>3. Staged'
  <2>1. \A w \in Workers : elem'[Slot(w)'] # NoItem =>
            Len(work'[elem'[Slot(w)']]) = IF Worked(w)' THEN w + 1 ELSE w
    BY DEF InOrder, Staged
  <2>2. \A i \in Items : Untried(i)' => work'[i] = <<>>
    BY DEF InOrder, Staged, Untried
  <2>3. \A k \in DOMAIN wait_lst_fq' : work'[wait_lst_fq'[k]] = <<>>
    BY DEF InOrder, Staged
  <2> QED BY <2>1, <2>2, <2>3 DEF Staged
<1> QED BY <1>1, <1>2, <1>3 DEF InOrder

LEMMA OneSlotEach ==
    ASSUME Core, InOrder, NEW v \in Workers, NEW w \in Workers, v # w,
           elem[Slot(w)] # NoItem
    PROVE  elem[Slot(v)] # elem[Slot(w)]
<1> SUFFICES ASSUME elem[Slot(v)] = elem[Slot(w)] PROVE FALSE
  OBVIOUS
<1>1. Slot(w) \in Filled
  BY SlotOf DEF Filled, Core
<1>2. PICK k \in DOMAIN came : came[k] = elem[Slot(w)]
  BY <1>1 DEF InOrder, Divided
<1>3. k \in Nat
  BY CameIs
<1>4. v < w \/ w < v
  BY SlotsAre
<1>5. k < k
  BY <1>2, <1>4 DEF InOrder, Ordered
<1> QED BY <1>3, <1>5

\* A worker that has nothing to do with the queues.
LEMMA WorkerReadyOrder ==
    ASSUME Core, InOrder, NEW w \in Workers, WorkerReady(w)
    PROVE  InOrder'
<1>1. /\ pc[w] = "start" /\ Goes(w, "asleep")
      /\ UNCHANGED <<elem, count, wait_lst_fq, curr_slot, asl_state, engine, came, work,
                     finished>>
  BY DEF WorkerReady, line, history
<1>2. ~InCycle /\ ~InCycle'
  BY <1>1 DEF Core, PhasesOK, InCycle
<1>3. \A v \in Workers : Slot(v)' = Slot(v) /\ (Worked(v)' <=> Worked(v))
  BY <1>1, <1>2 DEF Slot, Moved, Worked
<1>4. LastSlotFree'
  BY <1>1, <1>2 DEF InOrder, LastSlotFree
<1> QED BY <1>1, <1>3, <1>4, OrderStays

LEMMA LookOrder ==
    ASSUME Core, InOrder, NEW w \in Workers, Look(w)
    PROVE  InOrder'
<1>1. PICK place : place = IF elem[curr_slot[w]] # NoItem THEN "working" ELSE "moving"
  OBVIOUS
<1>2. /\ pc[w] = "woken" /\ Goes(w, place)
      /\ UNCHANGED <<elem, count, wait_lst_fq, curr_slot, asl_state, engine, came, work,
                     finished>>
  BY <1>1 DEF Look, line, history
<1>3. InCycle /\ InCycle' /\ place \in PCs /\ place \in {"working", "moving"}
  BY <1>1, <1>2, AtWork DEF Core, PCs, InCycle
<1>4. pc'[w] = place /\ \A v \in Workers \ {w} : pc'[v] = pc[v]
  BY <1>2, <1>3, GoesIs DEF Core
<1>5. \A v \in Workers : Slot(v)' = Slot(v)
  BY <1>2, <1>3, <1>4 DEF Slot, Moved
<1>6. Slot(w) = curr_slot[w] /\ (elem[Slot(w)] # NoItem <=> place = "working")
  BY <1>1, <1>2 DEF Slot, Moved
<1>7. \A v \in Workers : elem[Slot(v)] # NoItem => (Worked(v)' <=> Worked(v))
  BY <1>2, <1>3, <1>4, <1>6 DEF Worked
<1>8. LastSlotFree'
  <2>1. Tn \in Workers
    BY SlotsAre
  <2>2. pc'[Tn] \in {"moving", "moved", "asleep"} => elem[Slot(Tn)] = NoItem
    BY <1>3, <1>4, <1>6, <2>1 DEF InOrder, LastSlotFree
  <2> QED BY <1>2, <1>5, <2>1, <2>2 DEF InOrder, LastSlotFree
<1> QED BY <1>2, <1>5, <1>7, <1>8, OrderStays

\* Moving on and reporting keep the slot of this cycle.
LEMMA MovesOnOrder ==
    ASSUME Core, InOrder, NEW w \in Workers, NEW place \in PCs,
           pc[w] \in {"moving", "moved"}, place \in {"moved", "asleep"}, Goes(w, place),
           UNCHANGED <<elem, count, wait_lst_fq, asl_state, came, work, finished>>, InCycle',
           Slot(w)' = Slot(w), \A v \in Workers \ {w} : curr_slot'[v] = curr_slot[v]
    PROVE  InOrder'
<1>1. InCycle
  BY AtWork DEF Core
<1>2. pc'[w] = place /\ \A v \in Workers \ {w} : pc'[v] = pc[v]
  BY GoesIs DEF Core
<1>3. \A v \in Workers : Slot(v)' = Slot(v)
  BY <1>1, <1>2 DEF Slot, Moved
<1>4. \A v \in Workers : Worked(v)' <=> Worked(v)
  BY <1>1, <1>2 DEF Worked
<1>5. LastSlotFree'
  <2>1. Tn \in Workers
    BY SlotsAre
  <2>2. pc'[Tn] \in {"moving", "moved", "asleep"} => elem[Slot(Tn)] = NoItem
    BY <1>1, <1>2, <2>1 DEF InOrder, LastSlotFree
  <2> QED BY <1>3, <2>1, <2>2 DEF InOrder, LastSlotFree
<1> QED BY <1>3, <1>4, <1>5, OrderStays

LEMMA MoveOrder ==
    ASSUME Core, InOrder, NEW w \in Workers, Move(w), UNCHANGED hasty
    PROVE  InOrder'
<1>1. /\ pc[w] = "moving" /\ Goes(w, "moved") /\ "moved" \in PCs
      /\ UNCHANGED <<elem, count, wait_lst_fq, asl_state, engine, came, work, finished>>
      /\ \A v \in Workers \ {w} : curr_slot'[v] = curr_slot[v]
  BY DEF Move, line, history, PCs, Core, VariablesTyped
<1>2. InCycle'
  BY <1>1, AtWork DEF Core, InCycle
<1>3. Slot(w)' = Slot(w)
  BY MoveKeeps
<1> QED BY <1>1, <1>2, <1>3, MovesOnOrder

LEMMA ReportOrder ==
    ASSUME Core, InOrder, NEW w \in Workers, Report(w)
    PROVE  InOrder'
<1>1. /\ pc[w] = "moved" /\ Goes(w, "asleep") /\ "asleep" \in PCs
      /\ UNCHANGED <<elem, count, wait_lst_fq, curr_slot, asl_state, came, work, finished>>
      /\ engine' = engine \/ engine' = "woken"
  BY DEF Report, line, history, PCs
<1>2. InCycle /\ InCycle'
  BY <1>1, AtWork DEF Core, InCycle
<1>3. pc'[w] = "asleep"
  BY <1>1, GoesIs DEF Core
<1>4. Slot(w)' = Slot(w)
  BY <1>1, <1>2, <1>3 DEF Slot, Moved
<1> QED BY <1>1, <1>2, <1>4, MovesOnOrder

\* A step between two cycles, or one in the middle of a cycle that no worker
\* takes.
LEMMA PausesOrder ==
    ASSUME Core, InOrder,
           UNCHANGED <<elem, count, wait_lst_fq, curr_slot, asl_state, pc, came, work,
                       finished>>,
           InCycle' = InCycle
    PROVE  InOrder'
<1>1. \A w \in Workers : Slot(w)' = Slot(w) /\ (Worked(w)' <=> Worked(w))
  BY DEF Slot, Moved, Worked
<1>2. LastSlotFree'
  BY <1>1, SlotsAre DEF InOrder, LastSlotFree
<1> QED BY <1>1, <1>2, OrderStays

LEMMA EngineBeginsOrder ==
    ASSUME Core, InOrder, EngineBegins, UNCHANGED hasty
    PROVE  InOrder'
<1>1. /\ engine \in {"created", "restarted"} /\ StartCycle
      /\ UNCHANGED <<elem, count, wait_lst_fq, curr_slot, came, work, finished>>
  BY DEF EngineBegins, line, history
<1>2. ~InCycle /\ \A w \in Workers : pc[w] = "asleep"
  BY <1>1 DEF Core, PhasesOK, InCycle
<1>3. asl_state' = "IN_PROGRESS" /\ \A w \in Workers : ~Worked(w)' /\ pc'[w] = "woken"
  BY <1>1, <1>2, StartIs DEF Core
<1>4. \A w \in Workers : Slot(w)' = Slot(w)
  BY EngineBeginsKeeps
<1>5. LastSlotFree'
  BY <1>3, SlotsAre DEF LastSlotFree
<1> QED BY <1>1, <1>2, <1>3, <1>4, <1>5, OrderStays DEF Worked

\* An item gets the next worker behind it.
LEMMA WorkOrder ==
    ASSUME Core, InOrder, NEW w \in Workers, Work(w)
    PROVE  InOrder'
<1>1. PICK i \in Items : i = elem[curr_slot[w]] /\ i # NoItem
  <2>1. curr_slot[w] \in Slots /\ elem[curr_slot[w]] # NoItem
    BY DEF Work, Core, VariablesTyped, ItemsFound
  <2> QED BY <2>1 DEF Core, VariablesTyped
<1>2. PICK place : place = IF w = Tn THEN "removing" ELSE "moving"
  OBVIOUS
<1>3. /\ pc[w] = "working" /\ Goes(w, place) /\ work' = [work EXCEPT ![i] = Append(@, w)]
      /\ UNCHANGED <<elem, count, wait_lst_fq, curr_slot, asl_state, engine, came, finished>>
  BY <1>1, <1>2 DEF Work, line
<1>4. InCycle /\ InCycle' /\ place \in PCs
  BY <1>2, <1>3, AtWork DEF Core, PCs, InCycle
<1>5. pc'[w] = place /\ \A v \in Workers \ {w} : pc'[v] = pc[v]
  BY <1>3, <1>4, GoesIs DEF Core
<1>6. \A v \in Workers : Slot(v)' = Slot(v)
  BY <1>2, <1>3, <1>4, <1>5 DEF Slot, Moved
<1>7. Slot(w) = curr_slot[w] /\ ~Worked(w) /\ Worked(w)'
  BY <1>2, <1>3, <1>4, <1>5 DEF Slot, Moved, Worked
<1>8. \A v \in Workers \ {w} : (Worked(v)' <=> Worked(v)) /\ elem[Slot(v)] # i
  BY <1>1, <1>4, <1>5, <1>7, OneSlotEach DEF Worked
<1>9. work[i] \in Seq(Workers) /\ Len(work'[i]) = Len(work[i]) + 1
      /\ \A j \in Items \ {i} : work'[j] = work[j]
  <2>1. work \in [Items -> Seq(Workers)]
    BY DEF Core, VariablesTyped
  <2>2. work'[i] = Append(work[i], w) /\ work[i] \in Seq(Workers)
    BY <1>3, <2>1
  <2> QED BY <1>3, <2>1, <2>2
<1>10. Divided' /\ Ordered'
  BY <1>3, <1>6 DEF InOrder, Divided, Ordered, Filled
<1>11. LastSlotFree'
  <2>1. Tn \in Workers
    BY SlotsAre
  <2>2. pc'[Tn] \in {"moving", "moved", "asleep"} => elem[Slot(Tn)] = NoItem
    BY <1>2, <1>4, <1>5, <2>1 DEF InOrder, LastSlotFree
  <2> QED BY <1>3, <1>6, <2>1, <2>2 DEF InOrder, LastSlotFree
<1>12. PICK n \in DOMAIN came : came[n] = i /\ n <= Len(came) - Len(wait_lst_fq)
  <2>1. Slot(w) \in Filled /\ elem[Slot(w)] = i
    BY <1>1, <1>7, SlotOf DEF Filled, Core
  <2> QED BY <2>1 DEF InOrder, Divided
<1>13. \A v \in Workers : elem'[Slot(v)'] # NoItem =>
           Len(work'[elem'[Slot(v)']]) = IF Worked(v)' THEN v + 1 ELSE v
  <2> SUFFICES ASSUME NEW v \in Workers, elem[Slot(v)] # NoItem
               PROVE  Len(work'[elem[Slot(v)]]) = IF Worked(v)' THEN v + 1 ELSE v
    BY <1>3, <1>6
  <2>1. Len(work[elem[Slot(v)]]) = IF Worked(v) THEN v + 1 ELSE v
    BY DEF InOrder, Staged
  <2>2. CASE v = w
    BY <1>1, <1>7, <1>9, <2>1, <2>2
  <2>3. CASE v # w
    <3>1. elem[Slot(v)] \in Items \ {i}
      BY <1>8, <2>3, SlotOf DEF Core, VariablesTyped
    <3> QED BY <1>8, <1>9, <2>1, <2>3, <3>1
  <2> QED BY <2>2, <2>3
<1>14. \A j \in Items : Untried(j)' => work'[j] = <<>>
  BY <1>3, <1>9, <1>12 DEF InOrder, Staged, Untried
<1>15. \A k \in DOMAIN wait_lst_fq : work'[wait_lst_fq[k]] = <<>>
  <2> SUFFICES ASSUME NEW k \in DOMAIN wait_lst_fq PROVE work'[wait_lst_fq[k]] = <<>>
    OBVIOUS
  <2>1. k \in Nat /\ 1 <= k /\ k <= Len(wait_lst_fq) /\ wait_lst_fq[k] \in Items
    BY CameIs
  <2>2. PICK m : m = Len(came) - Len(wait_lst_fq) + k
    OBVIOUS
  <2>3. m \in DOMAIN came /\ m # n /\ wait_lst_fq[k] = came[m]
    <3>1. m \in DOMAIN came /\ m > Len(came) - Len(wait_lst_fq)
      BY <2>1, <2>2, WaitAt
    <3>2. m # n
      BY <1>12, <3>1, CameIs
    <3> QED BY <2>2, <3>1, <3>2 DEF InOrder, Divided
  <2>4. wait_lst_fq[k] # i
    BY <1>12, <2>3 DEF InOrder, Divided
  <2> QED BY <1>9, <2>1, <2>4 DEF InOrder, Staged
<1>16. Staged'
  BY <1>3, <1>13, <1>14, <1>15 DEF Staged
<1> QED BY <1>10, <1>11, <1>16 DEF InOrder

\* The last worker takes the oldest item out.
LEMMA RemoveOrder ==
    ASSUME Core, InOrder, NEW w \in Workers, Remove(w), UNCHANGED hasty
    PROVE  /\ InOrder' /\ elem[Slot(w)] = came[Len(finished) + 1]
           /\ Len(finished) + 1 \in DOMAIN came
           /\ finished' = Append(finished, elem[Slot(w)])
<1>1. /\ Core' /\ w = Tn /\ elem[Slot(w)] \in Items /\ elem'[Slot(w)] = NoItem
      /\ \A v \in Workers : Slot(v)' = Slot(v) /\ (v # w => elem'[Slot(v)] = elem[Slot(v)])
  BY RemoveKeeps
<1>2. Slot(w) = curr_slot[w] /\ pc[w] = "removing" /\ Slot(w) \in Slots
  BY SlotOf DEF Remove, Slot, Moved, Core
<1>3. PICK i \in Items : i = elem[Slot(w)] /\ i # NoItem
  BY <1>1, ItemsAssumption
<1>4. /\ Goes(w, "moving") /\ finished' = Append(finished, i)
      /\ UNCHANGED <<wait_lst_fq, curr_slot, asl_state, engine, came, work>>
  BY <1>2, <1>3 DEF Remove
<1>5. InCycle /\ InCycle' /\ "moving" \in PCs /\ asl_state' = "IN_PROGRESS"
  BY <1>2, <1>4, AtWork DEF Core, PCs, InCycle, PhasesOK
<1>6. pc'[w] = "moving" /\ \A v \in Workers \ {w} : pc'[v] = pc[v]
  BY <1>2, <1>4, <1>5, GoesIs DEF Core
<1>7. \A v \in Workers : Worked(v)' <=> Worked(v)
  BY <1>2, <1>5, <1>6 DEF Worked
<1>8. /\ came \in Seq(Items) /\ wait_lst_fq \in Seq(Items) /\ finished \in Seq(Items)
      /\ Len(came) \in Nat /\ Len(wait_lst_fq) \in Nat /\ Len(finished) \in Nat
      /\ \A k \in DOMAIN came : k \in Nat /\ came[k] \in Items /\ came[k] # NoItem
      /\ DOMAIN came = 1..Len(came)
  BY CameIs
<1>9. PICK n \in DOMAIN came :
          came[n] = i /\ Len(finished) < n /\ n <= Len(came) - Len(wait_lst_fq)
  BY <1>2, <1>3 DEF InOrder, Divided, Filled
<1>10. n = Len(finished) + 1
  <2> SUFFICES ASSUME n # Len(finished) + 1 PROVE FALSE
    OBVIOUS
  <2>1. PICK m \in DOMAIN came : m = Len(finished) + 1 /\ m < n
    BY <1>8, <1>9
  <2>2. Len(finished) < m /\ m <= Len(came) - Len(wait_lst_fq)
    BY <1>8, <1>9, <2>1
  <2>3. PICK s \in Filled : elem[s] = came[m]
    BY <2>2 DEF InOrder, Divided
  <2>4. PICK v \in Workers : Slot(v) = s
    BY <2>3, SlotOf DEF Filled, Core
  <2>5. came[m] # came[n]
    BY <1>8, <2>1 DEF InOrder, Divided
  <2>6. v # w
    BY <1>3, <1>9, <2>3, <2>4, <2>5
  <2>7. v < w
    BY <1>1, <2>6, SlotsAre
  <2>8. n < m
    BY <1>3, <1>9, <2>3, <2>4, <2>7 DEF InOrder, Ordered
  <2> QED BY <1>8, <2>1, <2>8
<1>11. /\ Len(finished') = n /\ finished' \in Seq(Items)
       /\ \A k \in DOMAIN finished' : k \in DOMAIN finished \/ k = n
       /\ \A k \in DOMAIN finished : finished'[k] = finished[k]
       /\ finished'[n] = i
  BY <1>4, <1>8, <1>10, ElementsAre
<1>12. /\ \A s \in Filled' : s \in Filled /\ elem'[s] = elem[s] /\ elem[s] # i
       /\ \A s \in Filled : s # Slot(w) => s \in Filled' /\ elem'[s] = elem[s]
  <2> SUFFICES ASSUME NEW s \in Slots
               PROVE  /\ elem'[s] # NoItem => elem'[s] = elem[s] /\ elem[s] # i
                      /\ elem[s] # NoItem /\ s # Slot(w) => elem'[s] = elem[s]
    BY DEF Filled
  <2>1. PICK v \in Workers : Slot(v) = s
    BY SlotOf DEF Core
  <2> QED BY <1>1, <1>3, <2>1, OneSlotEach
<1>13. Divided'
  <2>1. /\ \A j, k \in DOMAIN came' : came'[j] = came'[k] => j = k
        /\ \A k \in DOMAIN wait_lst_fq' :
               wait_lst_fq'[k] = came'[Len(came') - Len(wait_lst_fq') + k]
    BY <1>4 DEF InOrder, Divided
  <2>2. \A k \in DOMAIN finished' : k \in DOMAIN came' /\ finished'[k] = came'[k]
    BY <1>4, <1>9, <1>11 DEF InOrder, Divided
  <2>3. ASSUME NEW s \in Filled'
        PROVE  \E k \in DOMAIN came' : /\ came'[k] = elem'[s] /\ Len(finished') < k
                                       /\ k <= Len(came') - Len(wait_lst_fq')
    <3>1. s \in Filled /\ elem'[s] = elem[s] /\ elem[s] # i
      BY <1>12, <2>3
    <3>2. PICK k \in DOMAIN came : came[k] = elem[s] /\ Len(finished) < k
                                   /\ k <= Len(came) - Len(wait_lst_fq)
      BY <3>1 DEF InOrder, Divided
    <3>3. k # n
      BY <1>9, <3>1, <3>2
    <3>4. Len(finished') < k
      BY <1>8, <1>10, <1>11, <3>2, <3>3
    <3> QED BY <1>4, <3>1, <3>2, <3>4
  <2>4. ASSUME NEW k \in DOMAIN came', Len(finished') < k, k <= Len(came') - Len(wait_lst_fq')
        PROVE  \E s \in Filled' : elem'[s] = came'[k]
    <3>1. k \in DOMAIN came /\ k # n /\ Len(finished) < k /\ k <= Len(came) - Len(wait_lst_fq)
      BY <1>4, <1>8, <1>10, <1>11, <2>4
    <3>2. PICK s \in Filled : elem[s] = came[k]
      BY <3>1 DEF InOrder, Divided
    <3>3. came[k] # i
      BY <1>9, <3>1 DEF InOrder, Divided
    <3>4. s # Slot(w)
      BY <1>3, <3>2, <3>3
    <3> QED BY <1>4, <1>12, <3>2, <3>4
  <2> QED BY <2>1, <2>2, <2>3, <2>4 DEF Divided
<1>14. Ordered'
  <2> SUFFICES ASSUME NEW u \in Workers, NEW v \in Workers,
                      NEW j \in DOMAIN came, NEW k \in DOMAIN came, u < v,
                      came[j] = elem'[Slot(u)], came[k] = elem'[Slot(v)]
               PROVE  k < j
    BY <1>1, <1>4 DEF Ordered
  <2>1. u # w /\ v # w
    BY <1>1, <1>8
  <2> QED BY <1>1, <2>1 DEF InOrder, Ordered
<1>15. Staged'
  <2>1. ASSUME NEW v \in Workers, elem'[Slot(v)] # NoItem
        PROVE  Len(work[elem'[Slot(v)]]) = IF Worked(v)' THEN v + 1 ELSE v
    <3>1. v # w
      BY <1>1, <2>1
    <3> QED BY <1>1, <1>7, <2>1, <3>1 DEF InOrder, Staged
  <2> QED BY <1>1, <1>4, <2>1 DEF InOrder, Staged, Untried
<1>16. LastSlotFree'
  BY <1>1, <1>5 DEF LastSlotFree
<1> QED BY <1>3, <1>4, <1>9, <1>10, <1>13, <1>14, <1>15, <1>16 DEF InOrder

\* A client that is not hasty finds an empty line at rest, or makes its item
\* the last one that waits.
LEMMA PushOrder ==
    ASSUME Core, InOrder, ~hasty, NEW i \in Items, Push(i), UNCHANGED hasty
    PROVE  InOrder'
<1>1. /\ Untried(i) /\ EngineStart /\ came' = Append(came, i) /\ i # NoItem
      /\ UNCHANGED <<curr_slot, pc, work, finished>>
  BY ItemsAssumption DEF Push, Pushes
<1>2. /\ came \in Seq(Items) /\ wait_lst_fq \in Seq(Items) /\ finished \in Seq(Items)
      /\ Len(came) \in Nat /\ Len(wait_lst_fq) \in Nat /\ Len(finished) \in Nat
      /\ count \in Nat /\ Len(came) = count + Len(wait_lst_fq) + Len(finished)
      /\ \A k \in DOMAIN came : k \in Nat /\ came[k] \in Items /\ came[k] # NoItem
      /\ DOMAIN came = 1..Len(came)
  BY CameIs
<1>3. PICK n \in Nat : n = Len(came) + 1
  BY <1>2
<1>4. /\ Len(came') = n /\ n \in DOMAIN came' /\ came'[n] = i
      /\ \A k \in DOMAIN came : k \in DOMAIN came' /\ came'[k] = came[k] /\ k # n
      /\ \A k \in DOMAIN came' : k \in DOMAIN came \/ k = n
  BY <1>1, <1>2, <1>3, ElementsAre
<1>5. InCycle' = InCycle /\ \A w \in Workers : Slot(w)' = Slot(w) /\ (Worked(w)' <=> Worked(w))
  <2>1. InCycle' = InCycle
    BY <1>1 DEF EngineStart, InCycle
  <2> QED BY <1>1, <2>1 DEF Slot, Moved, Worked
<1>6. /\ \A j, k \in DOMAIN came' : came'[j] = came'[k] => j = k
      /\ \A k \in DOMAIN finished' : k \in DOMAIN came' /\ finished'[k] = came'[k]
      /\ \A j \in Items : Untried(j)' => Untried(j) /\ work'[j] = <<>>
      /\ work[i] = <<>>
  <2>1. \A k \in DOMAIN came : came[k] # i
    BY <1>1 DEF Untried
  <2>2. \A j, k \in DOMAIN came' : came'[j] = came'[k] => j = k
    BY <1>4, <2>1 DEF InOrder, Divided
  <2>3. \A k \in DOMAIN finished' : k \in DOMAIN came' /\ finished'[k] = came'[k]
    BY <1>1, <1>4 DEF InOrder, Divided
  <2>4. \A j \in Items : Untried(j)' => Untried(j) /\ work'[j] = <<>>
    BY <1>1, <1>4 DEF InOrder, Staged, Untried
  <2>5. work[i] = <<>>
    BY <1>1 DEF InOrder, Staged
  <2> QED BY <2>2, <2>3, <2>4, <2>5
<1>7. CASE count = 0
  <2>1. PICK s \in Slots : s = curr_slot[T0]
    BY SlotsAre DEF Core, VariablesTyped
  <2>2. /\ asl_state # "IN_PROGRESS" /\ elem[s] = NoItem /\ Replace(s, i)
        /\ wait_lst_fq' = wait_lst_fq
    BY <1>7, <2>1 DEF Push, Pushes, SlotFree, Enqueue
  <2>3. ~InCycle /\ ~InCycle' /\ wait_lst_fq = <<>> /\ Filled = {}
    <3>1. Filled = {}
      BY <1>7, CountIs DEF Core, Conserved
    <3> QED BY <1>5, <1>7, <2>2, <3>1 DEF Core, PhasesOK, InOrder, LastSlotFree
  <2>4. elem'[s] = i /\ (\A r \in Slots \ {s} : elem'[r] = elem[r]) /\ count' # 0
    <3>1. elem'[s] = i /\ (\A r \in Slots \ {s} : elem'[r] = elem[r]) /\ count' = count + 1
      BY <1>1, <2>2, ReplaceCounts DEF Core, Conserved
    <3> QED BY <1>7, <3>1
  <2>5. Filled' = {s} /\ Len(came) = Len(finished) /\ Len(wait_lst_fq) = 0
    <3>1. Filled' = {s}
      BY <1>1, <2>3, <2>4 DEF Filled
    <3> QED BY <1>2, <1>7, <2>3, <3>1
  <2>6. Slot(T0) = s /\ \A w \in Workers : w # T0 => elem'[Slot(w)] = NoItem
    <3>1. Slot(T0) = s
      BY <2>1, <2>3 DEF Slot, Moved
    <3>2. \A w \in Workers : w # T0 => Slot(w) \in Slots \ {s}
      BY <3>1, SlotOf, SlotsAre DEF Core
    <3>3. \A r \in Slots : elem[r] = NoItem
      BY <2>3 DEF Filled
    <3> QED BY <2>4, <3>1, <3>2, <3>3
  <2>7. Divided'
    <3>1. \A k \in DOMAIN wait_lst_fq' : FALSE
      BY <2>2, <2>3
    <3>2. n <= Len(came') - Len(wait_lst_fq') /\ Len(finished') < n
      BY <1>1, <1>2, <1>3, <1>4, <2>2, <2>5
    <3>3. \A r \in Filled' : /\ came'[n] = elem'[r] /\ Len(finished') < n
                             /\ n <= Len(came') - Len(wait_lst_fq')
      BY <1>4, <2>4, <2>5, <3>2
    <3>4. \A k \in DOMAIN came' : Len(finished') < k => k = n
      BY <1>1, <1>2, <1>4, <2>5
    <3> QED BY <1>4, <1>6, <2>4, <2>5, <3>1, <3>3, <3>4 DEF Divided
  <2>8. Ordered'
    <3> SUFFICES ASSUME NEW v \in Workers, NEW w \in Workers, NEW k \in DOMAIN came', v < w,
                        came'[k] = elem'[Slot(w)]
                 PROVE  FALSE
      BY <1>5 DEF Ordered
    <3>1. w # T0
      BY SlotsAre DEF T0
    <3>2. came'[k] # NoItem
      BY <1>1, <1>2, <1>4
    <3> QED BY <2>6, <3>1, <3>2
  <2>9. Staged'
    <3>1. ASSUME NEW w \in Workers, elem'[Slot(w)] # NoItem
          PROVE  Len(work'[elem'[Slot(w)]]) = IF Worked(w)' THEN w + 1 ELSE w
      <4>1. w = T0 /\ elem'[Slot(w)] = i
        BY <2>4, <2>6, <3>1
      <4>2. ~Worked(w)' /\ work'[i] = <<>>
        BY <1>1, <1>6, <2>3 DEF Worked
      <4> QED BY <4>1, <4>2 DEF T0
    <3>2. \A k \in DOMAIN wait_lst_fq' : FALSE
      BY <2>2, <2>3
    <3> QED BY <1>5, <1>6, <3>1, <3>2 DEF Staged
  <2>10. LastSlotFree'
    BY <2>3, <2>4 DEF LastSlotFree
  <2> QED BY <2>7, <2>8, <2>9, <2>10 DEF InOrder
<1>8. CASE count # 0
  <2>1. wait_lst_fq' = Append(wait_lst_fq, i) /\ UNCHANGED <<elem, count>>
    BY <1>8 DEF Push, FifoEnqueue
  <2>2. PICK m \in Nat : m = Len(wait_lst_fq) + 1
    BY <1>2
  <2>3. /\ Len(wait_lst_fq') = m /\ wait_lst_fq'[m] = i
        /\ \A k \in DOMAIN wait_lst_fq : wait_lst_fq'[k] = wait_lst_fq[k]
        /\ \A k \in DOMAIN wait_lst_fq' : k \in DOMAIN wait_lst_fq \/ k = m
    BY <1>2, <2>1, <2>2, ElementsAre
  <2>4. PICK d \in Nat : /\ d = Len(came) - Len(wait_lst_fq)
                         /\ d = Len(came') - Len(wait_lst_fq') /\ d + m = n /\ d < n
    <3>1. Len(came) - Len(wait_lst_fq) \in Nat
      <4> QED BY <1>2
    <3>2. /\ Len(came') = Len(came) + 1 /\ Len(wait_lst_fq') = Len(wait_lst_fq) + 1
          /\ n = Len(came) + 1 /\ m = Len(wait_lst_fq) + 1
          /\ Len(came) \in Nat /\ Len(wait_lst_fq) \in Nat
      BY <1>2, <1>3, <1>4, <2>2, <2>3
    <3>3. PICK d \in Nat : d = Len(came) - Len(wait_lst_fq)
      BY <3>1
    <3>4. d = Len(came') - Len(wait_lst_fq') /\ d + m = n /\ d < n
      BY <3>2, <3>3
    <3> QED BY <3>3, <3>4
  <2>5. Divided'
    <3>1. \A k \in DOMAIN wait_lst_fq' :
              wait_lst_fq'[k] = came'[Len(came') - Len(wait_lst_fq') + k]
      <4> SUFFICES ASSUME NEW k \in DOMAIN wait_lst_fq' PROVE wait_lst_fq'[k] = came'[d + k]
        BY <2>4
      <4>1. CASE k = m
        BY <1>4, <2>3, <2>4, <4>1
      <4>2. CASE k \in DOMAIN wait_lst_fq
        <5>1. d + k \in DOMAIN came /\ wait_lst_fq[k] = came[d + k]
          BY <2>4, <4>2, WaitAt DEF InOrder, Divided
        <5> QED BY <1>4, <2>3, <4>2, <5>1
      <4> QED BY <2>3, <4>1, <4>2
    <3>2. \A s \in Filled' : \E k \in DOMAIN came' :
              /\ came'[k] = elem'[s] /\ Len(finished') < k
              /\ k <= Len(came') - Len(wait_lst_fq')
      <4> SUFFICES ASSUME NEW s \in Filled
                   PROVE  \E k \in DOMAIN came' :
                              came'[k] = elem[s] /\ Len(finished) < k /\ k <= d
        BY <1>1, <2>1, <2>4 DEF Filled
      <4>1. PICK k \in DOMAIN came : came[k] = elem[s] /\ Len(finished) < k /\ k <= d
        BY <2>4 DEF InOrder, Divided
      <4> QED BY <1>4, <4>1
    <3>3. ASSUME NEW k \in DOMAIN came', Len(finished') < k, k <= Len(came') - Len(wait_lst_fq')
          PROVE  \E s \in Filled' : elem'[s] = came'[k]
      <4>1. k \in DOMAIN came /\ Len(finished) < k /\ k <= Len(came) - Len(wait_lst_fq)
        BY <1>1, <1>2, <1>3, <1>4, <2>4, <3>3
      <4>2. \E s \in Filled : elem[s] = came[k]
        BY <4>1 DEF InOrder, Divided
      <4> QED BY <1>4, <2>1, <4>1, <4>2 DEF Filled
    <3> QED BY <1>6, <3>1, <3>2, <3>3 DEF Divided
  <2>6. \A w \in Workers : \A k \in DOMAIN came' :
            came'[k] = elem'[Slot(w)] => k \in DOMAIN came
    <3> SUFFICES ASSUME NEW w \in Workers, i = elem[Slot(w)] PROVE FALSE
      BY <1>4, <2>1
    <3>1. Slot(w) \in Filled
      BY <1>1, SlotOf DEF Filled, Core
    <3> QED BY <1>1, <3>1 DEF InOrder, Divided, Untried
  <2>7. Ordered'
    BY <1>4, <1>5, <2>1, <2>6 DEF InOrder, Ordered
  <2>8. Staged'
    <3>1. \A k \in DOMAIN wait_lst_fq' : work'[wait_lst_fq'[k]] = <<>>
      BY <1>1, <1>6, <2>3 DEF InOrder, Staged
    <3>2. \A w \in Workers : elem'[Slot(w)'] # NoItem =>
              Len(work'[elem'[Slot(w)']]) = IF Worked(w)' THEN w + 1 ELSE w
      BY <1>1, <1>5, <2>1 DEF InOrder, Staged
    <3> QED BY <1>6, <3>1, <3>2 DEF Staged
  <2>9. LastSlotFree'
    BY <1>1, <1>5, <1>8, <2>1, SlotsAre DEF InOrder, LastSlotFree
  <2> QED BY <2>5, <2>7, <2>8, <2>9 DEF InOrder
<1> QED BY <1>7, <1>8

\* The worker before the one that leaves the line has left its slot empty.
LEMMA FreeAtEnd ==
    ASSUME Core, CycleDone, LastSlotFree
    PROVE  SlotFree
<1>1. InCycle /\ pc[Tn] = "asleep" /\ Moved(T0)
  BY CycleEnds, SlotsAre
<1>2. PICK b \in Slots : b = Slot(T0)
  BY SlotOf, SlotsAre DEF Core
<1>3. PICK s \in Slots : s = curr_slot[T0] /\ b = Up(s)
  BY <1>1, <1>2, SlotsAre DEF Core, VariablesTyped, Slot
<1>4. s = Down(b) /\ Slot(Tn) = At(b, Tn)
  <2>1. Down(Up(s)) = s
    BY GoingRound
  <2> QED BY <1>2, <1>3, <2>1, SlotsAre DEF Core, LockStep
<1>5. s = Slot(Tn)
  BY <1>2, <1>4, GoingRound
<1> QED BY <1>1, <1>3, <1>5 DEF LastSlotFree, SlotFree

\* With the next cycle every item goes to the next worker.
LEMMA CycleOrder ==
    ASSUME Core, InOrder, CycleDone, StartCycle, Divided',
           UNCHANGED <<curr_slot, came, work, finished>>,
           \A w \in Workers : w > 0 => elem'[Slot(w)'] = elem[Slot(w - 1)],
           \A k \in DOMAIN wait_lst_fq' : work[wait_lst_fq'[k]] = <<>>,
           elem'[Slot(T0)'] # NoItem =>
               /\ work[elem'[Slot(T0)']] = <<>>
               /\ \A k \in DOMAIN came : came[k] = elem'[Slot(T0)'] =>
                      k > Len(came) - Len(wait_lst_fq)
    PROVE  InOrder'
<1>1. \A w \in Workers : pc[w] = "asleep" /\ Moved(w) /\ Worked(w)
  BY CycleEnds
<1>2. /\ asl_state' = "IN_PROGRESS"
      /\ \A w \in Workers : ~Moved(w)' /\ ~Worked(w)' /\ pc'[w] = "woken"
  BY <1>1, StartIs DEF Core
<1>3. \A w \in Workers : w \in Nat /\ (w > 0 => w - 1 \in Workers) /\ (w = 0 <=> w = T0)
  BY SizeAssumption DEF Workers, T0
<1>4. LastSlotFree'
  BY <1>2, SlotsAre DEF LastSlotFree
<1>5. Ordered'
  <2> SUFFICES ASSUME NEW v \in Workers, NEW w \in Workers,
                      NEW j \in DOMAIN came, NEW k \in DOMAIN came, v < w,
                      came[j] = elem'[Slot(v)'], came[k] = elem'[Slot(w)']
               PROVE  k < j
    BY DEF Ordered
  <2>1. w > 0 /\ w - 1 \in Workers /\ came[k] = elem[Slot(w - 1)]
    BY <1>3
  <2>2. came[j] # NoItem /\ came[k] # NoItem /\ j \in Nat /\ k \in Nat
    BY CameIs
  <2>3. CASE v = T0
    <3>1. j > Len(came) - Len(wait_lst_fq)
      BY <2>2, <2>3
    <3>2. Slot(w - 1) \in Filled
      BY <2>1, <2>2, SlotOf DEF Filled, Core
    <3>3. PICK l \in DOMAIN came : came[l] = came[k] /\ l <= Len(came) - Len(wait_lst_fq)
      BY <2>1, <3>2 DEF InOrder, Divided
    <3>4. l = k
      BY <3>3 DEF InOrder, Divided
    <3> QED BY <2>2, <3>1, <3>3, <3>4, CameIs
  <2>4. CASE v # T0
    <3>1. v > 0 /\ v - 1 \in Workers /\ v - 1 < w - 1
      BY <1>3, <2>1, <2>4
    <3>2. came[j] = elem[Slot(v - 1)]
      BY <3>1
    <3> QED BY <2>1, <3>1, <3>2 DEF InOrder, Ordered
  <2> QED BY <2>3, <2>4
<1>6. Staged'
  <2>1. ASSUME NEW w \in Workers, elem'[Slot(w)'] # NoItem
        PROVE  Len(work[elem'[Slot(w)']]) = w
    <3>1. CASE w = T0
      BY <2>1, <3>1 DEF T0
    <3>2. CASE w # T0
      <4>1. w > 0 /\ w - 1 \in Workers /\ elem'[Slot(w)'] = elem[Slot(w - 1)]
        BY <1>3, <3>2
      <4>2. Len(work[elem[Slot(w - 1)]]) = (w - 1) + 1
        BY <1>1, <2>1, <4>1 DEF InOrder, Staged
      <4> QED BY <1>3, <4>1, <4>2
    <3> QED BY <3>1, <3>2
  <2>2. \A i \in Items : Untried(i)' => work'[i] = <<>>
    BY DEF InOrder, Staged, Untried
  <2> QED BY <1>2, <2>1, <2>2 DEF Staged
<1> QED BY <1>4, <1>5, <1>6 DEF InOrder

LEMMA EngineGoesOnOrder ==
    ASSUME Core, InOrder, EngineGoesOn, UNCHANGED hasty
    PROVE  InOrder'
<1>1. PICK s \in Slots : s = curr_slot[T0]
  BY SlotsAre DEF Core, VariablesTyped
<1>2. /\ CycleDone /\ StartCycle
      /\ \/ /\ wait_lst_fq # <<>> /\ wait_lst_fq' = Tail(wait_lst_fq)
            /\ elem[s] = NoItem /\ Replace(s, Head(wait_lst_fq))
         \/ wait_lst_fq = <<>> /\ UNCHANGED <<elem, count, wait_lst_fq>>
      /\ UNCHANGED <<curr_slot, came, work, finished>>
  BY <1>1 DEF EngineGoesOn, FifoDeque, SlotFree, Enqueue, line, history
<1>3. /\ \A w \in Workers : Moved(w) /\ ~Moved(w)'
      /\ InCycle /\ pc[Tn] = "asleep"
  <2>1. \A w \in Workers : pc[w] = "asleep" /\ Moved(w)
    BY <1>2, CycleEnds
  <2>2. \A w \in Workers : ~Moved(w)'
    BY <1>2, <2>1, StartIs DEF Core
  <2> QED BY <1>2, <2>1, <2>2, CycleEnds, SlotsAre
<1>4. /\ LockStep' /\ Slot(T0)' = Slot(Tn)
      /\ \A w \in Workers : w > 0 => w - 1 \in Workers /\ Slot(w)' = Slot(w - 1)
  BY <1>2, <1>3, SlotsShift DEF Core
<1>5. Slot(T0)' = s /\ elem[s] = NoItem
  <2>1. Slot(T0)' = s
    BY <1>1, <1>2, <1>3, SlotsAre DEF Slot
  <2> QED BY <1>3, <1>4, <2>1 DEF InOrder, LastSlotFree
<1>6. \A w \in Workers : w > 0 => Slot(w)' \in Slots \ {s}
  <2>1. \A w \in Workers : w > 0 => w - 1 \in Workers /\ w - 1 # Tn
    BY <1>4, SizeAssumption DEF Tn, Workers
  <2>2. /\ \A v \in Workers : Slot(v) \in Slots
        /\ \A v \in Workers : Slot(v) = Slot(Tn) => v = Tn
    BY SlotOf, SlotsAre DEF Core
  <2>3. \A v \in Workers : v # Tn => Slot(v) \in Slots \ {s}
    BY <1>4, <1>5, <2>2
  <2> QED BY <1>4, <2>1, <2>3
<1>7. CASE /\ wait_lst_fq # <<>> /\ wait_lst_fq' = Tail(wait_lst_fq)
           /\ elem[s] = NoItem /\ Replace(s, Head(wait_lst_fq))
  <2>1. /\ came \in Seq(Items) /\ wait_lst_fq \in Seq(Items) /\ Len(finished) \in Nat
        /\ Len(came) \in Nat /\ Len(wait_lst_fq) \in Nat /\ count \in Nat
        /\ Len(came) = count + Len(wait_lst_fq) + Len(finished)
        /\ DOMAIN came = 1..Len(came) /\ DOMAIN wait_lst_fq = 1..Len(wait_lst_fq)
    BY CameIs
  <2>2. PICK i \in Items : i = Head(wait_lst_fq) /\ i # NoItem
    BY <1>7, <2>1, TailIs, ItemsAssumption
  <2>3. /\ 1 \in DOMAIN wait_lst_fq /\ i = wait_lst_fq[1]
        /\ Len(wait_lst_fq) = Len(wait_lst_fq') + 1 /\ wait_lst_fq' \in Seq(Items)
        /\ \A k \in DOMAIN wait_lst_fq' :
               k + 1 \in DOMAIN wait_lst_fq /\ wait_lst_fq'[k] = wait_lst_fq[k + 1]
        /\ \A k \in DOMAIN wait_lst_fq' : k \in Nat
    BY <1>7, <2>1, <2>2, TailIs
  <2>4. elem'[s] = i /\ \A r \in Slots \ {s} : elem'[r] = elem[r]
    BY <1>7, <2>2, ReplaceCounts DEF Core, Conserved
  <2>5. PICK d \in Nat : d = Len(came) - Len(wait_lst_fq)
    <3>1. Len(came) - Len(wait_lst_fq) \in Nat
      BY <2>1
    <3> QED BY <3>1
  <2>6. /\ d + 1 \in DOMAIN came /\ came[d + 1] = i /\ Len(finished) <= d
        /\ Len(came) - Len(wait_lst_fq') = d + 1
    <3>1. d + 1 \in DOMAIN came /\ came[d + 1] = i
      BY <2>3, <2>5, WaitAt DEF InOrder, Divided
    <3>2. Len(finished) <= d
      BY <2>1, <2>5
    <3>3. PICK l \in Nat : l = Len(wait_lst_fq')
      BY <2>3
    <3>4. Len(came) - l = d + 1
      <4>1. PICK b, m : b = Len(came) /\ m = Len(wait_lst_fq)
        OBVIOUS
      <4>2. b \in Nat /\ m \in Nat /\ l \in Nat /\ m = l + 1 /\ d = b - m
        BY <2>1, <2>3, <2>5, <3>3, <4>1
      <4>3. b - l = d + 1
        BY <4>2
      <4> QED BY <4>1, <4>3
    <3> QED BY <3>1, <3>2, <3>3, <3>4
  <2>7. Filled' = Filled \cup {s}
    BY <1>7, <2>2, <2>4 DEF Filled
  <2>8. Divided'
    <3>1. \A k \in DOMAIN wait_lst_fq' :
              wait_lst_fq'[k] = came'[Len(came') - Len(wait_lst_fq') + k]
      <4> SUFFICES ASSUME NEW k \in DOMAIN wait_lst_fq'
                   PROVE  wait_lst_fq'[k] = came[(d + 1) + k]
        BY <1>2, <2>6
      <4>1. wait_lst_fq'[k] = came[d + (k + 1)]
        BY <2>3, <2>5 DEF InOrder, Divided
      <4>2. k \in Nat /\ d + (k + 1) = (d + 1) + k
        BY <2>3, <2>5
      <4> QED BY <4>1, <4>2
    <3>2. ASSUME NEW r \in Filled'
          PROVE  \E k \in DOMAIN came' : /\ came'[k] = elem'[r] /\ Len(finished') < k
                                         /\ k <= Len(came') - Len(wait_lst_fq')
      <4>1. CASE r = s
        <5>1. Len(finished) < d + 1 /\ d + 1 <= d + 1
          BY <2>1, <2>6
        <5> QED BY <1>2, <2>4, <2>6, <4>1, <5>1
      <4>2. CASE r # s
        <5>1. r \in Filled /\ elem'[r] = elem[r]
          BY <2>4, <2>7, <4>2 DEF Filled
        <5>2. PICK k \in DOMAIN came : came[k] = elem[r] /\ Len(finished) < k /\ k <= d
          BY <2>5, <5>1 DEF InOrder, Divided
        <5>3. k \in Nat /\ k <= d + 1
          BY <2>1, <5>2
        <5> QED BY <1>2, <2>6, <5>1, <5>2, <5>3
      <4> QED BY <4>1, <4>2
    <3>3. ASSUME NEW k \in DOMAIN came', Len(finished') < k, k <= Len(came') - Len(wait_lst_fq')
          PROVE  \E r \in Filled' : elem'[r] = came'[k]
      <4>1. k \in DOMAIN came /\ k \in Nat /\ Len(finished) < k /\ k <= d + 1
        BY <1>2, <2>1, <2>6, <3>3
      <4>2. CASE k = d + 1
        BY <1>2, <2>4, <2>6, <2>7, <4>2
      <4>3. CASE k # d + 1
        <5>1. PICK r \in Filled : elem[r] = came[k]
          BY <2>5, <4>1, <4>3 DEF InOrder, Divided
        <5>2. r # s /\ r \in Slots
          BY <1>7, <5>1 DEF Filled
        <5> QED BY <1>2, <2>4, <2>7, <5>1, <5>2
      <4> QED BY <4>2, <4>3
    <3> QED BY <1>2, <3>1, <3>2, <3>3 DEF InOrder, Divided
  <2>9. \A k \in DOMAIN wait_lst_fq' : work[wait_lst_fq'[k]] = <<>>
    BY <2>3 DEF InOrder, Staged
  <2>10. /\ work[i] = <<>>
         /\ \A k \in DOMAIN came : came[k] = i => k > Len(came) - Len(wait_lst_fq)
    <3>1. work[i] = <<>>
      BY <2>3 DEF InOrder, Staged
    <3>2. \A k \in DOMAIN came : came[k] = i => k = d + 1
      BY <2>6 DEF InOrder, Divided
    <3> QED BY <2>5, <3>1, <3>2
  <2>11. \A w \in Workers : w > 0 => elem'[Slot(w)'] = elem[Slot(w - 1)]
    BY <1>4, <1>6, <2>4
  <2> QED BY <1>2, <1>5, <2>4, <2>8, <2>9, <2>10, <2>11, CycleOrder
<1>8. CASE wait_lst_fq = <<>> /\ UNCHANGED <<elem, count, wait_lst_fq>>
  <2>1. Divided'
    BY <1>2, <1>8 DEF InOrder, Divided, Filled
  <2>2. \A w \in Workers : w > 0 => elem'[Slot(w)'] = elem[Slot(w - 1)]
    BY <1>4, <1>8
  <2>3. \A k \in DOMAIN wait_lst_fq' : work[wait_lst_fq'[k]] = <<>>
    BY <1>8
  <2>4. elem'[Slot(T0)'] = NoItem
    BY <1>5, <1>8
  <2> QED BY <1>2, <2>1, <2>2, <2>3, <2>4, CycleOrder
<1> QED BY <1>2, <1>7, <1>8

\* An empty line stays in order when it comes to a halt.
LEMMA EngineHaltsOrder ==
    ASSUME Core, InOrder, EngineHalts, UNCHANGED hasty
    PROVE  InOrder'
<1>1. /\ wait_lst_fq = <<>> /\ count = 0 /\ engine' = "halted"
      /\ UNCHANGED <<elem, count, wait_lst_fq, came, work, finished>>
  BY DEF EngineHalts, line, history
<1>2. Core' /\ ~InCycle'
  BY <1>1, EngineHaltsKeeps DEF InCycle
<1>3. \A s \in Slots : elem'[s] = NoItem
  BY <1>1, CountIs DEF Core, Conserved, Filled
<1>4. \A w \in Workers : elem'[Slot(w)'] = NoItem
  <2>1. \A w \in Workers : curr_slot'[w] \in Slots
    BY <1>2 DEF Core, VariablesTyped
  <2>2. \A w \in Workers : Slot(w)' = curr_slot'[w]
    BY <1>2 DEF Slot, Moved
  <2> QED BY <1>3, <2>1, <2>2
<1>5. LastSlotFree' /\ Divided'
  BY <1>1, <1>2 DEF InOrder, LastSlotFree, Divided, Filled
<1>6. Ordered'
  BY <1>1, <1>4, CameIs DEF Ordered
<1>7. Staged'
  <2>1. \A i \in Items : Untried(i)' => work'[i] = <<>>
    BY <1>1 DEF InOrder, Staged, Untried
  <2> QED BY <1>1, <1>4, <2>1 DEF Staged
<1> QED BY <1>5, <1>6, <1>7 DEF InOrder

-----------------------------------------------------------------------------
(* The theorems *)

LEMMA InitOrder == Init => InOrder
<1> SUFFICES ASSUME Init PROVE InOrder
  OBVIOUS
<1> USE DEF Init
<1>1. \A w \in Workers : elem[Slot(w)] = NoItem
  <2>1. \A w \in Workers : Slot(w) = w /\ w \in Slots
    BY SlotsAre DEF Slot, Moved, InCycle
  <2> QED BY <2>1
<1>2. LastSlotFree
  BY DEF LastSlotFree, InCycle
<1>3. Divided
  BY DEF Divided, Filled
<1>4. Ordered
  BY DEF Ordered
<1>5. Staged
  BY <1>1 DEF Staged
<1> QED BY <1>2, <1>3, <1>4, <1>5 DEF InOrder

\* Without hasty clients the asserts hold.
LEMMA AssertsHold ==
    ASSUME Core, InOrder
    PROVE  /\ ~EngineFails
           /\ ~hasty => \A i \in Items : ~PushFails(i)
<1>1. ~EngineFails
  BY FreeAtEnd DEF EngineFails, InOrder
<1>2. ASSUME ~hasty, NEW i \in Items, PushFails(i) PROVE FALSE
  <2>1. count = 0 /\ ~SlotFree
    BY <1>2 DEF PushFails, Pushes
  <2>2. \A s \in Slots : elem[s] = NoItem
    BY <2>1, CountIs DEF Core, Conserved, Filled
  <2>3. curr_slot[T0] \in Slots
    BY SlotsAre DEF Core, VariablesTyped
  <2> QED BY <2>1, <2>2, <2>3 DEF SlotFree
<1> QED BY <1>1, <1>2

LEMMA WorkerKeeps ==
    ASSUME IInv, NEW w \in Workers, Worker(w)
    PROVE  IInv'
<1>1. Core /\ UNCHANGED hasty /\ (hasty \/ (InOrder /\ outcome = "running"))
  BY DEF IInv, Worker, Runs
<1>2. CASE WorkerReady(w)
  BY <1>1, <1>2, WorkerReadyKeeps, WorkerReadyOrder DEF IInv, WorkerReady
<1>3. CASE Look(w)
  BY <1>1, <1>3, LookKeeps, LookOrder DEF IInv, Look
<1>4. CASE Work(w)
  BY <1>1, <1>4, WorkKeeps, WorkOrder DEF IInv, Work
<1>5. CASE Remove(w)
  BY <1>1, <1>5, RemoveKeeps, RemoveOrder DEF IInv, Remove
<1>6. CASE Move(w)
  BY <1>1, <1>6, MoveKeeps, MoveOrder DEF IInv, Move
<1>7. CASE Report(w)
  BY <1>1, <1>7, ReportKeeps, ReportOrder DEF IInv, Report
<1> QED BY <1>2, <1>3, <1>4, <1>5, <1>6, <1>7 DEF Worker

LEMMA EngineKeeps ==
    ASSUME IInv, Engine
    PROVE  IInv'
<1>1. Core /\ UNCHANGED hasty /\ (hasty \/ (InOrder /\ outcome = "running"))
  BY DEF IInv, Engine, Runs
<1>2. CASE EngineBegins
  BY <1>1, <1>2, EngineBeginsKeeps, EngineBeginsOrder DEF IInv, EngineBegins
<1>3. CASE EngineWaitsOn
  <2>1. /\ UNCHANGED <<elem, count, wait_lst_fq, curr_slot, asl_state, pc, came, work,
                       finished>>
        /\ InCycle' = InCycle /\ outcome' = outcome
    BY <1>3 DEF EngineWaitsOn, line, history, InCycle
  <2> QED BY <1>1, <1>3, <2>1, EngineWaitsOnKeeps, PausesOrder DEF IInv
<1>4. CASE EngineGoesOn
  BY <1>1, <1>4, EngineGoesOnKeeps, EngineGoesOnOrder DEF IInv, EngineGoesOn
<1>5. CASE EngineFails
  BY <1>1, <1>5, AssertFailsKeeps, AssertsHold DEF IInv, EngineFails
<1>6. CASE EngineHalts
  BY <1>1, <1>6, EngineHaltsKeeps, EngineHaltsOrder DEF IInv, EngineHalts
<1> QED BY <1>2, <1>3, <1>4, <1>5, <1>6 DEF Engine

LEMMA ClientKeeps ==
    ASSUME IInv, Client \/ (Runs /\ SpuriousWakeup)
    PROVE  IInv'
<1>1. Core /\ UNCHANGED hasty /\ (hasty \/ (InOrder /\ outcome = "running"))
  BY DEF IInv, Client, Runs
<1>2. CASE MainWaits \/ SpuriousWakeup
  <2>1. /\ UNCHANGED <<elem, count, wait_lst_fq, curr_slot, asl_state, pc, came, work,
                       finished>>
        /\ InCycle' = InCycle /\ outcome' = outcome
    BY <1>2 DEF MainWaits, SpuriousWakeup, line, history, InCycle
  <2> QED BY <1>1, <1>2, <2>1, MainWaitsKeeps, SpuriousWakeupKeeps, PausesOrder DEF IInv
<1>3. CASE \E i \in Items : Push(i)
  BY <1>1, <1>3, PushKeeps, PushOrder DEF IInv, Push
<1>4. CASE \E i \in Items : PushFails(i)
  BY <1>1, <1>4, AssertFailsKeeps, AssertsHold DEF IInv, PushFails
<1> QED BY <1>2, <1>3, <1>4 DEF Client

LEMMA StutterKeeps ==
    ASSUME IInv, UNCHANGED vars
    PROVE  IInv'
<1>1. UNCHANGED <<hasty, elem, count, wait_lst_fq, curr_slot, n_workers_ready, asl_state, pc,
                  engine, main, came, work, finished, outcome>>
  BY DEF vars, line, history
<1>2. Core'
  <2>1. Core /\ InCycle' = InCycle
    BY <1>1 DEF IInv, InCycle
  <2>2. VariablesTyped' /\ ItemsFound'
    BY <1>1, <2>1 DEF Core, VariablesTyped, ItemsFound
  <2>3. Conserved'
    BY <1>1, <2>1, QueuesStay DEF Core, line
  <2> QED BY <1>1, <2>1, <2>2, <2>3, PausesKeep DEF Core, PhasesOK
<1>3. InOrder => InOrder'
  BY <1>1, PausesOrder DEF IInv, InCycle
<1> QED BY <1>1, <1>2, <1>3 DEF IInv

\* The strengthening of the invariants below is inductive: the workers go round
\* in lock step and take the items in the order in which they came.
THEOREM Invariant == Spec => []IInv
<1>1. Init => IInv
  BY InitCore, InitOrder DEF IInv, Init
<1>2. IInv /\ [Next]_vars => IInv'
  BY WorkerKeeps, EngineKeeps, ClientKeeps, StutterKeeps DEF Next, Finished
<1> QED BY <1>1, <1>2, PTL DEF Spec

\* The variables of the line stay in their ranges, for hasty clients too: no
\* more workers are ready than there are, and no more slots filled.
THEOREM TypeCorrect == Spec => []TypeOK
<1>1. IInv => TypeOK
  <2> SUFFICES ASSUME IInv PROVE TypeOK
    OBVIOUS
  <2>1. VariablesTyped /\ n_workers_ready = Cardinality(Asleep) /\ count = Cardinality(Filled)
    BY DEF IInv, Core, PhasesOK, Conserved
  <2>2. n_workers_ready \in 0..asl_size /\ count \in 0..asl_size
    BY <2>1, AllAsleep, CountIs
  <2> QED BY <2>1, <2>2 DEF VariablesTyped, TypeOK
<1> QED BY <1>1, Invariant, PTL

\* Whenever clients push, no item that came is lost or is in two places, and no
\* two workers work on one item; an assert fails only if a client is hasty.
THEOREM NoItemIsLost == Spec => []NothingLost
<1>1. IInv => NothingLost
  <2> SUFFICES ASSUME IInv PROVE NothingLost
    OBVIOUS
  <2>1. Core /\ Conserved /\ (~hasty => outcome = "running")
    BY DEF IInv, Core
  <2>2. ASSUME NEW v \in Workers, NEW w \in Workers, v # w,
               {pc[v], pc[w]} \subseteq {"working", "removing"}
        PROVE  curr_slot[v] # curr_slot[w]
    <3>1. Slot(v) = curr_slot[v] /\ Slot(w) = curr_slot[w]
      BY <2>2 DEF Slot, Moved
    <3> QED BY <2>1, <2>2, <3>1, SlotOf DEF Core
  <2> QED BY <2>1, <2>2 DEF NothingLost, Conserved
<1> QED BY <1>1, Invariant, PTL

-----------------------------------------------------------------------------
(* The line implements a pipeline *)

\* The items of q after the first f.
LEMMA PartOf ==
    ASSUME NEW q \in Seq(Items), NEW f \in Nat, f <= Len(q)
    PROVE  /\ SubSeq(q, f + 1, Len(q)) \in Seq(Items)
           /\ Len(SubSeq(q, f + 1, Len(q))) = Len(q) - f
           /\ \A k \in 1..(Len(q) - f) : SubSeq(q, f + 1, Len(q))[k] = q[f + k]
<1>1. PICK m \in Nat, n \in Nat : m = f + 1 /\ n = Len(q)
  OBVIOUS
<1>2. \A k \in m..n : q[k] \in Items
  BY <1>1
<1>3. /\ SubSeq(q, m, n) \in Seq(Items)
      /\ Len(SubSeq(q, m, n)) = IF m <= n THEN n - m + 1 ELSE 0
      /\ \A k \in 1..(n - m + 1) : SubSeq(q, m, n)[k] = q[m + k - 1]
  BY <1>2, SubSeqProperties, m \in Int, n \in Int
<1>4. (IF m <= n THEN n - m + 1 ELSE 0) = n - f
  BY <1>1
<1>5. ASSUME NEW k \in 1..(n - f) PROVE SubSeq(q, m, n)[k] = q[f + k]
  <2>1. k \in 1..(n - m + 1) /\ m + k - 1 = f + k
    BY <1>1
  <2> QED BY <1>3, <2>1
<1> QED BY <1>1, <1>3, <1>4, <1>5

LEMMA PartGrows ==
    ASSUME NEW q \in Seq(Items), NEW f \in Nat, f <= Len(q), NEW i \in Items
    PROVE  SubSeq(Append(q, i), f + 1, Len(Append(q, i))) =
               Append(SubSeq(q, f + 1, Len(q)), i)
<1>1. PICK n \in Nat : n = Len(q) /\ f <= n
  OBVIOUS
<1>2. PICK r \in Seq(Items) : r = Append(q, i)
  BY ElementsAre
<1>3. Len(r) = n + 1 /\ r[n + 1] = i /\ \A k \in 1..n : r[k] = q[k]
  BY <1>1, <1>2
<1>4. PICK p \in Seq(Items) : p = SubSeq(q, f + 1, Len(q))
  BY PartOf
<1>5. Len(p) = n - f /\ \A k \in 1..(n - f) : p[k] = q[f + k]
  BY <1>1, <1>4, PartOf
<1>6. f <= Len(r)
  BY <1>1, <1>3
<1>7. PICK s \in Seq(Items) : s = SubSeq(r, f + 1, Len(r))
  BY <1>6, PartOf
<1>8. Len(s) = n + 1 - f /\ \A k \in 1..(n + 1 - f) : s[k] = r[f + k]
  BY <1>3, <1>6, <1>7, PartOf
<1>9. PICK t \in Seq(Items) : t = Append(p, i)
  BY ElementsAre
<1>10. Len(t) = Len(p) + 1 /\ t[Len(p) + 1] = i /\ \A k \in 1..Len(p) : t[k] = p[k]
  BY <1>9
<1>11. Len(s) = Len(t)
  BY <1>1, <1>5, <1>8, <1>10
<1>12. ASSUME NEW k \in 1..(n + 1 - f) PROVE s[k] = t[k]
  <2>1. CASE k = n - f + 1
    <3>1. f + k = n + 1 /\ k \in 1..(n + 1 - f)
      BY <1>1, <2>1
    <3> QED BY <1>3, <1>5, <1>8, <1>10, <2>1, <3>1
  <2>2. CASE k # n - f + 1
    <3>1. k \in Nat /\ 1 <= k /\ k <= n - f
      BY <1>1, <2>2
    <3>2. k \in 1..(n - f) /\ f + k \in 1..n
      BY <1>1, <3>1
    <3> QED BY <1>3, <1>5, <1>8, <1>10, <3>2
  <2> QED BY <2>1, <2>2
<1>13. s = t
  BY <1>8, <1>11, <1>12, SeqEqual
<1> QED BY <1>2, <1>4, <1>7, <1>9, <1>13

LEMMA PartShrinks ==
    ASSUME NEW q \in Seq(Items), NEW f \in Nat, f < Len(q)
    PROVE  /\ SubSeq(q, f + 1, Len(q)) # <<>>
           /\ Head(SubSeq(q, f + 1, Len(q))) = q[f + 1]
           /\ Tail(SubSeq(q, f + 1, Len(q))) = SubSeq(q, (f + 1) + 1, Len(q))
<1>1. f + 1 \in 1..Len(q) /\ Len(q) \in (f + 1)..Len(q) /\ f <= Len(q)
  OBVIOUS
<1>2. Len(SubSeq(q, f + 1, Len(q))) # 0
  <2>1. Len(SubSeq(q, f + 1, Len(q))) = Len(q) - f
    BY <1>1, PartOf
  <2>2. Len(q) - f # 0
    BY <1>1
  <2> QED BY <2>1, <2>2
<1>3. SubSeq(q, f + 1, Len(q)) # <<>>
  BY <1>2, Len(<<>>) = 0
<1> QED BY <1>1, <1>3, HeadTailOfSubSeq

\* The variables of the pipeline.
Queue == IF hasty THEN <<>> ELSE SubSeq(came, Len(finished) + 1, Len(came))
Behind == [i \in Items |-> IF hasty THEN <<>> ELSE work[i]]
Out == IF hasty THEN <<>> ELSE finished

LEMMA QueueIs ==
    ASSUME Core, ~hasty
    PROVE  /\ Queue = SubSeq(came, Len(finished) + 1, Len(came))
           /\ Behind = work /\ Out = finished
           /\ Queue \in Seq(Items) /\ Len(finished) <= Len(came)
           /\ DOMAIN Queue = 1..(Len(came) - Len(finished))
           /\ \A k \in DOMAIN Queue : Queue[k] = came[Len(finished) + k]
<1>1. /\ came \in Seq(Items) /\ Len(came) \in Nat /\ Len(finished) \in Nat
      /\ Len(wait_lst_fq) \in Nat /\ count \in Nat
      /\ Len(came) = count + Len(wait_lst_fq) + Len(finished)
  BY CameIs
<1>2. Len(finished) <= Len(came)
  BY <1>1
<1>3. Queue = SubSeq(came, Len(finished) + 1, Len(came)) /\ Out = finished
  BY DEF Queue, Out
<1>4. Behind = work
  BY DEF Behind, Core, VariablesTyped
<1>5. /\ Queue \in Seq(Items) /\ Len(Queue) = Len(came) - Len(finished)
      /\ \A k \in 1..(Len(came) - Len(finished)) : Queue[k] = came[Len(finished) + k]
  BY <1>1, <1>2, <1>3, PartOf
<1>6. DOMAIN Queue = 1..Len(Queue)
  BY <1>5
<1> QED BY <1>2, <1>3, <1>4, <1>5, <1>6

\* An item that is pushed comes into the pipeline.
LEMMA PushMaps ==
    ASSUME Core, InOrder, ~hasty, NEW i \in Items, Push(i), UNCHANGED hasty
    PROVE  Abstract!Come(i)
<1>1. Untried(i) /\ came' = Append(came, i) /\ UNCHANGED <<work, finished>>
  BY DEF Push, Pushes
<1>2. /\ Queue = SubSeq(came, Len(finished) + 1, Len(came)) /\ Len(finished) <= Len(came)
      /\ DOMAIN Queue = 1..(Len(came) - Len(finished))
      /\ \A k \in DOMAIN Queue : Queue[k] = came[Len(finished) + k]
      /\ Out = finished
  BY QueueIs
<1>3. /\ came \in Seq(Items) /\ Len(finished) \in Nat /\ Len(came) \in Nat
      /\ DOMAIN came = 1..Len(came)
  BY CameIs
<1>4. \A k \in DOMAIN Queue : Queue[k] # i
  <2> SUFFICES ASSUME NEW k \in 1..(Len(came) - Len(finished)) PROVE Queue[k] # i
    BY <1>2
  <2>1. Len(finished) + k \in DOMAIN came
    BY <1>3
  <2> QED BY <1>1, <1>2, <2>1 DEF Untried
<1>5. \A k \in DOMAIN Out : Out[k] # i
  BY <1>1, <1>2 DEF InOrder, Divided, Untried
<1>6. Queue' = Append(Queue, i)
  <2>1. Queue' = SubSeq(came', Len(finished) + 1, Len(came'))
    BY <1>1 DEF Queue
  <2> QED BY <1>1, <1>2, <1>3, <2>1, PartGrows
<1>7. Behind' = Behind /\ Out' = Out
  BY <1>1 DEF Behind, Out
<1> QED BY <1>4, <1>5, <1>6, <1>7 DEF Abstract!Come, Queue, Behind, Out

\* A worker takes an item through its stage when those before the item are
\* through with it.
LEMMA WorkMaps ==
    ASSUME Core, InOrder, ~hasty, NEW w \in Workers, Work(w), UNCHANGED hasty
    PROVE  \E k \in DOMAIN Queue : Abstract!GoOn(k)
<1>1. PICK i \in Items : i = elem[curr_slot[w]] /\ i # NoItem
  <2>1. curr_slot[w] \in Slots /\ elem[curr_slot[w]] # NoItem
    BY DEF Work, Core, VariablesTyped, ItemsFound
  <2> QED BY <2>1 DEF Core, VariablesTyped
<1>2. /\ pc[w] = "working" /\ work' = [work EXCEPT ![i] = Append(@, w)]
      /\ UNCHANGED <<came, finished>>
  BY <1>1 DEF Work
<1>3. i = elem[Slot(w)] /\ ~Worked(w) /\ Slot(w) \in Filled
  BY <1>1, <1>2, SlotOf DEF Slot, Moved, Worked, Filled, Core
<1>4. PICK n \in DOMAIN came :
          came[n] = i /\ Len(finished) < n /\ n <= Len(came) - Len(wait_lst_fq)
  BY <1>3 DEF InOrder, Divided
<1>5. /\ Len(finished) \in Nat /\ Len(came) \in Nat /\ n \in Nat /\ Len(wait_lst_fq) \in Nat
      /\ DOMAIN came = 1..Len(came) /\ \A k \in DOMAIN came : came[k] # NoItem
  BY CameIs
<1>6. /\ DOMAIN Queue = 1..(Len(came) - Len(finished)) /\ Behind = work /\ Out = finished
      /\ \A k \in DOMAIN Queue : Queue[k] = came[Len(finished) + k]
  BY QueueIs
<1>7. PICK k \in DOMAIN Queue : k = n - Len(finished) /\ Queue[k] = i
  <2>1. n - Len(finished) \in DOMAIN Queue /\ Len(finished) + (n - Len(finished)) = n
    BY <1>4, <1>5, <1>6
  <2> QED BY <1>4, <1>6, <2>1
<1>8. Len(work[i]) = w /\ w < asl_size
  BY <1>1, <1>3, SlotsAre DEF InOrder, Staged
<1>9. ASSUME k > 1 PROVE Len(work[Queue[k - 1]]) > w
  <2>1. PICK m \in DOMAIN came : m = n - 1 /\ Len(finished) < m
    BY <1>4, <1>5, <1>7, <1>9
  <2>2. k - 1 \in DOMAIN Queue /\ Len(finished) + (k - 1) = m
    BY <1>5, <1>6, <1>7, <1>9, <2>1
  <2>3. Queue[k - 1] = came[m] /\ m <= Len(came) - Len(wait_lst_fq)
    BY <1>4, <1>5, <1>6, <2>1, <2>2
  <2>4. PICK s \in Filled : elem[s] = came[m]
    BY <2>1, <2>3 DEF InOrder, Divided
  <2>5. PICK v \in Workers : Slot(v) = s
    BY <2>4, SlotOf DEF Filled, Core
  <2>6. v # w
    <3>1. came[m] # came[n]
      BY <1>5, <2>1 DEF InOrder, Divided
    <3> QED BY <1>3, <1>4, <2>4, <2>5, <3>1
  <2>7. ~(v < w)
    <3>1. v < w => n < m
      BY <1>3, <1>4, <2>4, <2>5 DEF InOrder, Ordered
    <3> QED BY <1>5, <2>1, <3>1
  <2>8. v > w
    BY <2>6, <2>7, SlotsAre
  <2>9. Len(work[came[m]]) = v \/ Len(work[came[m]]) = v + 1
    BY <1>5, <2>4, <2>5 DEF InOrder, Staged
  <2> QED BY <2>3, <2>8, <2>9, SlotsAre
<1>10. Behind' = [Behind EXCEPT ![Queue[k]] = Append(@, Len(@))]
  <2>1. Behind' = work'
    <3>1. work' \in [Items -> Seq(Workers)]
      BY WorkKeeps DEF Core, VariablesTyped
    <3> QED BY <3>1 DEF Behind
  <2>2. work' = [work EXCEPT ![i] = Append(work[i], Len(work[i]))]
    BY <1>2, <1>8
  <2> QED BY <1>6, <1>7, <2>1, <2>2
<1>11. Queue' = Queue /\ Out' = Out
  BY <1>2 DEF Queue, Out
<1>12. /\ Len(Behind[Queue[k]]) < asl_size
       /\ k > 1 => Len(Behind[Queue[k - 1]]) > Len(Behind[Queue[k]])
  BY <1>6, <1>7, <1>8, <1>9
<1> QED BY <1>10, <1>11, <1>12 DEF Abstract!GoOn, Queue, Behind, Out

\* The last worker finishes the item that came first.
LEMMA RemoveMaps ==
    ASSUME Core, InOrder, ~hasty, NEW w \in Workers, Remove(w), UNCHANGED hasty
    PROVE  Abstract!Finish
<1>1. /\ elem[Slot(w)] = came[Len(finished) + 1] /\ Len(finished) + 1 \in DOMAIN came
      /\ finished' = Append(finished, elem[Slot(w)])
  BY RemoveOrder
<1>2. w = Tn /\ elem[Slot(w)] \in Items
  BY RemoveKeeps
<1>3. UNCHANGED <<came, work>> /\ pc[w] = "removing"
  BY DEF Remove
<1>4. /\ came \in Seq(Items) /\ finished \in Seq(Items)
      /\ Len(finished) \in Nat /\ Len(came) \in Nat
      /\ DOMAIN came = 1..Len(came)
  BY CameIs
<1>5. Queue = SubSeq(came, Len(finished) + 1, Len(came)) /\ Behind = work /\ Out = finished
  BY QueueIs
<1>6. Len(finished') = Len(finished) + 1 /\ Len(finished) < Len(came)
  BY <1>1, <1>2, <1>4
<1>7. /\ Queue # <<>> /\ Head(Queue) = came[Len(finished) + 1]
      /\ Tail(Queue) = SubSeq(came, (Len(finished) + 1) + 1, Len(came))
  BY <1>4, <1>5, <1>6, PartShrinks
<1>8. Queue' = Tail(Queue) /\ Out' = Append(Out, Head(Queue)) /\ Behind' = Behind
  BY <1>1, <1>3, <1>5, <1>6, <1>7 DEF Queue, Out, Behind
<1>9. Len(Behind[Head(Queue)]) = asl_size
  <2>1. Worked(w) /\ elem[Slot(w)] # NoItem
    BY <1>2, <1>3, AtWork, ItemsAssumption DEF Worked, Core
  <2>2. Len(work[elem[Slot(w)]]) = Tn + 1 /\ Tn + 1 = asl_size
    BY <1>2, <2>1, SlotsAre DEF InOrder, Staged
  <2> QED BY <1>1, <1>5, <1>7, <2>2
<1> QED BY <1>7, <1>8, <1>9 DEF Abstract!Finish, Queue, Behind, Out

\* Without hasty clients the assembly line is a pipeline: items go through the
\* workers in their order, each works once on every item, and items come out
\* in the order in which they came.
THEOREM Implements == Spec => ImplementsPipeline
<1>1. Init => Abstract!Init
  <2> SUFFICES ASSUME Init PROVE Abstract!Init
    OBVIOUS
  <2>1. SubSeq(came, Len(finished) + 1, Len(came)) = <<>>
    BY PartOf DEF Init
  <2> QED BY <2>1 DEF Init, Abstract!Init
<1>2. IInv /\ [Next]_vars => [Abstract!Next]_<<Queue, Behind, Out>>
  <2> SUFFICES ASSUME IInv, [Next]_vars
               PROVE  Abstract!Next \/ UNCHANGED <<Queue, Behind, Out>>
    OBVIOUS
  <2>1. UNCHANGED hasty
    BY DEF Next, Worker, Engine, Client, Runs, Finished, vars
  <2>2. CASE hasty
    BY <2>1, <2>2 DEF Queue, Behind, Out
  <2>3. CASE UNCHANGED <<came, work, finished>>
    BY <2>1, <2>3 DEF Queue, Behind, Out
  <2>4. CASE ~hasty /\ ~UNCHANGED <<came, work, finished>>
    <3>1. Core /\ InOrder
      BY <2>4 DEF IInv
    <3>2. \/ \E i \in Items : Push(i)
          \/ \E w \in Workers : Work(w) \/ Remove(w)
      BY <2>4 DEF Next, Worker, WorkerReady, Look, Move, Report, Engine, EngineBegins,
                  EngineWaitsOn, EngineGoesOn, EngineFails, EngineHalts, AssertFails, Client,
                  MainWaits, PushFails, SpuriousWakeup, Finished, vars, history
    <3>3. ASSUME NEW i \in Items, Push(i) PROVE Abstract!Next
      BY <2>1, <2>4, <3>1, <3>3, PushMaps DEF Abstract!Next
    <3>4. ASSUME NEW w \in Workers, Work(w) PROVE Abstract!Next
      BY <2>1, <2>4, <3>1, <3>4, WorkMaps DEF Abstract!Next, Queue
    <3>5. ASSUME NEW w \in Workers, Remove(w) PROVE Abstract!Next
      BY <2>1, <2>4, <3>1, <3>5, RemoveMaps DEF Abstract!Next
    <3> QED BY <3>2, <3>3, <3>4, <3>5
  <2> QED BY <2>2, <2>3, <2>4
<1> QED BY <1>1, <1>2, Invariant, PTL
        DEF Spec, ImplementsPipeline, Abstract!Spec, Abstract!vars, Queue, Behind, Out
=============================================================================
