------------------------------ MODULE AsmLine ------------------------------
(***************************************************************************)
(* The assembly line of ThreadSyncAdv/threadlib/threadlib.c.               *)
(*                                                                         *)
(* Items stay in the slots of a circular queue and the workers move over   *)
(* them in lock step: worker w works on the item in its slot and goes down *)
(* one slot.  When all are ready again the engine thread puts the next     *)
(* waiting item where the first worker is, and starts the next cycle.      *)
(*                                                                         *)
(* The code between two acquisitions of asl->mutex is one action.  A       *)
(* worker tests its slot and moves without the mutex, so these are actions *)
(* of their own.  A client that pushes into an empty line while the        *)
(* workers move may put the item behind the first worker, or in the way of *)
(* the next one: such a client is hasty.  After a failed assert            *)
(* the model stops ("outcome").  Workers are not woken without a signal.   *)
(***************************************************************************)
EXTENDS Naturals, FiniteSets, Sequences

CONSTANTS
    Items,      \* what the client pushes, each once
    NoItem,     \* an empty slot
    asl_size,   \* slots and workers
    WaitSize    \* bound: size of wait_lst_fq

ASSUME ItemsAssumption == IsFiniteSet(Items) /\ NoItem \notin Items
\* With one worker Tn would never be set.
ASSUME SizeAssumption == asl_size \in Nat \ {0, 1} /\ WaitSize \in Nat

Workers == 0..(asl_size - 1)
Slots == 0..(asl_size - 1)
T0 == 0
Tn == asl_size - 1

VARIABLES
    hasty,              \* whether the client pushes whenever it likes
    elem,               \* asl_q: the item in each slot
    count,              \* asl_q->count
    wait_lst_fq,        \* items that wait for the first slot
    curr_slot,          \* the slot of each worker
    n_workers_ready,
    asl_state,
    pc,                 \* where each worker is
    engine,             \* where the engine thread is
    main,               \* where the client is
    came,               \* the items pushed, in that order
    work,               \* the workers that have worked on each item, in that order
    finished,           \* the items handed out, in that order
    outcome

line == <<elem, count, wait_lst_fq>>
history == <<came, work, finished>>
vars == <<hasty, line, curr_slot, n_workers_ready, asl_state, pc, engine, main, history, outcome>>

PCs == {
    "start",    \* thread created
    "asleep",   \* in pthread_cond_wait(&worker_thread->cv)
    "woken",    \* signalled
    "working",  \* has found an item in its slot
    "removing", \* last worker: to take the finished item out
    "moving",   \* to go to the next slot
    "moved"     \* to report that it is ready
    }

\* The engine: not created, created, in the wait for the workers or woken
\* from it, in the wait for new items or woken from it.
Engines == {"none", "created", "waiting", "woken", "halted", "restarted"}

Init ==
    /\ hasty \in BOOLEAN
    /\ elem = [s \in Slots |-> NoItem]
    /\ count = 0
    /\ wait_lst_fq = <<>>
    /\ curr_slot = [w \in Workers |-> w]
    /\ n_workers_ready = 0
    /\ asl_state = "NOT_STARTED"
    /\ pc = [w \in Workers |-> "start"]
    /\ engine = "none"
    /\ main = "init"
    /\ came = <<>>
    /\ work = [i \in Items |-> <<>>]
    /\ finished = <<>>
    /\ outcome = "running"

-----------------------------------------------------------------------------
(* The queues of Fifo_Queue.c: asl_q has random access, wait_lst_fq is FIFO *)

Replace(s, i) ==
    /\ elem' = [elem EXCEPT ![s] = i]
    /\ count' = CASE elem[s] = NoItem /\ i # NoItem -> count + 1
                  [] elem[s] # NoItem /\ i = NoItem -> count - 1
                  [] OTHER -> count

WaitListFull == Len(wait_lst_fq) = WaitSize
FifoEnqueue(i) == ~WaitListFull /\ wait_lst_fq' = Append(wait_lst_fq, i)
FifoDeque == wait_lst_fq # <<>> /\ wait_lst_fq' = Tail(wait_lst_fq)

-----------------------------------------------------------------------------
(* Workers *)

Goes(w, place) == pc' = [pc EXCEPT ![w] = place]

\* The first wait; the last one to be ready signals asl_ready_wq.
WorkerReady(w) ==
    /\ pc[w] = "start"
    /\ n_workers_ready' = n_workers_ready + 1
    /\ main' = IF n_workers_ready' = asl_size /\ main = "asleep" THEN "woken" ELSE main
    /\ Goes(w, "asleep")
    /\ UNCHANGED <<line, curr_slot, asl_state, engine, history, outcome>>

Look(w) ==
    /\ pc[w] = "woken"
    /\ Goes(w, IF elem[curr_slot[w]] # NoItem THEN "working" ELSE "moving")
    /\ UNCHANGED <<line, curr_slot, n_workers_ready, asl_state, engine, main, history, outcome>>

Work(w) ==
    /\ pc[w] = "working"
    /\ work' = [work EXCEPT ![elem[curr_slot[w]]] = Append(@, w)]
    /\ Goes(w, IF w = Tn THEN "removing" ELSE "moving")
    /\ UNCHANGED <<line, curr_slot, n_workers_ready, asl_state, engine, main, came, finished, outcome>>

Remove(w) ==
    /\ pc[w] = "removing"
    /\ finished' = Append(finished, elem[curr_slot[w]])
    /\ Replace(curr_slot[w], NoItem)
    /\ Goes(w, "moving")
    /\ UNCHANGED <<wait_lst_fq, curr_slot, n_workers_ready, asl_state, engine, main, came, work, outcome>>

\* Mutant: the workers go up.
Move_Up(w) ==
    /\ pc[w] = "moving"
    /\ curr_slot' = [curr_slot EXCEPT ![w] = (@ + 1) % asl_size]
    /\ Goes(w, "moved")
    /\ UNCHANGED <<line, n_workers_ready, asl_state, engine, main, history, outcome>>
Move(w) ==
    /\ pc[w] = "moving"
    /\ curr_slot' = [curr_slot EXCEPT ![w] = IF @ = 0 THEN asl_size - 1 ELSE @ - 1]
    /\ Goes(w, "moved")
    /\ UNCHANGED <<line, n_workers_ready, asl_state, engine, main, history, outcome>>

\* The last one to be ready signals the engine.
Report(w) ==
    /\ pc[w] = "moved"
    /\ n_workers_ready' = n_workers_ready + 1
    /\ engine' = IF n_workers_ready' = asl_size /\ engine = "waiting" THEN "woken" ELSE engine
    /\ Goes(w, "asleep")
    /\ UNCHANGED <<line, curr_slot, asl_state, main, history, outcome>>

-----------------------------------------------------------------------------
(* assembly_line_enqueue_new_item, the client and the engine *)

\* Mutant: the slot is taken for granted.
SlotFree_Always == TRUE
\* The slot of the first worker must be empty.
SlotFree == elem[curr_slot[T0]] = NoItem
Enqueue(i) == Replace(curr_slot[T0], i)

AssertFails ==
    /\ outcome' = "assert failed"
    /\ UNCHANGED <<line, curr_slot, n_workers_ready, asl_state, pc, engine, main, history>>

\* assembly_line_init_worker_threads: main waits for all workers.
MainWaits ==
    /\ main \in {"init", "woken"}
    /\ main' = IF n_workers_ready = asl_size THEN "ready" ELSE "asleep"
    /\ UNCHANGED <<line, curr_slot, n_workers_ready, asl_state, pc, engine, history, outcome>>

Untried(i) == \A k \in DOMAIN came : came[k] # i

\* A client that is not hasty lets an empty line come to a halt first, and
\* pushes no more than can wait.
Pushes(i) ==
    /\ main = "ready"
    /\ Untried(i)
    /\ hasty \/ IF count = 0 THEN asl_state # "IN_PROGRESS" ELSE ~WaitListFull

\* Mutant: a line that has come to a halt is not started again.
EngineStart_Once ==
    /\ engine' = IF engine = "none" THEN "created" ELSE engine
    /\ UNCHANGED asl_state
EngineStart ==
    \/ /\ engine = "none"
       /\ engine' = "created"
       /\ UNCHANGED asl_state
    \/ /\ engine # "none"
       /\ asl_state = "WAIT"
       /\ asl_state' = "IN_PROGRESS"
       /\ engine' = IF engine = "halted" THEN "restarted" ELSE engine
    \/ /\ engine # "none"
       /\ asl_state # "WAIT"
       /\ UNCHANGED <<engine, asl_state>>

Push(i) ==
    /\ Pushes(i)
    /\ \/ /\ count = 0
          /\ SlotFree
          /\ Enqueue(i)
          /\ UNCHANGED wait_lst_fq
       \/ /\ count # 0
          /\ FifoEnqueue(i)
          /\ UNCHANGED <<elem, count>>
    /\ came' = Append(came, i)
    /\ EngineStart
    /\ UNCHANGED <<curr_slot, n_workers_ready, pc, main, work, finished, outcome>>

PushFails(i) ==
    /\ Pushes(i)
    /\ IF count = 0 THEN ~SlotFree ELSE WaitListFull
    /\ AssertFails

\* Mutant: the workers that are ready are not counted anew.
StartCycle_NoReset ==
    /\ asl_state' = "IN_PROGRESS"
    /\ UNCHANGED n_workers_ready
    /\ pc' = [w \in Workers |-> IF pc[w] = "asleep" THEN "woken" ELSE pc[w]]
    /\ engine' = "waiting"
StartCycle ==
    /\ asl_state' = "IN_PROGRESS"
    /\ n_workers_ready' = 0
    /\ pc' = [w \in Workers |-> IF pc[w] = "asleep" THEN "woken" ELSE pc[w]]
    /\ engine' = "waiting"

EngineBegins ==
    /\ engine \in {"created", "restarted"}
    /\ StartCycle
    /\ UNCHANGED <<line, curr_slot, main, history, outcome>>

\* The engine is woken before all workers are ready.
EngineWaitsOn ==
    /\ engine = "woken"
    /\ n_workers_ready # asl_size
    /\ engine' = "waiting"
    /\ UNCHANGED <<line, curr_slot, n_workers_ready, asl_state, pc, main, history, outcome>>

CycleDone == engine = "woken" /\ n_workers_ready = asl_size

\* Another cycle, with the next of the waiting items if there is one.
EngineGoesOn ==
    /\ CycleDone
    /\ \/ /\ FifoDeque
          /\ SlotFree
          /\ Enqueue(Head(wait_lst_fq))
       \/ /\ wait_lst_fq = <<>>
          /\ count # 0
          /\ UNCHANGED line
    /\ StartCycle
    /\ UNCHANGED <<curr_slot, main, history, outcome>>

EngineFails ==
    /\ CycleDone
    /\ wait_lst_fq # <<>>
    /\ ~SlotFree
    /\ AssertFails

EngineHalts ==
    /\ CycleDone
    /\ wait_lst_fq = <<>>
    /\ count = 0
    /\ asl_state' = "WAIT"
    /\ engine' = "halted"
    /\ UNCHANGED <<line, curr_slot, n_workers_ready, pc, main, history, outcome>>

\* POSIX lets pthread_cond_wait return without a signal.
SpuriousWakeup ==
    /\ \/ engine = "waiting" /\ engine' = "woken" /\ UNCHANGED main
       \/ engine = "halted" /\ engine' = "restarted" /\ UNCHANGED main
       \/ main = "asleep" /\ main' = "woken" /\ UNCHANGED engine
    /\ UNCHANGED <<line, curr_slot, n_workers_ready, asl_state, pc, history, outcome>>

-----------------------------------------------------------------------------

Runs == outcome = "running" /\ UNCHANGED hasty

Worker(w) ==
    Runs /\ (WorkerReady(w) \/ Look(w) \/ Work(w) \/ Remove(w) \/ Move(w) \/ Report(w))
Engine == Runs /\ (EngineBegins \/ EngineWaitsOn \/ EngineGoesOn \/ EngineFails \/ EngineHalts)
Client == Runs /\ (MainWaits \/ \E i \in Items : Push(i) \/ PushFails(i))

\* Nothing is left to do, or an assert has failed.
Finished ==
    /\ \/ outcome # "running"
       \/ /\ \A i \in Items : ~Untried(i)
          /\ engine = "halted"
    /\ UNCHANGED vars

Next ==
    \/ \E w \in Workers : Worker(w)
    \/ Engine
    \/ Client
    \/ Runs /\ SpuriousWakeup
    \/ Finished

Spec == Init /\ [][Next]_vars

\* The scheduler runs every thread; the client need not push.
FairSpec ==
    /\ Spec
    /\ \A w \in Workers : WF_vars(Worker(w))
    /\ WF_vars(Engine)

-----------------------------------------------------------------------------
(* Properties *)

TypeOK ==
    /\ hasty \in BOOLEAN
    /\ elem \in [Slots -> Items \cup {NoItem}]
    /\ count \in 0..asl_size
    /\ wait_lst_fq \in Seq(Items) /\ Len(wait_lst_fq) <= WaitSize
    /\ curr_slot \in [Workers -> Slots]
    /\ n_workers_ready \in 0..asl_size
    /\ asl_state \in {"NOT_STARTED", "IN_PROGRESS", "WAIT"}
    /\ pc \in [Workers -> PCs]
    /\ engine \in Engines
    /\ main \in {"init", "asleep", "woken", "ready"}
    /\ came \in Seq(Items)
    /\ work \in [Items -> Seq(Workers)]
    /\ finished \in Seq(Items)
    /\ outcome \in {"running", "assert failed"}

Filled == {s \in Slots : elem[s] # NoItem}
Elements(seq) == {seq[k] : k \in DOMAIN seq}

\* Whenever clients push: the count is that of the filled slots, no two
\* workers work on one item, and every item that came is in one place: a slot,
\* the wait list, or among the finished ones.  Without hasty clients no assert
\* fails.
NothingLost ==
    /\ ~hasty => outcome = "running"
    /\ count = Cardinality(Filled)
    /\ \A v, w \in Workers : v # w /\ {pc[v], pc[w]} \subseteq {"working", "removing"} =>
           curr_slot[v] # curr_slot[w]
    /\ Elements(came) =
           {elem[s] : s \in Filled} \cup Elements(wait_lst_fq) \cup Elements(finished)
    /\ Len(came) = count + Len(wait_lst_fq) + Len(finished)

\* Without hasty clients items go through all workers in their order, and come
\* out in the order in which they came.
Abstract == INSTANCE Pipeline WITH
    N <- asl_size,
    queue <- IF hasty THEN <<>> ELSE SubSeq(came, Len(finished) + 1, Len(came)),
    work <- [i \in Items |-> IF hasty THEN <<>> ELSE work[i]],
    finished <- IF hasty THEN <<>> ELSE finished
ImplementsPipeline == Abstract!Spec

\* Every item that comes is finished, unless an assert fails.
ItemsFinish ==
    \A i \in Items : i \in Elements(came) ~>
        (i \in Elements(finished) \/ outcome # "running")
=============================================================================
