------------------------------- MODULE MC_Sync -----------------------------
(***************************************************************************)
(* One run for the smaller ways in which threads wait for each other: the  *)
(* barrier, counting semaphores, the event pair, the pause of a thread,    *)
(* wait queues and the traffic light that uses them; the monitor under     *)
(* strict alternation, the biased and the turn-taking readers-writers      *)
(* lock, the vaccination centre, the first monitor, the dining             *)
(* philosophers, and the producers and consumers.  The initial state       *)
(* chooses which of them runs; they share no state.                        *)
(***************************************************************************)
EXTENDS Barrier

CONSTANTS
    PermitUsers, PERMIT_COUNT, Numbers, \* of Sema
    MaxResponse,                        \* of EventPair
    Controllers, Commands,              \* of ThreadPause
    QueueThreads, WqRounds,             \* of WaitQueue
    EastCars, WestCars,                 \* of TrafficLight
    StrictReaders, StrictWriters, StrictRounds, \* of Monitor
    Readers, Writers,                   \* of BiasedLock, TurnLock, FirstMonitor
    MaxReaders, MaxWriters,             \* of BiasedLock, TurnLock
    Citizens, Capacity,                 \* of Vaccination
    N_PHILOSOPHER,                      \* of Philosophers
    Producers, Consumers, Q_DEFAULT_SIZE,   \* of ProdCons
    NULL

\* The threads of the two programs of the semaphore.
ASSUME PermitsAssumption ==
    /\ IsFiniteSet(PermitUsers) /\ PermitUsers \cap {"odd", "even"} = {}
    /\ PERMIT_COUNT \in Nat /\ Numbers \in Nat

\* The client of the event pair asks once at least.
ASSUME MaxResponseAssumption == MaxResponse \in Nat \ {0}

\* The worker does not pause itself.
ASSUME ControllersAssumption == "worker" \notin Controllers /\ Commands \in Nat

\* NULL holds no mutex.
ASSUME CarsAssumption == NULL \notin EastCars \cup WestCars

\* At least two philosophers, numbered; nobody is called NULL.
ASSUME PhilosophersAssumption ==
    N_PHILOSOPHER \in Nat \ {0, 1} /\ NULL \notin 0..(N_PHILOSOPHER - 1)

\* A thread of the producers and consumers is one of the two, and its slot of the
\* ring is free or holds a number.
ASSUME RingAssumption ==
    /\ Producers \cap Consumers = {} /\ NULL \notin Producers \cup Consumers
    /\ Q_DEFAULT_SIZE \in Nat \ {0} /\ NULL \notin Nat

\* A thread of the test programs of the two locks asks for one kind of lock.
ASSUME LockUsersAssumption ==
    /\ IsFiniteSet(Readers) /\ IsFiniteSet(Writers) /\ Readers \cap Writers = {}
    /\ MaxReaders \in Nat \ {0} /\ MaxWriters \in Nat \ {0}

\* The threads of the wait queue, and how often main may set the condition.
ASSUME QueueThreadsAssumption ==
    IsFiniteSet(QueueThreads) /\ "main" \notin QueueThreads /\ WqRounds \in Nat

\* The clients of the monitor under strict alternation.
ASSUME StrictClientsAssumption ==
    /\ IsFiniteSet(StrictReaders \cup StrictWriters) /\ StrictReaders \cap StrictWriters = {}
    /\ StrictRounds \in Nat

\* The citizens of the vaccination centre, and how many of an age it admits.
ASSUME CitizensAssumption == IsFiniteSet(Citizens) /\ Capacity \in Nat

VARIABLES
    which,                  \* the component that runs
    \* of Sema
    program, sema_disturbed, permit_counter, sema_pc, pos,
    \* of EventPair
    event_pair_pc, sem0, global_shared_memory, sent,
    \* of ThreadPause
    struct, thread_pause_disturbed, thread_pause_pc, should_pause, flags,
    block_status, last, commands,
    \* of WaitQueue
    version, should_block, appln_mutex, wait_queue_thread_wait_count, fifo_thread_q,
    wait_queue_pc, sets, told,
    \* of TrafficLight
    light, holder, traffic_light_pc,
    \* of Monitor
    strict_monitor_resource_status, n_curr, who_last, wait_q,
    strict_monitor_thread_wait_count, shutdown, is_deleted, freed, refused,
    strict_monitor_pc, rounds,
    \* of BiasedLock
    biasedness, biased_lock_n_locks, n_reader_waiting, n_writer_waiting,
    biased_lock_locked_by, who_used_cs, biased_lock_pc,
    \* of TurnLock
    limit, turn_lock_n_locks, turn_lock_locked_by, dont_allow, waiting, turn_lock_pc,
    \* of Vaccination
    citizen_type, current, waiting_list, vaccination_pc,
    \* of FirstMonitor
    clients, first_monitor_disturbed, first_monitor_resource_status, using_q,
    reader_wait_q, writer_wait_q, first_monitor_pc,
    \* of Philosophers
    spoon, mutex, philosophers_pc,
    \* of ProdCons
    elem, front, rear, count, q_mutex, prod_cons_pc, a, consumed

Sem == INSTANCE Sema
    WITH Users <- PermitUsers, disturbed <- sema_disturbed, pc <- sema_pc
Pair == INSTANCE EventPair WITH Limit <- MaxResponse, pc <- event_pair_pc
Pause == INSTANCE ThreadPause
    WITH disturbed <- thread_pause_disturbed, pc <- thread_pause_pc
Queue == INSTANCE WaitQueue
    WITH Threads <- QueueThreads,
         thread_wait_count <- wait_queue_thread_wait_count, pc <- wait_queue_pc
Light == INSTANCE TrafficLight WITH pc <- traffic_light_pc
Strict == INSTANCE Monitor
    WITH Readers <- StrictReaders, Writers <- StrictWriters,
         n_readers_max_limit <- 1, n_writers_max_limit <- 1,
         strict_alternation <- TRUE, ShutsDown <- FALSE,
         Rounds <- StrictRounds,
         resource_status <- strict_monitor_resource_status,
         thread_wait_count <- strict_monitor_thread_wait_count,
         pc <- strict_monitor_pc
Biased == INSTANCE BiasedLock
    WITH n_locks <- biased_lock_n_locks, locked_by <- biased_lock_locked_by,
         pc <- biased_lock_pc
Turn == INSTANCE TurnLock
    WITH n_locks <- turn_lock_n_locks, locked_by <- turn_lock_locked_by,
         pc <- turn_lock_pc
Centre == INSTANCE Vaccination WITH pc <- vaccination_pc
First == INSTANCE FirstMonitor
    WITH disturbed <- first_monitor_disturbed,
         resource_status <- first_monitor_resource_status,
         pc <- first_monitor_pc
Dining == INSTANCE Philosophers WITH pc <- philosophers_pc
Ring == INSTANCE ProdCons WITH pc <- prod_cons_pc

varsSem == <<program, sema_disturbed, permit_counter, sema_pc, pos>>
varsPair == <<event_pair_pc, sem0, global_shared_memory, sent>>
varsPause == <<struct, thread_pause_disturbed, thread_pause_pc, should_pause, flags,
               block_status, last, commands>>
varsQueue == <<version, should_block, appln_mutex, wait_queue_thread_wait_count,
               fifo_thread_q, wait_queue_pc, sets, told>>
varsLight == <<light, holder, traffic_light_pc>>
varsStrict == <<strict_monitor_resource_status, n_curr, who_last, wait_q,
                strict_monitor_thread_wait_count, shutdown, is_deleted, freed,
                refused, strict_monitor_pc, rounds>>
varsBiased == <<biasedness, biased_lock_n_locks, n_reader_waiting, n_writer_waiting,
                biased_lock_locked_by, who_used_cs, biased_lock_pc>>
varsTurn == <<limit, turn_lock_n_locks, turn_lock_locked_by, dont_allow, waiting,
              turn_lock_pc>>
varsCentre == <<citizen_type, current, waiting_list, vaccination_pc>>
varsFirst == <<clients, first_monitor_disturbed, first_monitor_resource_status,
               using_q, reader_wait_q, writer_wait_q, first_monitor_pc>>
varsDining == <<spoon, mutex, philosophers_pc>>
varsRing == <<elem, front, rear, count, q_mutex, prod_cons_pc, a, consumed>>

syncVars == <<which, vars, varsSem, varsPair, varsPause, varsQueue, varsLight,
              varsStrict, varsBiased, varsTurn, varsCentre, varsFirst, varsDining,
              varsRing>>

-----------------------------------------------------------------------------

\* A component that does not run stays in one of its initial states.
SyncInit ==
    /\ which \in {"barrier", "sema", "event_pair", "thread_pause", "wait_queue",
                   "traffic_light", "strict_monitor", "biased_lock", "turn_lock",
                   "vaccination", "first_monitor", "philosophers", "prod_cons"}
    /\ Init /\ (which # "barrier" => ~disturbed)
    /\ Sem!Init /\ (which # "sema" => program = "hello" /\ ~sema_disturbed)
    /\ Pair!Init
    /\ Pause!Init /\ (which # "thread_pause" => struct = "flags" /\ ~thread_pause_disturbed)
    /\ Queue!Init /\ (which # "wait_queue" => version = "v1")
    /\ Light!Init
    /\ Strict!Init
    /\ Biased!Init /\ (which # "biased_lock" => biasedness = "NEUTRAL")
    /\ Turn!Init /\ (which # "turn_lock" => limit = [reader |-> 1, writer |-> 1])
    /\ Centre!Init /\ (which # "vaccination" => \A c \in Citizens : citizen_type[c] = 0)
    /\ First!Init /\ (which # "first_monitor" => clients = {} /\ ~first_monitor_disturbed)
    /\ Dining!Init
    /\ Ring!Init

OthersBarrier == <<which, varsSem, varsPair, varsPause, varsQueue, varsLight,
                   varsStrict, varsBiased, varsTurn, varsCentre, varsFirst,
                   varsDining, varsRing>>
OthersSem == <<which, vars, varsPair, varsPause, varsQueue, varsLight, varsStrict,
               varsBiased, varsTurn, varsCentre, varsFirst, varsDining, varsRing>>
OthersPair == <<which, vars, varsSem, varsPause, varsQueue, varsLight, varsStrict,
                varsBiased, varsTurn, varsCentre, varsFirst, varsDining, varsRing>>
OthersPause == <<which, vars, varsSem, varsPair, varsQueue, varsLight, varsStrict,
                 varsBiased, varsTurn, varsCentre, varsFirst, varsDining, varsRing>>
OthersQueue == <<which, vars, varsSem, varsPair, varsPause, varsLight, varsStrict,
                 varsBiased, varsTurn, varsCentre, varsFirst, varsDining, varsRing>>
OthersLight == <<which, vars, varsSem, varsPair, varsPause, varsQueue, varsStrict,
                 varsBiased, varsTurn, varsCentre, varsFirst, varsDining, varsRing>>
OthersStrict == <<which, vars, varsSem, varsPair, varsPause, varsQueue, varsLight,
                  varsBiased, varsTurn, varsCentre, varsFirst, varsDining, varsRing>>
OthersBiased == <<which, vars, varsSem, varsPair, varsPause, varsQueue, varsLight,
                  varsStrict, varsTurn, varsCentre, varsFirst, varsDining, varsRing>>
OthersTurn == <<which, vars, varsSem, varsPair, varsPause, varsQueue, varsLight,
                varsStrict, varsBiased, varsCentre, varsFirst, varsDining, varsRing>>
OthersCentre == <<which, vars, varsSem, varsPair, varsPause, varsQueue, varsLight,
                  varsStrict, varsBiased, varsTurn, varsFirst, varsDining, varsRing>>
OthersFirst == <<which, vars, varsSem, varsPair, varsPause, varsQueue, varsLight,
                 varsStrict, varsBiased, varsTurn, varsCentre, varsDining, varsRing>>
OthersDining == <<which, vars, varsSem, varsPair, varsPause, varsQueue, varsLight,
                  varsStrict, varsBiased, varsTurn, varsCentre, varsFirst, varsRing>>
OthersRing == <<which, vars, varsSem, varsPair, varsPause, varsQueue, varsLight,
                varsStrict, varsBiased, varsTurn, varsCentre, varsFirst, varsDining>>

SyncNext ==
    \/ which = "barrier" /\ Next /\ UNCHANGED OthersBarrier
    \/ which = "sema" /\ Sem!Next /\ UNCHANGED OthersSem
    \/ which = "event_pair" /\ Pair!Next /\ UNCHANGED OthersPair
    \/ which = "thread_pause" /\ Pause!Next /\ UNCHANGED OthersPause
    \/ which = "wait_queue" /\ Queue!Next /\ UNCHANGED OthersQueue
    \/ which = "traffic_light" /\ Light!Next /\ UNCHANGED OthersLight
    \/ which = "strict_monitor" /\ Strict!Next /\ UNCHANGED OthersStrict
    \/ which = "biased_lock" /\ Biased!Next /\ UNCHANGED OthersBiased
    \/ which = "turn_lock" /\ Turn!Next /\ UNCHANGED OthersTurn
    \/ which = "vaccination" /\ Centre!Next /\ UNCHANGED OthersCentre
    \/ which = "first_monitor" /\ First!Next /\ UNCHANGED OthersFirst
    \/ which = "philosophers" /\ Dining!Next /\ UNCHANGED OthersDining
    \/ which = "prod_cons" /\ Ring!Next /\ UNCHANGED OthersRing

SyncSpec == SyncInit /\ [][SyncNext]_syncVars

\* The fairness of the component that runs.
SyncFairSpec ==
    /\ SyncSpec
    /\ \A t \in BarrierThreads :
           WF_vars(which = "barrier" /\ UNCHANGED disturbed /\ Step(t))
    /\ \A t \in Sem!AllThreads :
           WF_varsSem(which = "sema" /\ t \in Sem!Threads /\ Sem!Step(t))
    /\ WF_varsPair(which = "event_pair" /\ Pair!Main)
    /\ WF_varsPair(which = "event_pair" /\ Pair!Server)
    /\ WF_varsPair(which = "event_pair" /\ Pair!Client)
    /\ WF_varsPause(which = "thread_pause" /\ Pause!Worker)
    /\ \A c \in Controllers :
           WF_varsPause(which = "thread_pause" /\ Pause!HandshakeReturns(c))
    /\ WF_varsQueue(which = "wait_queue" /\ Queue!Main)
    /\ \A t \in QueueThreads : WF_varsQueue(which = "wait_queue" /\ Queue!Step(t))
    /\ \A t \in Strict!Threads :
           WF_varsStrict(which = "strict_monitor" /\ Strict!Running /\ Strict!Step(t))
    /\ \A t \in Turn!Users : WF_varsTurn(which = "turn_lock" /\ Turn!Step(t))
    /\ \A c \in Citizens : WF_varsCentre(which = "vaccination" /\ Centre!Step(c))
    /\ \A t \in Ring!Threads : WF_varsRing(which = "prod_cons" /\ Ring!Step(t))

-----------------------------------------------------------------------------
(* Properties *)

SyncTypeOK ==
    /\ TypeOK
    /\ Sem!TypeOK /\ Pair!TypeOK /\ Pause!TypeOK /\ Queue!TypeOK /\ Light!TypeOK
    /\ Strict!TypeOK /\ Biased!TypeOK /\ Turn!TypeOK /\ Centre!TypeOK /\ First!TypeOK
    /\ Dining!TypeOK /\ Ring!TypeOK

\* Who goes on does so by right, and the asserts and checks of the programs hold.
\* Semaphores (sema_wait, sema_post): a permit posted belongs to the waiter it
\* wakes, no more threads are in than have permits, and the two counting threads
\* alternate.  Event pair: a response answers its request.  Pause: the caller of
\* thread_pause goes on when the worker has stopped, and the last command that
\* did not come in vain is the one that holds.  Traffic light: one car writes the
\* log.  Locks and monitors: cs_status_check, bridge_access and the asserts; a
\* lock meets its assert(0) only if biased, the first monitor excludes as long
\* as it wakes no two readers together.
RightOfWay ==
    /\ Sem!PermitsConserved /\ Sem!Limited /\ Sem!Alternates
    /\ Pair!HandedOver
    /\ Pause!StoppedWhenTold /\ Pause!LastCommandHolds
    /\ Light!LogExclusive
    /\ Biased!ChecksHold /\ Biased!AbortsOnlyBiased
    /\ Turn!ChecksHold
    /\ Centre!RoomKept
    /\ First!Exclusive
    /\ Dining!EatsWithBoth
    /\ Ring!AssertsHold /\ Ring!FirstInFirstOut

\* A thread is asleep for a reason that somebody will end: it has to wait, or
\* another is awake to take the place.  Wait queues: nobody sleeps on after a
\* broadcast, list and count of the waiting are exact whatever the order of
\* signals and renewed waits, and only v1 loses the mutex it is to lock.  Traffic
\* light: no car of the first direction sleeps at green.  Strict alternation, with
\* one thread of each kind: whom a leaving thread wakes may enter.  Turn lock: shut doors
\* reopen.  Monitors: the lists are exact where they are to be.  Philosophers:
\* they block each other in a full ring of give-ups only.
SyncNoLostWakeup ==
    /\ Queue!QueueExact /\ Queue!NoLostWakeup /\ Queue!MutexThere
    /\ Light!NoLostWakeup
    /\ Strict!MonitorSound
    /\ Biased!NoLostWakeup
    /\ Turn!NoLostWakeup /\ Turn!DoorsReopen
    /\ Centre!ListsExact /\ Centre!ListedAreWoken
    /\ First!NoLostWakeup /\ First!ListsExact
    /\ Dining!NoLostWakeup /\ Dining!BlockedInRingOnly

\* The biased and the turn-taking lock implement the abstract readers-writers
\* lock: a step of rd_lock, wr_lock and unlock is one of
\* its steps, or none.
ImplementsReadersWriters == Biased!RW!Spec /\ Turn!RW!Spec

\* What is asked for happens in the end: everybody passes the semaphores, client
\* and server exchange until the client has had enough, a broadcast releases the
\* threads, a pause stops the worker and a resume lets it run (not that of the
\* handshake: ResumedRuns); no direction of the bridge starves, every citizen is
\* vaccinated if there is room for all of them, the producers and the consumers
\* all end.
AllServed ==
    /\ which = "sema" => Sem!AllDone
    /\ which = "event_pair" => Pair!Exits
    /\ which = "wait_queue" => Queue!Released
    /\ which = "thread_pause" => Pause!Obeyed
    /\ which = "strict_monitor" => Strict!RequestsGranted
    /\ which = "turn_lock" => Turn!TurnsCome
    /\ which = "vaccination" => Centre!AllVaccinated
    /\ which = "prod_cons" => Ring!Ends
=============================================================================
