------------------------------- MODULE MC_Data -----------------------------
(***************************************************************************)
(* One run for what threads hand on and share: the staged assembly line,   *)
(* map-reduce, the students with reference counts, the notification        *)
(* chains, the two linked lists all of it is kept in, and the recursive    *)
(* readers-writers lock for data that is shared.  The initial state        *)
(* chooses which of them runs.                                             *)
(***************************************************************************)
EXTENDS Lists, RwLock

CONSTANTS
    Objects, Stages,        \* of StagedLine
    Mappers, Starts, CleanupFns,    \* of MapReduce
    Addresses, Rolls,       \* of RefCrud
    Subscribers, Updates    \* of NotifChain

\* The main thread pushes no object of its own, and a line has a stage.
ASSUME ObjectsAssumption ==
    IsFiniteSet(Objects) /\ "main" \notin Objects /\ Stages \in Nat \ {0}

\* The caller and the reducer are not mappers.
ASSUME MappersAssumption ==
    /\ IsFiniteSet(Mappers) /\ Mappers # {} /\ Mappers \cap {"start", "reducer"} = {}
    /\ Starts \in Nat

\* Client ids are positive, and no entry is called NULL.
ASSUME SubscribersAssumption ==
    /\ IsFiniteSet(Subscribers) /\ Subscribers # {} /\ Subscribers \subseteq Nat \ {0}
    /\ Updates \in Nat /\ NULL \notin Nat

VARIABLES
    which,                  \* the component that runs
    \* of StagedLine
    patient, accept_new_object, n_workers_in_operation, object_queue,
    staged_line_hand, staged_line_pc, wpc, cancelled, freed, accepted, emitted,
    \* of MapReduce
    map_reduce_pc, mappers_in_progress, is_reducer_in_progress, mapper_input_array,
    mapper_result_array, reducer_result, reducer_finished_semaphore, starts,
    \* of RefCrud
    stud_lst, alive, roll_no, ref_count, ref_crud_hand, ref_crud_pc,
    \* of NotifChain
    spaced, entries, table_head, rt_next, chain, job, notif_chain_hand, told,
    version, entered, notif_chain_pc

Line == INSTANCE StagedLine WITH hand <- staged_line_hand, pc <- staged_line_pc
Reduce == INSTANCE MapReduce WITH pc <- map_reduce_pc
Crud == INSTANCE RefCrud WITH hand <- ref_crud_hand, pc <- ref_crud_pc
Nfc == INSTANCE NotifChain WITH hand <- notif_chain_hand, pc <- notif_chain_pc

varsLine == <<patient, accept_new_object, n_workers_in_operation, object_queue,
              staged_line_hand, staged_line_pc, wpc, cancelled, freed, accepted,
              emitted>>
varsReduce == <<map_reduce_pc, mappers_in_progress, is_reducer_in_progress,
                mapper_input_array, mapper_result_array, reducer_result,
                reducer_finished_semaphore, starts>>
varsCrud == <<stud_lst, alive, roll_no, ref_count, ref_crud_hand, ref_crud_pc>>
varsNfc == <<spaced, entries, table_head, rt_next, chain, job, notif_chain_hand,
             told, version, entered, notif_chain_pc>>

dataVars == <<which, varsLine, varsReduce, varsCrud, varsNfc, varsList, varsGlue, vars>>

-----------------------------------------------------------------------------

\* A component that does not run stays in one of its initial states.
DataInit ==
    /\ which \in {"staged_line", "map_reduce", "ref_crud", "notif_chain",
                   "linked_list", "glthread", "rw_lock"}
    /\ Line!Init /\ (which # "staged_line" => ~patient)
    /\ Reduce!Init
    /\ Crud!Init
    /\ Nfc!Init /\ (which # "notif_chain" => spaced)
    /\ List!Init
    /\ Glue!Init /\ (which # "glthread" => \A n \in Nodes : key[n] = 1)
    /\ Init

OthersLine == <<which, varsReduce, varsCrud, varsNfc, varsList, varsGlue, vars>>
OthersReduce == <<which, varsLine, varsCrud, varsNfc, varsList, varsGlue, vars>>
OthersCrud == <<which, varsLine, varsReduce, varsNfc, varsList, varsGlue, vars>>
OthersNfc == <<which, varsLine, varsReduce, varsCrud, varsList, varsGlue, vars>>
OthersList == <<which, varsLine, varsReduce, varsCrud, varsNfc, varsGlue, vars>>
OthersGlue == <<which, varsLine, varsReduce, varsCrud, varsNfc, varsList, vars>>
OthersRw == <<which, varsLine, varsReduce, varsCrud, varsNfc, varsList, varsGlue>>

DataNext ==
    \/ which = "staged_line" /\ Line!Next /\ UNCHANGED OthersLine
    \/ which = "map_reduce" /\ Reduce!Next /\ UNCHANGED OthersReduce
    \/ which = "ref_crud" /\ Crud!Next /\ UNCHANGED OthersCrud
    \/ which = "notif_chain" /\ Nfc!Next /\ UNCHANGED OthersNfc
    \/ which = "linked_list" /\ List!Next /\ UNCHANGED OthersList
    \/ which = "glthread" /\ Glue!Next /\ UNCHANGED OthersGlue
    \/ which = "rw_lock" /\ Next /\ UNCHANGED OthersRw

DataSpec == DataInit /\ [][DataNext]_dataVars

\* The fairness of the component that runs.
DataFairSpec ==
    /\ DataSpec
    /\ WF_varsLine(which = "staged_line" /\ Line!Running /\ Line!Main)
    /\ \A o \in Objects :
           WF_varsLine(which = "staged_line" /\ Line!Running /\ Line!Client(o))
    /\ \A s \in Line!StageSet :
           WF_varsLine(which = "staged_line" /\ Line!Running /\ Line!Worker(s))
    /\ WF_varsReduce(which = "map_reduce" /\ Reduce!Running /\ Reduce!Caller)
    /\ WF_varsReduce(which = "map_reduce" /\ Reduce!Running /\ Reduce!Reducer)
    /\ \A m \in Mappers :
           WF_varsReduce(which = "map_reduce" /\ Reduce!Running /\ Reduce!Mapper(m))
    /\ \A t \in Crud!Threads : WF_varsCrud(which = "ref_crud" /\ Crud!Step(t))
    /\ \A t \in LockThreads :
           /\ WF_vars(which = "rw_lock" /\ Step(t))
           /\ SF_vars(which = "rw_lock" /\ Leaves(t))

-----------------------------------------------------------------------------
(* Properties *)

DataTypeOK ==
    /\ Line!TypeOK
    /\ Reduce!TypeOK
    /\ Crud!TypeOK
    /\ Nfc!TypeOK
    /\ List!TypeOK
    /\ Glue!TypeOK
    /\ TypeOK

\* Nothing is lost on its way from thread to thread.  Staged line: while no worker
\* is cancelled the objects leave in order, and main, if it waits for the last
\* object, destroys the line cleanly.  Map-reduce: the reducer reads all results,
\* after the last was written, and nothing is reported to be in progress once the
\* first start has returned.  Notification chains: subscribers have the last
\* update, if the threads do not overlap.
NothingLost ==
    /\ Line!InOrder /\ Line!WorkersExact /\ Line!CleanWhenEmpty
    /\ Reduce!ReducesAll /\ Reduce!IdleReported /\ Reduce!AssertsHold
    /\ Nfc!TableExact /\ Nfc!Notified

\* Who has an object or a link has a live one: the reference counts are exact,
\* the lists well linked, whatever calls came before.
LinksAlive ==
    /\ Crud!NoUseAfterFree /\ Crud!RefCountExact
    /\ Nfc!WalksEnd
    /\ List!WellFormed
    /\ Glue!WellLinked

\* Work ends: the line is destroyed after its last object, the first start of
\* map-reduce returns, a student whose deletion is deferred is freed, and every
\* thread gets each readers-writers lock it asks for and gives it back.
Completes ==
    /\ which = "staged_line" => Line!Completes
    /\ which = "map_reduce" => Reduce!Returns
    /\ which = "ref_crud" => Crud!DeletedFreed
    /\ which = "rw_lock" => Termination
=============================================================================
