----------------------------- MODULE MapReduce -----------------------------
(***************************************************************************)
(* Map-reduce of CourseDev/section_thread_map_reduce/threadlib.c: the      *)
(* caller of map_reduce_start splits the input, runs one thread for each   *)
(* mapper, waits in a wait queue until all mappers have finished, runs the *)
(* reducer thread and waits for it with a semaphore.                       *)
(*                                                                         *)
(* A critical section of mr_mutex is one action; the mapper and the        *)
(* reducer functions of the application run without it.  A failed assert   *)
(* ends the program.                                                       *)
(***************************************************************************)
EXTENDS Naturals, FiniteSets

CONSTANTS
    Mappers,    \* the indexes of the mapper arrays
    Starts,     \* bound: calls of map_reduce_start
    CleanupFns  \* of "input", "output", "result": those registered

VARIABLES
    pc,                     \* where "start", "reducer" and each mapper are
    mappers_in_progress,
    is_reducer_in_progress,
    mapper_input_array,     \* the mappers with an input
    mapper_result_array,    \* the mappers with a result
    reducer_result,         \* the results that were reduced
    reducer_finished_semaphore,
    starts

slots == <<mapper_input_array, mapper_result_array, reducer_result>>
vars == <<pc, mappers_in_progress, is_reducer_in_progress, slots,
          reducer_finished_semaphore, starts>>

n_mappers == Cardinality(Mappers)
StartPCs == {"outside", "launch", "wait", "asleep", "woken", "mapped", "reduce", "read", "aborted"}
ThreadPCs == {"none", "begun", "done", "flagged", "reduced", "posting", "ended"}

Goes(a, place) == pc' = [pc EXCEPT ![a] = place]
Running == pc["start"] # "aborted"

\* map_reduce_init
Init ==
    /\ pc = [a \in Mappers \cup {"start", "reducer"} |-> IF a = "start" THEN "outside" ELSE "none"]
    /\ mappers_in_progress = n_mappers
    /\ is_reducer_in_progress = FALSE
    /\ mapper_input_array = {}
    /\ mapper_result_array = {}
    /\ reducer_result = {}
    /\ reducer_finished_semaphore = 0
    /\ starts = 0

-----------------------------------------------------------------------------
(* map_reduce_start *)

\* The first assert, then the splitter.
Start ==
    /\ pc["start"] = "outside"
    /\ starts < Starts
    /\ starts' = starts + 1
    /\ \/ /\ mappers_in_progress = n_mappers
          /\ mapper_input_array' = Mappers
          /\ Goes("start", "launch")
       \/ /\ mappers_in_progress # n_mappers
          /\ Goes("start", "aborted")
          /\ UNCHANGED mapper_input_array
    /\ UNCHANGED <<mappers_in_progress, is_reducer_in_progress, mapper_result_array,
                   reducer_result, reducer_finished_semaphore>>

\* thread_run of one mapper, the mappers being alike, in any order.
Launch(m) ==
    /\ pc["start"] = "launch"
    /\ pc[m] = "none"
    /\ pc' = [pc EXCEPT ![m] = "begun",
                        !["start"] = IF \A k \in Mappers \ {m} : pc[k] # "none" THEN "wait" ELSE @]
    /\ UNCHANGED <<mappers_in_progress, is_reducer_in_progress, slots,
                   reducer_finished_semaphore, starts>>

\* wq_is_any_mapper_in_progress
AnyMapperInProgress == mappers_in_progress > 0

\* wait_queue_test_and_wait with wq_is_any_mapper_in_progress, at first and
\* each time the queue is woken.
TestAndWait ==
    /\ pc["start"] \in {"wait", "woken"}
    /\ Goes("start", IF AnyMapperInProgress THEN "asleep" ELSE "mapped")
    /\ UNCHANGED <<mappers_in_progress, is_reducer_in_progress, slots,
                   reducer_finished_semaphore, starts>>

SpuriousWakeup ==
    /\ pc["start"] = "asleep"
    /\ Goes("start", "woken")
    /\ UNCHANGED <<mappers_in_progress, is_reducer_in_progress, slots,
                   reducer_finished_semaphore, starts>>

RunReducer ==
    /\ pc["start"] = "mapped"
    /\ pc' = [pc EXCEPT !["start"] = "reduce", !["reducer"] = "begun"]
    /\ UNCHANGED <<mappers_in_progress, is_reducer_in_progress, slots,
                   reducer_finished_semaphore, starts>>

\* sem_wait
ReducerFinished ==
    /\ pc["start"] = "reduce"
    /\ reducer_finished_semaphore > 0
    /\ reducer_finished_semaphore' = reducer_finished_semaphore - 1
    /\ Goes("start", "read")
    /\ UNCHANGED <<mappers_in_progress, is_reducer_in_progress, slots, starts>>

\* What map_reduce_cleanup leaves of a part: it is cleared by the function that
\* map_reduce_register_cleanup_fns has registered for it, if there is one.
Cleaned(part, value) == IF part \in CleanupFns THEN {} ELSE value

\* The output reader, then map_reduce_cleanup: the threads go, and inputs, results
\* and output as registered; mappers_in_progress stays.
ReadAndCleanup ==
    /\ pc["start"] = "read"
    /\ mapper_input_array' = Cleaned("input", mapper_input_array)
    /\ mapper_result_array' = Cleaned("output", mapper_result_array)
    /\ reducer_result' = Cleaned("result", reducer_result)
    /\ pc' = [a \in DOMAIN pc |-> IF a = "start" THEN "outside"
                                  ELSE IF pc[a] = "ended" THEN "none" ELSE pc[a]]
    /\ UNCHANGED <<mappers_in_progress, is_reducer_in_progress,
                   reducer_finished_semaphore, starts>>

-----------------------------------------------------------------------------
(* mapper_wrapper and reducer_wrapper *)

\* mapper_fn
Map(m) ==
    /\ pc[m] = "begun"
    /\ mapper_result_array' = mapper_result_array \cup {m}
    /\ Goes(m, "done")
    /\ UNCHANGED <<mappers_in_progress, is_reducer_in_progress, mapper_input_array,
                   reducer_result, reducer_finished_semaphore, starts>>

\* wait_queue_broadcast, whose caller has the mutex: where the waiter goes.
Broadcast(place) == IF place = "asleep" THEN "woken" ELSE place

\* Mutant: the caller is never told.
MapperEnds_Untold(m) ==
    /\ pc[m] = "done"
    /\ mappers_in_progress' = mappers_in_progress - 1
    /\ Goes(m, "ended")
    /\ UNCHANGED <<is_reducer_in_progress, slots, reducer_finished_semaphore, starts>>

\* One less in progress; the queue of the caller is woken in the same section.
MapperEnds(m) ==
    /\ pc[m] = "done"
    /\ mappers_in_progress' = mappers_in_progress - 1
    /\ pc' = [pc EXCEPT ![m] = "ended", !["start"] = Broadcast(@)]
    /\ UNCHANGED <<is_reducer_in_progress, slots, reducer_finished_semaphore, starts>>

ReducerBegins ==
    /\ pc["reducer"] = "begun"
    /\ is_reducer_in_progress' = TRUE
    /\ Goes("reducer", "flagged")
    /\ UNCHANGED <<mappers_in_progress, slots, reducer_finished_semaphore, starts>>

\* reducer_fn
Reduce ==
    /\ pc["reducer"] = "flagged"
    /\ reducer_result' = mapper_result_array
    /\ Goes("reducer", "reduced")
    /\ UNCHANGED <<mappers_in_progress, is_reducer_in_progress, mapper_input_array,
                   mapper_result_array, reducer_finished_semaphore, starts>>

ReducerEnds ==
    /\ pc["reducer"] = "reduced"
    /\ is_reducer_in_progress' = FALSE
    /\ Goes("reducer", "posting")
    /\ UNCHANGED <<mappers_in_progress, slots, reducer_finished_semaphore, starts>>

ReducerPosts ==
    /\ pc["reducer"] = "posting"
    /\ reducer_finished_semaphore' = reducer_finished_semaphore + 1
    /\ Goes("reducer", "ended")
    /\ UNCHANGED <<mappers_in_progress, is_reducer_in_progress, slots, starts>>

-----------------------------------------------------------------------------

Caller == Start \/ (\E m \in Mappers : Launch(m)) \/ TestAndWait \/ RunReducer
    \/ ReducerFinished \/ ReadAndCleanup
Reducer == ReducerBegins \/ Reduce \/ ReducerEnds \/ ReducerPosts
Mapper(m) == Map(m) \/ MapperEnds(m)

Finished == (~Running \/ (pc["start"] = "outside" /\ starts = Starts)) /\ UNCHANGED vars

Next ==
    \/ Running /\ (Caller \/ Reducer \/ SpuriousWakeup \/ \E m \in Mappers : Mapper(m))
    \/ Finished

Spec == Init /\ [][Next]_vars
FairSpec == Spec /\ WF_vars(Running /\ Caller) /\ WF_vars(Running /\ Reducer)
    /\ \A m \in Mappers : WF_vars(Running /\ Mapper(m))

-----------------------------------------------------------------------------
(* Properties *)

TypeOK ==
    /\ pc["start"] \in StartPCs
    /\ \A a \in Mappers \cup {"reducer"} : pc[a] \in ThreadPCs
    /\ mappers_in_progress \in 0..n_mappers
    /\ is_reducer_in_progress \in BOOLEAN
    /\ mapper_input_array \subseteq Mappers /\ mapper_result_array \subseteq Mappers
    /\ reducer_result \subseteq Mappers
    /\ reducer_finished_semaphore \in 0..1
    /\ starts \in 0..Starts

\* The reducer reads the results when all are there and no mapper writes any
\* more, and the output reader sees the reduction of all of them.
ReducesAll ==
    /\ pc["reducer"] \in {"flagged", "reduced"} =>
           mapper_result_array = Mappers /\ \A m \in Mappers : pc[m] = "ended"
    /\ pc["start"] = "read" => reducer_result = Mappers /\ pc["reducer"] = "ended"

\* map_reduce_is_in_progress
InProgress == mappers_in_progress # 0 \/ is_reducer_in_progress

\* After the first start has returned nothing is reported to be in progress.
\* While it runs the answer is no as well for a moment, between the last mapper
\* and the reducer, and before the first start it is yes.
IdleReported == starts > 0 /\ pc["start"] = "outside" => ~InProgress

\* The assert behind the wait of map_reduce_start: the caller goes on when no
\* mapper is in progress.
AssertsHold == pc["start"] = "mapped" => mappers_in_progress = 0

\* The first assert of map_reduce_start: whoever calls it finds all mappers still
\* to run.
StartsPass == pc["start"] # "aborted"

\* The first start returns.
Returns == <>(starts = 1 /\ pc["start"] = "outside")
=============================================================================
