----------------------------- MODULE StagedLine -----------------------------
(***************************************************************************)
(* The assembly line of AssemblyLine/asl.c: stages in a chain, each with a *)
(* queue and a worker thread that takes the first object, processes it and *)
(* hands it to the next stage; the last stage emits it.  Clients enqueue   *)
(* objects at the root stage, and the main thread destroys the line.       *)
(*                                                                         *)
(* A critical section of a q_mutex, with the sections of asl_state_mutex   *)
(* inside it, is one action: only asl_destroy looks at the workers' count, *)
(* and it sees the count before or after.  A cancelled worker dies where   *)
(* it waits, or where it prints and processes; nothing takes back what it  *)
(* holds.  Whether the main thread waits for the emission of all objects   *)
(* before it destroys the line, is chosen in the initial state.            *)
(***************************************************************************)
EXTENDS Naturals, Sequences, FiniteSets

CONSTANTS
    Objects,    \* each enqueued by a client thread of its own
    Stages      \* the number of stages, asl->root_stage being the first

VARIABLES
    patient,                    \* main destroys the line when it is empty
    accept_new_object,
    n_workers_in_operation,
    object_queue,               \* of each stage
    hand,                       \* the object each worker processes, as a queue
    pc,                         \* where each client and "main" is
    wpc,                        \* where each worker is
    cancelled,                  \* stages whose worker has been cancelled
    freed,                      \* stages that have been freed
    accepted, emitted           \* the objects, in order

queues == <<object_queue, hand, accepted, emitted>>
vars == <<patient, accept_new_object, n_workers_in_operation, queues, pc, wpc, cancelled, freed>>

\* asl_add_root_stage, asl_add_child_stage: a chain, in this order.
StageSet == 1..Stages
WorkerPCs == {
    "top",      \* in operation, about to look at its queue
    "process",  \* in operation, with an object
    "asleep", "woken",  \* in pthread_cond_wait, not in operation
    "dead"
    }
ClientPCs == {"start", "checked", "ended", "used_after_free"}
MainPCs == {"open", "destroy", "asleep", "cleanup", "destroyed",
           "assert_failed", "used_after_free"}

InOperation == {s \in StageSet : wpc[s] \in {"top", "process"}}
Running == pc["main"] # "assert_failed" /\ \A a \in DOMAIN pc : pc[a] # "used_after_free"

\* asl_create_new_stage, for each stage: it returns when the worker has counted
\* itself.
Started == [s \in StageSet |-> "top"]

\* asl_create_new
Init ==
    /\ patient \in BOOLEAN
    /\ accept_new_object = TRUE
    /\ n_workers_in_operation = Stages
    /\ object_queue = [s \in StageSet |-> <<>>]
    /\ hand = [s \in StageSet |-> <<>>]
    /\ pc = [a \in Objects \cup {"main"} |-> IF a = "main" THEN "open" ELSE "start"]
    /\ wpc = Started
    /\ cancelled = {}
    /\ freed = {}
    /\ accepted = <<>> /\ emitted = <<>>

\* asl_stage_enqueue signals the worker when the list was empty.
Signalled(s) == wpc[s] = "asleep" /\ object_queue[s] = <<>>

\* One worker less in operation: main is signalled if it destroys the line.
CountsOut(n) ==
    /\ n_workers_in_operation' = n
    /\ pc' = [pc EXCEPT !["main"] = IF @ = "asleep" /\ ~accept_new_object THEN "destroy" ELSE @]

-----------------------------------------------------------------------------
(* asl_enqueue, in a client *)

\* Looks whether objects are accepted, and unlocks.
Check(o) ==
    /\ pc[o] = "start"
    /\ pc' = [pc EXCEPT ![o] = IF accept_new_object THEN "checked" ELSE "ended"]
    /\ UNCHANGED <<patient, accept_new_object, n_workers_in_operation, queues, wpc, cancelled, freed>>

\* asl_stage_enqueue at the root stage
Enqueue(o) ==
    /\ pc[o] = "checked"
    /\ 1 \notin freed
    /\ object_queue' = [object_queue EXCEPT ![1] = Append(@, o)]
    /\ accepted' = Append(accepted, o)
    /\ wpc' = IF Signalled(1) THEN [wpc EXCEPT ![1] = "woken"] ELSE wpc
    /\ pc' = [pc EXCEPT ![o] = "ended"]
    /\ UNCHANGED <<patient, accept_new_object, n_workers_in_operation, hand, emitted, cancelled, freed>>

\* The root stage is gone.
EnqueueFreed(o) ==
    /\ pc[o] = "checked"
    /\ 1 \in freed
    /\ pc' = [pc EXCEPT ![o] = "used_after_free"]
    /\ UNCHANGED <<patient, accept_new_object, n_workers_in_operation, queues, wpc, cancelled, freed>>

-----------------------------------------------------------------------------
(* worker_thread_fn *)

\* The first object is taken; a woken worker counts itself in before.
Take(s) ==
    /\ wpc[s] \in {"top", "woken"}
    /\ object_queue[s] # <<>>
    /\ object_queue' = [object_queue EXCEPT ![s] = Tail(@)]
    /\ hand' = [hand EXCEPT ![s] = <<Head(object_queue[s])>>]
    /\ n_workers_in_operation' = n_workers_in_operation + (IF wpc[s] = "woken" THEN 1 ELSE 0)
    /\ wpc' = [wpc EXCEPT ![s] = "process"]
    /\ UNCHANGED <<patient, accept_new_object, pc, cancelled, freed, accepted, emitted>>

\* Nothing to take: it counts itself out and waits (again).
Sleep(s) ==
    /\ wpc[s] \in {"top", "woken"}
    /\ object_queue[s] = <<>>
    /\ CountsOut(n_workers_in_operation - (IF wpc[s] = "top" THEN 1 ELSE 0))
    /\ wpc' = [wpc EXCEPT ![s] = "asleep"]
    /\ UNCHANGED <<patient, accept_new_object, queues, cancelled, freed>>

\* A worker that is cancelled already does not come out of its wait.
SpuriousWakeup(s) ==
    /\ wpc[s] = "asleep" /\ s \notin cancelled
    /\ wpc' = [wpc EXCEPT ![s] = "woken"]
    /\ UNCHANGED <<patient, accept_new_object, n_workers_in_operation, queues, pc, cancelled, freed>>

\* Processed and handed to the default next stage.
HandOn(s) ==
    /\ wpc[s] = "process"
    /\ s < Stages /\ s + 1 \notin freed
    /\ object_queue' = [object_queue EXCEPT ![s + 1] = @ \o hand[s]]
    /\ hand' = [hand EXCEPT ![s] = <<>>]
    /\ wpc' = [wpc EXCEPT ![s] = "top", ![s + 1] = IF Signalled(s + 1) THEN "woken" ELSE @]
    /\ UNCHANGED <<patient, accept_new_object, n_workers_in_operation, pc, cancelled, freed,
                   accepted, emitted>>

\* The next stage has been destroyed before this one.
HandOnFreed(s) ==
    /\ wpc[s] = "process"
    /\ s + 1 \in freed
    /\ pc' = [pc EXCEPT !["main"] = "used_after_free"]
    /\ UNCHANGED <<patient, accept_new_object, n_workers_in_operation, queues, wpc, cancelled, freed>>

\* No next stage: asl_emit_cbk.
Emit(s) ==
    /\ wpc[s] = "process"
    /\ s = Stages
    /\ emitted' = emitted \o hand[s]
    /\ hand' = [hand EXCEPT ![s] = <<>>]
    /\ wpc' = [wpc EXCEPT ![s] = "top"]
    /\ UNCHANGED <<patient, accept_new_object, n_workers_in_operation, object_queue, pc, cancelled,
                   freed, accepted>>

\* A cancelled worker ends at a cancellation point.
Die(s) ==
    /\ s \in cancelled
    /\ wpc[s] \in {"asleep", "woken", "process"}
    /\ wpc' = [wpc EXCEPT ![s] = "dead"]
    /\ UNCHANGED <<patient, accept_new_object, n_workers_in_operation, queues, pc, cancelled, freed>>

-----------------------------------------------------------------------------
(* asl_destroy, in the main thread *)

Close ==
    /\ pc["main"] = "open"
    /\ patient => Len(emitted) = Cardinality(Objects)
    /\ accept_new_object' = FALSE
    /\ pc' = [pc EXCEPT !["main"] = "destroy"]
    /\ UNCHANGED <<patient, n_workers_in_operation, queues, wpc, cancelled, freed>>

\* Mutant: main goes on after one wait.
AwaitWorkers_NoWait ==
    /\ pc["main"] = "destroy"
    /\ pc' = [pc EXCEPT !["main"] = "cleanup"]
    /\ UNCHANGED <<patient, accept_new_object, n_workers_in_operation, queues, wpc, cancelled, freed>>

\* Waits while workers are in operation.
AwaitWorkers ==
    /\ pc["main"] = "destroy"
    /\ pc' = [pc EXCEPT !["main"] = IF n_workers_in_operation > 0 THEN "asleep" ELSE "cleanup"]
    /\ UNCHANGED <<patient, accept_new_object, n_workers_in_operation, queues, wpc, cancelled, freed>>

MainSpurious ==
    /\ pc["main"] = "asleep"
    /\ pc' = [pc EXCEPT !["main"] = "destroy"]
    /\ UNCHANGED <<patient, accept_new_object, n_workers_in_operation, queues, wpc, cancelled, freed>>

\* asl_traverse_all_stages, post order: the last stage first.
Last == Stages - Cardinality(freed)

\* asl_stage_cleanup cancels the worker ...
Cancel ==
    /\ pc["main"] = "cleanup"
    /\ Last > 0 /\ Last \notin cancelled
    /\ cancelled' = cancelled \cup {Last}
    /\ UNCHANGED <<patient, accept_new_object, n_workers_in_operation, queues, pc, wpc, freed>>

\* ... joins it and frees the stage.
JoinAndFree ==
    /\ pc["main"] = "cleanup"
    /\ Last > 0 /\ wpc[Last] = "dead"
    /\ freed' = freed \cup {Last}
    /\ UNCHANGED <<patient, accept_new_object, n_workers_in_operation, queues, pc, wpc, cancelled>>

\* The assert at the end.
Destroyed ==
    /\ pc["main"] = "cleanup"
    /\ Last = 0
    /\ pc' = [pc EXCEPT !["main"] = IF n_workers_in_operation = 0 THEN "destroyed" ELSE "assert_failed"]
    /\ UNCHANGED <<patient, accept_new_object, n_workers_in_operation, queues, wpc, cancelled, freed>>

-----------------------------------------------------------------------------

Client(o) == Check(o) \/ Enqueue(o) \/ EnqueueFreed(o)
Worker(s) == Take(s) \/ Sleep(s) \/ HandOn(s) \/ HandOnFreed(s) \/ Emit(s) \/ Die(s)
Main == Close \/ AwaitWorkers \/ Cancel \/ JoinAndFree \/ Destroyed
Finished ==
    /\ ~Running \/ (pc["main"] = "destroyed" /\ \A o \in Objects : pc[o] = "ended")
    /\ UNCHANGED vars

Next ==
    \/ Running /\ \E o \in Objects : Client(o)
    \/ Running /\ \E s \in StageSet : Worker(s)
    \/ Running /\ \E s \in StageSet : SpuriousWakeup(s)
    \/ Running /\ (Main \/ MainSpurious)
    \/ Finished

Spec == Init /\ [][Next]_vars
FairSpec == Spec /\ WF_vars(Running /\ Main)
    /\ \A o \in Objects : WF_vars(Running /\ Client(o))
    /\ \A s \in StageSet : WF_vars(Running /\ Worker(s))

-----------------------------------------------------------------------------
(* Properties *)

TypeOK ==
    /\ patient \in BOOLEAN /\ accept_new_object \in BOOLEAN
    /\ n_workers_in_operation \in 0..Stages
    /\ object_queue \in [StageSet -> Seq(Objects)] /\ hand \in [StageSet -> Seq(Objects)]
    /\ \A o \in Objects : pc[o] \in ClientPCs
    /\ pc["main"] \in MainPCs
    /\ wpc \in [StageSet -> WorkerPCs]
    /\ cancelled \subseteq StageSet /\ freed \subseteq StageSet
    /\ accepted \in Seq(Objects) /\ emitted \in Seq(Objects)

\* What is in the line from stage s on, the oldest first.
Content[s \in 1..(Stages + 1)] ==
    IF s > Stages THEN emitted ELSE Content[s + 1] \o hand[s] \o object_queue[s]

\* Until the workers are cancelled no object is lost, doubled or overtaken:
\* what was emitted and what is in the line is what was accepted, in order.
InOrder == cancelled = {} => Content[1] = accepted

\* No worker sleeps beside an object, though only the first object of an empty
\* queue is signalled; and the count is that of the workers in operation.
WorkersExact ==
    cancelled = {} =>
        /\ \A s \in StageSet : wpc[s] = "asleep" => object_queue[s] = <<>>
        /\ n_workers_in_operation = Cardinality(InOperation)

\* A line that is destroyed when it is empty is destroyed cleanly, also if
\* workers wake up meanwhile: no assert, nothing touched after it was freed.
\* Otherwise the woken worker of a stage, in operation only when it runs, or a
\* client past its check, can be missed.
CleanWhenEmpty ==
    patient => Running /\ (pc["main"] \in {"cleanup", "destroyed"} =>
                               emitted = accepted /\ n_workers_in_operation = 0)

\* Every accepted object is emitted, and the line destroyed.
Completes == <>(patient => pc["main"] = "destroyed")
=============================================================================
