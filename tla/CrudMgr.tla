------------------------------ MODULE CrudMgr ------------------------------
(***************************************************************************)
(* The CRUD manager of ThreadSafeCruds/CrudMgr.cpp: threads ask to read,   *)
(* write, create or delete a node, wait or are refused, and release it.    *)
(*                                                                         *)
(* A node counts the threads in each of nine states under its own mutex;   *)
(* the manager lists the nodes in each state under a second one.  Readers  *)
(* and writers work under the node's mutex, creators and the second half   *)
(* of a delete under the manager's only: the code between two acquisitions *)
(* is one action, except that a granted delete, which does not have the    *)
(* node's mutex, leaves pending_delete, enters no_op and then              *)
(* delete_in_progress in three.  Another request may look at the node's    *)
(* flags meanwhile: it finds none and fails an assert, or it sets one and  *)
(* waits for the manager's mutex.                                          *)
(*                                                                         *)
(* The application looks a node up in its container before it asks for it, *)
(* as in testapp.cpp.  Once an assert has failed, or a node is deleted     *)
(* while it is in use, the program's state means nothing any more:         *)
(* "outcome" records it and the model stops.                               *)
(***************************************************************************)
EXTENDS Naturals, FiniteSets

CONSTANTS
    Readers, Writers, Deleters, Creators,   \* threads
    DataNodes,      \* nodes that are read, written and deleted
    IdleNodes,      \* nodes that are only deleted
    NewNodes,       \* nodes to create
    NoNode,
    Rounds          \* bound: requests of one thread

Threads == Readers \cup Writers \cup Deleters \cup Creators
Nodes == DataNodes \cup IdleNodes \cup NewNodes

\* A thread makes requests of one kind.
ASSUME ThreadsAssumption ==
    /\ IsFiniteSet(Threads) /\ Threads # {}
    /\ Readers \cap (Writers \cup Deleters \cup Creators) = {}
    /\ Writers \cap (Deleters \cup Creators) = {}
    /\ Deleters \cap Creators = {}
ASSUME NodesAssumption == IsFiniteSet(Nodes) /\ NoNode \notin Nodes /\ Rounds \in Nat

\* crud_node_state_t, and crud_op_type_t by the state an operation runs in.
Uses == {"read", "write", "delete", "create"}
Pendings == {"pending_read", "pending_write", "pending_delete", "pending_create"}
States == Uses \cup Pendings \cup {"no_op"}

VARIABLES
    counter,    \* counter[n][s]: entries of node n into state s; flag set if > 0
    curr_op,    \* curr_op[n]: a member of Uses, or "none"
    listed,     \* the nodes in the application's container
    node,       \* the node each thread works on, or NoNode
    pc,         \* where each thread is
    cv,         \* the condition variable each thread sleeps on
    rounds,     \* requests each thread may still make
    outcome

vars == <<counter, curr_op, listed, node, pc, cv, rounds, outcome>>

PCs == {
    "idle",
    "asleep",       \* in pthread_cond_wait with the node's mutex
    "woken",        \* woken from it
    "using",        \* access granted
    "marked",       \* delete: pending_delete set, to take the manager's mutex
    "asleep_mgr",   \* in pthread_cond_wait with the manager's mutex
    "woken_mgr",    \* woken from it
    "unmarking",    \* delete: has the manager's mutex, pending_delete is left
    "granting",     \* ... and the node is in no_op
    "released"      \* create, delete: state left, to take the manager's mutex
    }
Cvs == {"rdrs_cv", "writers_cv", "delete_thread_cv", "create_thread_cv"}

op(t) == CASE t \in Readers  -> "read"   [] t \in Writers  -> "write"
           [] t \in Deleters -> "delete" [] t \in Creators -> "create"
pending(t) ==
    CASE t \in Readers  -> "pending_read"   [] t \in Writers  -> "pending_write"
      [] t \in Deleters -> "pending_delete" [] t \in Creators -> "pending_create"

Init ==
    /\ counter = [n \in Nodes |-> [s \in States |-> IF s = "no_op" THEN 1 ELSE 0]]
    /\ curr_op = [n \in Nodes |-> "none"]
    /\ listed = DataNodes \cup IdleNodes
    /\ node = [t \in Threads |-> NoNode]
    /\ pc = [t \in Threads |-> "idle"]
    /\ cv = [t \in Threads |-> "rdrs_cv"]
    /\ rounds = [t \in Threads |-> Rounds]
    /\ outcome = "running"

-----------------------------------------------------------------------------
(* States of a node *)

Is(c, s) == c[s] > 0
InUse(c) == \E s \in States \ {"no_op"} : Is(c, s)

\* crud_node_enter_state and crud_node_exit_state, on the counters c.
\* Mutant: entering a state that is set already is not counted.
Enter_NotCounted(c, s) == [c EXCEPT ![s] = 1, !["no_op"] = 0]
Enter(c, s) == [c EXCEPT ![s] = @ + 1, !["no_op"] = 0]
Leave(c, s) == [c EXCEPT ![s] = @ - 1]
NoOpIfUnused(c) == IF InUse(c) THEN c ELSE [c EXCEPT !["no_op"] = 1]
\* Mutant: the last exit does not put the node into no_op.
Exit_NoReset(c, s) == Leave(c, s)
Exit(c, s) == NoOpIfUnused(Leave(c, s))

\* curr_op follows the state in progress that is entered first or left last.
SetNode(n, c) ==
    /\ counter' = [counter EXCEPT ![n] = c]
    /\ curr_op' = [curr_op EXCEPT ![n] =
           LET new  == {u \in Uses : Is(c, u) /\ ~Is(counter[n], u)}
               gone == {u \in Uses : ~Is(c, u) /\ Is(counter[n], u)}
           IN  IF new # {} THEN CHOOSE u \in new : TRUE
               ELSE IF gone # {} \/ ~InUse(c) THEN "none"
               ELSE @]

\* A granted delete, with the manager's mutex.
HasMgr(t) == pc[t] \in {"unmarking", "granting"}
MgrFree == \A t \in Threads : ~HasMgr(t)

\* A request that enters a state while a delete has the manager's mutex keeps
\* the node's mutex until the delete has gone on.
NodeFree(n) == \A t \in Threads : HasMgr(t) /\ node[t] = n => ~InUse(counter[n])

Sleepers(n, v) == {t \in Threads : node[t] = n /\ cv[t] = v /\ pc[t] \in {"asleep", "asleep_mgr"}}

\* pthread_cond_signal wakes one of the sleepers, if there are any.
OneOf(ts) == IF ts = {} THEN {{}} ELSE {{t} : t \in ts}

\* t goes to place, the threads ts are woken.
Moves(t, place, ts) ==
    pc' = [u \in Threads |->
              IF u = t THEN place
              ELSE IF u \notin ts THEN pc[u]
              ELSE IF pc[u] = "asleep" THEN "woken" ELSE "woken_mgr"]

Leaves(t) == node' = [node EXCEPT ![t] = NoNode]

\* The state is entered and t is back in the application with its access.
Use(t, n, c) ==
    /\ SetNode(n, Enter(c, op(t)))
    /\ Moves(t, "using", {})
    /\ UNCHANGED cv

Sleep(t, n, c, v, place) ==
    /\ SetNode(n, Enter(c, pending(t)))
    /\ cv' = [cv EXCEPT ![t] = v]
    /\ Moves(t, place, {})

\* A client starts a request for a node it has looked up.
Asks(t, n) ==
    /\ pc[t] = "idle"
    /\ rounds[t] > 0
    /\ rounds' = [rounds EXCEPT ![t] = @ - 1]
    /\ n \in listed
    /\ NodeFree(n)

\* The tests before the loops: the request is rejected.
Rejected(c) ==
    \/ Is(c, "pending_delete") \/ Is(c, "pending_create")
    \/ Is(c, "delete") \/ Is(c, "create")

\* crud_request_read, crud_request_write and crud_request_delete.
AsksFor(t, n) ==
    /\ Asks(t, n)
    /\ t \in Deleters \/ n \in DataNodes
    /\ t \notin Creators

Reject(t, n) ==
    /\ AsksFor(t, n)
    /\ Rejected(counter[n])
    /\ UNCHANGED <<counter, curr_op, listed, node, pc, cv, outcome>>

-----------------------------------------------------------------------------
(* The loops of crud_request_read, crud_request_write and, up to the node's *)
(* mutex being given back, crud_request_delete, with the counters c         *)

\* A reader or writer that finds a delete pending quits and wakes the others.
Quit(t, n, c) ==
    /\ Is(c, "pending_delete")
    /\ SetNode(n, c)
    /\ \E d \in OneOf(Sleepers(n, "delete_thread_cv")) :
           Moves(t, "idle", Sleepers(n, "rdrs_cv") \cup Sleepers(n, "writers_cv") \cup d)
    /\ Leaves(t)
    /\ UNCHANGED cv

\* Readers wait for a writer, and for pending writers when nobody else waits.
ReadBlocked(c) ==
    Is(c, "write") \/ (Is(c, "pending_write") /\ ~Is(c, "read") /\ ~Is(c, "pending_read"))

TryRead(t, n, c) ==
    \/ Quit(t, n, c)
    \/ /\ ~Is(c, "pending_delete")
       /\ node' = [node EXCEPT ![t] = n]
       /\ IF ReadBlocked(c) THEN Sleep(t, n, c, "rdrs_cv", "asleep") ELSE Use(t, n, c)

\* Mutant: a writer waits for writers only.
WriteBlocked_ByWriter(c) == Is(c, "write")
WriteBlocked(c) == Is(c, "write") \/ Is(c, "read")

TryWrite(t, n, c) ==
    \/ Quit(t, n, c)
    \/ /\ ~Is(c, "pending_delete")
       /\ node' = [node EXCEPT ![t] = n]
       /\ IF WriteBlocked(c) THEN Sleep(t, n, c, "writers_cv", "asleep") ELSE Use(t, n, c)

\* A delete waits for all readers and writers of the node, the pending ones
\* included; for readers at work it waits on the readers' condition variable.
TryDelete(t, n, c) ==
    /\ node' = [node EXCEPT ![t] = n]
    /\ IF Is(c, "read")
       THEN Sleep(t, n, c, "rdrs_cv", "asleep")
       ELSE IF InUse(c)
       THEN Sleep(t, n, c, "delete_thread_cv", "asleep")
       ELSE /\ SetNode(n, Enter(c, "pending_delete"))
            /\ Moves(t, "marked", {})
            /\ UNCHANGED cv

Try(t, n, c) ==
    \/ t \in Readers /\ TryRead(t, n, c)
    \/ t \in Writers /\ TryWrite(t, n, c)
    \/ t \in Deleters /\ TryDelete(t, n, c)

\* A request that finds the node in some state.
Request(t, n) ==
    /\ AsksFor(t, n)
    /\ InUse(counter[n]) \/ Is(counter[n], "no_op")
    /\ ~Rejected(counter[n])
    /\ Try(t, n, counter[n])
    /\ UNCHANGED <<listed, outcome>>

\* A request that tests the flags while a granted delete changes them: all
\* tests fail and it comes to the assert(0) behind them, a delete to
\* crud_node_state_verify; or it is past the tests for a rejection when
\* delete_in_progress is entered, and comes to IMPOSSIBLE_CASE.
RequestAborts(t, n) ==
    /\ AsksFor(t, n)
    /\ \E u \in Threads : HasMgr(u) /\ node[u] = n
    /\ outcome' = "assert failed"
    /\ UNCHANGED <<counter, curr_op, listed, node, pc, cv>>

Resume(t) ==
    /\ pc[t] = "woken"
    /\ Try(t, node[t], Exit(counter[node[t]], pending(t)))
    /\ UNCHANGED <<listed, rounds, outcome>>

-----------------------------------------------------------------------------
(* Under the manager's mutex: crud_request_create, and the second half of   *)
(* crud_request_delete                                                      *)

\* The manager's lists of nodes that are being created and deleted.
StructuralChange == \E n \in Nodes : Is(counter[n], "create") \/ Is(counter[n], "delete")

\* A client creates a node that nobody else creates or has created.
CreateRequest(t, n) ==
    /\ t \in Creators
    /\ pc[t] = "idle"
    /\ rounds[t] > 0
    /\ MgrFree
    /\ n \notin listed
    /\ \A u \in Threads : node[u] # n
    /\ node' = [node EXCEPT ![t] = n]
    /\ rounds' = [rounds EXCEPT ![t] = @ - 1]
    /\ IF StructuralChange
       THEN Sleep(t, n, counter[n], "create_thread_cv", "asleep_mgr")
       ELSE Use(t, n, counter[n])
    /\ UNCHANGED <<listed, outcome>>

CreateResume(t) ==
    LET n == node[t]
    IN  /\ t \in Creators
        /\ pc[t] = "woken_mgr"
        /\ MgrFree
        /\ IF StructuralChange
           THEN Sleep(t, n, Exit(counter[n], pending(t)), "create_thread_cv", "asleep_mgr")
           ELSE Use(t, n, Exit(counter[n], pending(t)))
        /\ UNCHANGED <<listed, node, rounds, outcome>>

\* Something is created or deleted somewhere: pending_delete is entered again.
DeleteWait(t) ==
    LET n == node[t]
        c == IF pc[t] = "woken_mgr" THEN Exit(counter[n], pending(t)) ELSE counter[n]
    IN  /\ t \in Deleters
        /\ pc[t] \in {"marked", "woken_mgr"}
        /\ MgrFree
        /\ StructuralChange
        /\ Sleep(t, n, c, "delete_thread_cv", "asleep_mgr")
        /\ UNCHANGED <<listed, node, rounds, outcome>>

\* The delete is granted: pending_delete is left (twice by a woken thread) ...
DeleteUnmark(t) ==
    LET n == node[t]
        c == IF pc[t] = "woken_mgr" THEN Exit(counter[n], pending(t)) ELSE counter[n]
    IN  /\ t \in Deleters
        /\ pc[t] \in {"marked", "woken_mgr"}
        /\ MgrFree
        /\ ~StructuralChange
        /\ SetNode(n, Leave(c, "pending_delete"))
        /\ Moves(t, "unmarking", {})
        /\ UNCHANGED <<listed, node, cv, rounds, outcome>>

\* ... the node is put into no_op ...
DeleteNoOp(t) ==
    /\ pc[t] = "unmarking"
    /\ SetNode(node[t], NoOpIfUnused(counter[node[t]]))
    /\ Moves(t, "granting", {})
    /\ UNCHANGED <<listed, node, cv, rounds, outcome>>

\* ... and delete_in_progress is entered, whoever has come in between.
DeleteGrant(t) ==
    /\ pc[t] = "granting"
    /\ outcome' = IF InUse(counter[node[t]]) THEN "deleted in use" ELSE "running"
    /\ Use(t, node[t], counter[node[t]])
    /\ UNCHANGED <<listed, node, rounds>>

-----------------------------------------------------------------------------
(* crud_request_release *)

\* Whom the last reader, or the writer, wakes.
WokenBy(n, c) ==
    IF Is(c, "read") THEN {{}}
    ELSE IF Is(c, "pending_read") THEN {Sleepers(n, "rdrs_cv")}
    ELSE IF Is(c, "pending_write") THEN OneOf(Sleepers(n, "writers_cv"))
    ELSE IF Is(c, "pending_delete") THEN OneOf(Sleepers(n, "delete_thread_cv"))
    ELSE {{}}

ReleaseData(t) ==
    LET n == node[t]
        c == Exit(counter[n], curr_op[n])
    IN  /\ pc[t] = "using"
        /\ NodeFree(n)
        /\ curr_op[n] \in {"read", "write"}
        /\ SetNode(n, c)
        /\ \E ts \in WokenBy(n, c) : Moves(t, "idle", ts)
        /\ Leaves(t)
        /\ UNCHANGED <<listed, cv, rounds, outcome>>

\* The container changes before the release; then the state is left.
ReleaseStructure(t) ==
    LET n == node[t]
    IN  /\ pc[t] = "using"
        /\ curr_op[n] \in {"create", "delete"}
        /\ SetNode(n, Exit(counter[n], curr_op[n]))
        /\ listed' = IF curr_op[n] = "create" THEN listed \cup {n} ELSE listed \ {n}
        /\ Moves(t, "released", {})
        /\ UNCHANGED <<node, cv, rounds, outcome>>

\* Under the manager's mutex: a pending create goes first, else a pending
\* delete; which of the nodes in the list is its first is left open.
Pending(s) == {n \in Nodes : Is(counter[n], s)}

SignalNext(t) ==
    /\ pc[t] = "released"
    /\ MgrFree
    /\ Leaves(t)
    /\ outcome' = IF StructuralChange THEN "assert failed" ELSE "running"
    /\ LET s  == IF Pending("pending_create") # {} THEN "pending_create" ELSE "pending_delete"
           v  == IF s = "pending_create" THEN "create_thread_cv" ELSE "delete_thread_cv"
       IN  IF Pending(s) = {} \/ StructuralChange THEN Moves(t, "idle", {})
           ELSE \E n \in Pending(s) : \E ts \in OneOf(Sleepers(n, v)) : Moves(t, "idle", ts)
    /\ UNCHANGED <<counter, curr_op, listed, cv, rounds>>

\* POSIX lets pthread_cond_wait return without a signal.
SpuriousWakeup(t) ==
    /\ pc[t] \in {"asleep", "asleep_mgr"}
    /\ pc' = [pc EXCEPT ![t] = IF @ = "asleep" THEN "woken" ELSE "woken_mgr"]
    /\ UNCHANGED <<counter, curr_op, listed, node, cv, rounds, outcome>>

-----------------------------------------------------------------------------

Step(t) ==
    \/ \E n \in Nodes : Reject(t, n) \/ Request(t, n) \/ RequestAborts(t, n)
                        \/ CreateRequest(t, n)
    \/ Resume(t) \/ CreateResume(t)
    \/ DeleteWait(t) \/ DeleteUnmark(t) \/ DeleteNoOp(t) \/ DeleteGrant(t)
    \/ ReleaseData(t) \/ ReleaseStructure(t) \/ SignalNext(t)
    \/ SpuriousWakeup(t)

\* Nobody runs any more: all requests are made, or their threads sleep.
Finished ==
    /\ outcome # "running" \/ \A t \in Threads : pc[t] \in {"idle", "asleep", "asleep_mgr"}
    /\ UNCHANGED vars

Next ==
    \/ outcome = "running" /\ \E t \in Threads : Step(t)
    \/ Finished

Spec == Init /\ [][Next]_vars

-----------------------------------------------------------------------------
(* Properties *)

Using(n, o) == {t \in Threads : node[t] = n /\ pc[t] = "using" /\ op(t) = o}

\* Threads inside the wait of state s, woken ones included; a delete that has
\* to wait for the manager has entered pending_delete twice.
Entries(n, s) ==
    LET in == {t \in Threads : node[t] = n /\ pending(t) = s}
    IN  Cardinality({t \in in : pc[t] \in {"asleep", "woken", "marked"}})
        + (IF s = "pending_delete" THEN 2 ELSE 1)
            * Cardinality({t \in in : pc[t] \in {"asleep_mgr", "woken_mgr"}})

TypeOK ==
    /\ counter \in [Nodes -> [States -> 0..(2 * Cardinality(Threads))]]
    /\ curr_op \in [Nodes -> Uses \cup {"none"}]
    /\ listed \subseteq Nodes
    /\ node \in [Threads -> Nodes \cup {NoNode}]
    /\ pc \in [Threads -> PCs]
    /\ cv \in [Threads -> Cvs]
    /\ rounds \in [Threads -> 0..Rounds]
    /\ outcome \in {"running", "assert failed", "deleted in use"}

\* While no assert has failed and no node was deleted in use: the counters of a
\* node are the threads in its states, it is in no_op exactly when there are
\* none and no granted delete is on its way from pending_delete to no_op, and
\* curr_op, by which crud_request_release decides, is the operation of whoever
\* has access: the asserts of crud_node_enter_state and crud_node_exit_state
\* and of the threads of testapp.cpp.
StatesExact ==
    outcome = "running" => \A n \in Nodes :
        /\ \A o \in Uses : counter[n][o] = Cardinality(Using(n, o))
        /\ \A s \in Pendings : counter[n][s] = Entries(n, s)
        /\ Is(counter[n], "no_op") <=>
               ~InUse(counter[n]) /\ \A t \in Threads : node[t] = n => pc[t] # "unmarking"
        /\ \A o \in Uses : Using(n, o) # {} => curr_op[n] = o

\* Until a node is deleted in use, a node has readers, or one thread that
\* writes, creates or deletes it.
Exclusive ==
    outcome = "running" => \A n \in Nodes :
        LET alone == UNION {Using(n, o) : o \in Uses \ {"read"}}
        IN  Cardinality(alone) <= 1 /\ (alone # {} => Using(n, "read") = {})

\* Of all nodes at most one is being created or deleted, whatever the requests
\* in between, and a node that is being deleted is still in the container.
OneStructuralChange ==
    /\ Cardinality({n \in Nodes : Is(counter[n], "create") \/ Is(counter[n], "delete")}) <= 1
    /\ \A n \in Nodes : Is(counter[n], "delete") => n \in listed

\* What the grants of the CRUD requests exclude, on one node and on all of them.
AccessExclusive == Exclusive /\ OneStructuralChange

\* A thread that waits for a node's other users is not forgotten: one of them
\* has access, or is awake and will look.
NobodyForgotten ==
    \A t \in Threads : outcome = "running" /\ pc[t] = "asleep" =>
        \E u \in Threads : node[u] = node[t] /\ pc[u] \in {"woken", "using"}

\* A node is deleted only when no other thread uses it.
NeverDeletedInUse == outcome # "deleted in use"

\* The asserts of crud_request_release (nobody else creates or deletes) and
\* those behind the tests of a request (the node is in some state).
AssertsHold == outcome # "assert failed"
=============================================================================
