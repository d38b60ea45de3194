----------------------------- MODULE EventPair -----------------------------
(***************************************************************************)
(* The event pair of ThreadSyncAdv/threadlib/threadlib.c with its demo: a  *)
(* client puts a request into the shared memory and hands over to the      *)
(* server, which answers in the same memory and hands back.  The memory    *)
(* itself has no lock.  Each side has a POSIX semaphore; a third one tells *)
(* the main thread that the server runs.                                   *)
(***************************************************************************)
EXTENDS Naturals

CONSTANT Limit      \* the client exits with a response above it

VARIABLES
    pc,             \* where the main, the server and the client thread are
    sem0,           \* server_sem0, client_sem0, initial_sync_sem0
    global_shared_memory,
    sent            \* what the client last handed over

vars == <<pc, sem0, global_shared_memory, sent>>

Parties == {"main", "server", "client"}
PCs == {"unborn", "start", "sync", "wait", "prepare", "process", "handoff", "respond", "ended"}

Goes(p, place) == pc' = [pc EXCEPT ![p] = place]

\* event_pair_server_init has been called, the server runs.
Init ==
    /\ pc = [p \in Parties |-> IF p = "client" THEN "unborn" ELSE "start"]
    /\ sem0 = [server |-> 0, client |-> 0, initial_sync |-> 0]
    /\ global_shared_memory = 1
    /\ sent = 0

SemWait(s) == sem0[s] > 0 /\ sem0' = [sem0 EXCEPT ![s] = @ - 1]
SemPost(s) == sem0' = [sem0 EXCEPT ![s] = @ + 1]

\* main: event_pair_initial_sync_wait
MainSync ==
    /\ pc["main"] = "start"
    /\ SemWait("initial_sync")
    /\ Goes("main", "sync")
    /\ UNCHANGED <<global_shared_memory, sent>>

\* main: event_pair_client_init, then the client runs.
StartClient ==
    /\ pc["main"] = "sync"
    /\ sem0' = [sem0 EXCEPT !.client = 0]
    /\ pc' = [pc EXCEPT !["main"] = "ended", !["client"] = "prepare"]
    /\ UNCHANGED <<global_shared_memory, sent>>

\* server_fn: event_pair_initial_sync_signal
ServerStart ==
    /\ pc["server"] = "start"
    /\ SemPost("initial_sync")
    /\ Goes("server", "wait")
    /\ UNCHANGED <<global_shared_memory, sent>>

\* event_pair_server_wait
ServerWait ==
    /\ pc["server"] = "wait"
    /\ SemWait("server")
    /\ Goes("server", "process")
    /\ UNCHANGED <<global_shared_memory, sent>>

Process ==
    /\ pc["server"] = "process"
    /\ global_shared_memory' = global_shared_memory * 2
    /\ Goes("server", "handoff")
    /\ UNCHANGED <<sem0, sent>>

\* event_pair_server_handoff
ServerHandoff ==
    /\ pc["server"] = "handoff"
    /\ SemPost("client")
    /\ Goes("server", "wait")
    /\ UNCHANGED <<global_shared_memory, sent>>

\* event_pair_client_handoff, after the client has written its request.
ClientHandoff ==
    /\ pc["client"] = "prepare"
    /\ sent' = global_shared_memory
    /\ SemPost("server")
    /\ Goes("client", "wait")
    /\ UNCHANGED global_shared_memory

\* event_pair_client_wait
ClientWait ==
    /\ pc["client"] = "wait"
    /\ SemWait("client")
    /\ Goes("client", "respond")
    /\ UNCHANGED <<global_shared_memory, sent>>

\* The client reads the response, and exits or prepares the next request.
Respond ==
    /\ pc["client"] = "respond"
    /\ Goes("client", IF global_shared_memory > Limit THEN "ended" ELSE "prepare")
    /\ UNCHANGED <<sem0, global_shared_memory, sent>>

\* exit(0) ends the process.
Exited == pc["client"] = "ended"
Finished == Exited /\ UNCHANGED vars

Main == ~Exited /\ (MainSync \/ StartClient)
Server == ~Exited /\ (ServerStart \/ ServerWait \/ Process \/ ServerHandoff)
Client == ClientHandoff \/ ClientWait \/ Respond

Next == Main \/ Server \/ Client \/ Finished
Spec == Init /\ [][Next]_vars
FairSpec == Spec /\ WF_vars(Main) /\ WF_vars(Server) /\ WF_vars(Client)

-----------------------------------------------------------------------------
(* Properties *)

TypeOK ==
    /\ pc \in [Parties -> PCs]
    /\ sem0 \in [{"server", "client", "initial_sync"} -> 0..1]
    /\ global_shared_memory \in 1..2 * Limit
    /\ sent \in 0..Limit

\* The shared memory has one user at a time, and the response the client reads
\* answers, once, the request it sent.
HandedOver ==
    /\ ~(pc["client"] \in {"prepare", "respond"} /\ pc["server"] \in {"process", "handoff"})
    /\ pc["client"] = "respond" => global_shared_memory = 2 * sent

\* The exchange goes on until the client has had enough.
Exits == <>Exited
=============================================================================
