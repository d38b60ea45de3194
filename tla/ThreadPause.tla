---------------------------- MODULE ThreadPause ----------------------------
(***************************************************************************)
(* The three ways of the repository to pause a thread at its own pause     *)
(* points.  ThreadPausing/thread_pause.c: thread_pause waits until the     *)
(* worker has stopped.  section_thread_pause/threadlib.c: thread_pause     *)
(* leaves a mark in the flags of the worker and returns.  MasterSlave: the *)
(* menu of main writes the block_status of a slave, to stop it without the *)
(* slave's mutex.  Which of them is used is chosen in the initial state.   *)
(*                                                                         *)
(* A critical section of state_mutex is one action.  thread_pause of the   *)
(* first, thread_test_and_pause of the second and the pause point of the   *)
(* third wait with an "if", so that what they promise supposes that no     *)
(* wait returns without a signal.                                          *)
(***************************************************************************)
EXTENDS Naturals

CONSTANTS
    Controllers,    \* threads that pause and resume the worker
    Commands        \* bound: calls of the controllers together

VARIABLES
    struct,         \* "handshake", "flags" or "slave"
    disturbed,      \* waits may return without a signal
    pc,             \* where the worker and each controller are
    should_pause,   \* handshake: what the pause structure says
    flags,          \* flags: of THREAD_F_RUNNING, _MARKED_FOR_PAUSE, _PAUSED
    block_status,   \* slave: it is to stop
    last,           \* the last command (of flags: that did not come in vain)
    commands        \* calls so far

mode == <<struct, disturbed>>
marks == <<should_pause, flags, block_status>>
vars == <<mode, pc, marks, last, commands>>

Actors == Controllers \cup {"worker"}
PCs == {"running", "asleep", "woken"}

Init ==
    /\ struct \in {"handshake", "flags", "slave"}
    /\ disturbed \in BOOLEAN
    /\ pc = [a \in Actors |-> "running"]
    /\ should_pause = FALSE
    /\ flags = {"RUNNING"}
    /\ block_status = FALSE
    /\ last = "resume"
    /\ commands = 0

Calls(c, api) ==
    /\ struct = api
    /\ pc[c] = "running"
    /\ commands < Commands
    /\ commands' = commands + 1

Goes(a, place) == pc' = [pc EXCEPT ![a] = place]

\* The signal of a resume, at the worker.
Signal == Goes("worker", IF pc["worker"] = "asleep" THEN "woken" ELSE pc["worker"])

-----------------------------------------------------------------------------
(* ThreadPausing/thread_pause.c *)

\* thread_pause: nothing to do when a pause is asked for already.
HandshakePause(c) ==
    /\ Calls(c, "handshake")
    /\ should_pause' = TRUE
    /\ last' = "pause"
    /\ Goes(c, IF should_pause THEN "running" ELSE "asleep")
    /\ UNCHANGED <<mode, flags, block_status>>

\* thread_pause: its wait on notif_cv is over.
HandshakeReturns(c) ==
    /\ struct = "handshake"
    /\ pc[c] = "woken"
    /\ Goes(c, "running")
    /\ UNCHANGED <<mode, marks, last, commands>>

\* thread_resume signals pause_cv and leaves should_pause as it is.
HandshakeResume(c) ==
    /\ Calls(c, "handshake")
    /\ last' = "resume"
    /\ Signal
    /\ UNCHANGED <<mode, marks>>

\* Mutant: the worker stops without telling.
HandshakeStop_Silent ==
    /\ struct = "handshake"
    /\ pc["worker"] = "running"
    /\ should_pause
    /\ Goes("worker", "asleep")
    /\ UNCHANGED <<mode, marks, last, commands>>

\* thread_test_and_pause: tells one controller and waits on pause_cv.
HandshakeStop ==
    /\ struct = "handshake"
    /\ pc["worker"] = "running"
    /\ should_pause
    /\ \/ /\ \A c \in Controllers : pc[c] # "asleep"
          /\ Goes("worker", "asleep")
       \/ \E c \in Controllers :
              /\ pc[c] = "asleep"
              /\ pc' = [pc EXCEPT !["worker"] = "asleep", ![c] = "woken"]
    /\ UNCHANGED <<mode, marks, last, commands>>

\* The worker waits again while should_pause is set.
HandshakeAgain ==
    /\ struct = "handshake"
    /\ pc["worker"] = "woken"
    /\ Goes("worker", IF should_pause THEN "asleep" ELSE "running")
    /\ UNCHANGED <<mode, marks, last, commands>>

-----------------------------------------------------------------------------
(* section_thread_pause/threadlib.c *)

\* thread_pause: in vain unless the thread runs.
FlagsPause(c) ==
    /\ Calls(c, "flags")
    /\ flags' = IF "RUNNING" \in flags THEN flags \cup {"MARKED"} ELSE flags
    /\ last' = IF "RUNNING" \in flags THEN "pause" ELSE last
    /\ UNCHANGED <<mode, pc, should_pause, block_status>>

\* thread_resume: in vain unless the thread is paused, so also when it is
\* marked and has not come to its pause point yet.
FlagsResume(c) ==
    /\ Calls(c, "flags")
    /\ last' = IF "PAUSED" \in flags THEN "resume" ELSE last
    /\ Signal
    /\ UNCHANGED <<mode, marks>>

\* thread_test_and_pause of a thread marked for pause
FlagsStop ==
    /\ struct = "flags"
    /\ pc["worker"] = "running"
    /\ "MARKED" \in flags
    /\ flags' = {"PAUSED"}
    /\ Goes("worker", "asleep")
    /\ UNCHANGED <<mode, should_pause, block_status, last, commands>>

\* It runs again, after thread_pause_fn.
FlagsRun ==
    /\ struct = "flags"
    /\ pc["worker"] = "woken"
    /\ flags' = {"RUNNING"}
    /\ Goes("worker", "running")
    /\ UNCHANGED <<mode, should_pause, block_status, last, commands>>

-----------------------------------------------------------------------------
(* MasterSlave/master_slave.c *)

\* The menu of main: "Stop the thread", an assignment without the mutex.
SlavePause(c) ==
    /\ Calls(c, "slave")
    /\ block_status' = TRUE
    /\ last' = "pause"
    /\ UNCHANGED <<mode, pc, should_pause, flags>>

\* resume_thread
SlaveResume(c) ==
    /\ Calls(c, "slave")
    /\ block_status' = FALSE
    /\ last' = "resume"
    /\ Signal
    /\ UNCHANGED <<mode, should_pause, flags>>

\* pthread_insert_pause_point
SlaveStop ==
    /\ struct = "slave"
    /\ pc["worker"] = "running"
    /\ block_status
    /\ Goes("worker", "asleep")
    /\ UNCHANGED <<mode, marks, last, commands>>

\* Its wait is over, and nothing is tested again.
SlaveRun ==
    /\ struct = "slave"
    /\ pc["worker"] = "woken"
    /\ Goes("worker", "running")
    /\ UNCHANGED <<mode, marks, last, commands>>

-----------------------------------------------------------------------------

SpuriousWakeup(a) ==
    /\ disturbed
    /\ pc[a] = "asleep"
    /\ Goes(a, "woken")
    /\ UNCHANGED <<mode, marks, last, commands>>

Worker == HandshakeStop \/ HandshakeAgain \/ FlagsStop \/ FlagsRun \/ SlaveStop \/ SlaveRun

Next ==
    \/ \E c \in Controllers :
           \/ HandshakePause(c) \/ HandshakeReturns(c) \/ HandshakeResume(c)
           \/ FlagsPause(c) \/ FlagsResume(c) \/ SlavePause(c) \/ SlaveResume(c)
    \/ Worker
    \/ \E a \in Actors : SpuriousWakeup(a)
    \* The worker works on between its pause points.
    \/ UNCHANGED vars

Spec == Init /\ [][Next]_vars

\* The worker comes to its pause points again and again.
FairSpec == Spec /\ WF_vars(Worker) /\ \A c \in Controllers : WF_vars(HandshakeReturns(c))

-----------------------------------------------------------------------------
(* Properties *)

TypeOK ==
    /\ struct \in {"handshake", "flags", "slave"} /\ disturbed \in BOOLEAN
    /\ pc \in [Actors -> PCs]
    /\ should_pause \in BOOLEAN
    /\ block_status \in BOOLEAN
    /\ flags \in {{"RUNNING"}, {"RUNNING", "MARKED"}, {"PAUSED"}}
    /\ last \in {"pause", "resume"}
    /\ commands \in 0..Commands

\* The handshake: the caller of thread_pause goes on only when the worker has
\* stopped.
StoppedWhenTold ==
    struct = "handshake" /\ ~disturbed /\ (\E c \in Controllers : pc[c] = "woken")
        => pc["worker"] \in {"asleep", "woken"}

\* The last command that did not come in vain is the one that holds.  With the
\* flags the thread is marked or stopped after a pause, and only then; a slave is
\* never asleep after a resume, though the pause is written without its mutex.
LastCommandHolds ==
    ~disturbed =>
        /\ struct = "flags" => (last = "pause" <=> "MARKED" \in flags \/ pc["worker"] = "asleep")
        /\ struct = "slave" /\ last = "resume" => pc["worker"] # "asleep"

\* A pause is obeyed: thread_pause of the handshake returns, a marked thread
\* stops unless a resume comes after its stop, and a resumed one runs; a slave
\* stops and runs as told unless it is told otherwise before.
Obeyed ==
    /\ \A c \in Controllers : pc[c] = "asleep" ~> pc[c] = "running"
    /\ flags = {"RUNNING", "MARKED"} ~> flags = {"PAUSED"}
    /\ last = "resume" /\ flags = {"PAUSED"} ~> flags # {"PAUSED"}
    /\ block_status ~> ~block_status \/ pc["worker"] = "asleep"
    /\ struct = "slave" /\ ~block_status ~> block_status \/ pc["worker"] = "running"

\* After thread_resume of the handshake the worker runs, unless a pause is asked
\* for before: should_pause is down again, as thread_destroy_pause_struct asserts
\* of a worker that nobody pauses.
ResumedRuns ==
    struct = "handshake" /\ last = "resume"
        ~> last = "pause" \/ (pc["worker"] = "running" /\ ~should_pause)
=============================================================================
