----------------------------- MODULE BiasedLock -----------------------------
(***************************************************************************)
(* The readers-writers lock of customizable_rw_locks, whose biasedness     *)
(* says which threads block where and who is woken, under the threads of   *)
(* its test program, which lock, use and unlock forever.                   *)
(*                                                                         *)
(* A call runs under state_mutex up to its end or its wait, and is one     *)
(* action.  A failed assert stops the program: its thread is "aborted".    *)
(***************************************************************************)
EXTENDS Naturals, FiniteSets

CONSTANTS
    Readers, Writers,           \* the threads of the test program
    MaxReaders, MaxWriters      \* n_max_readers, n_max_writers

VARIABLES
    biasedness, n_locks, n_reader_waiting, n_writer_waiting,
    locked_by,      \* "reader", "writer" or "none" (two flags in the code)
    who_used_cs,    \* which kind of thread used the lock last
    pc

vars == <<biasedness, n_locks, n_reader_waiting, n_writer_waiting, locked_by,
          who_used_cs, pc>>

Users == Readers \cup Writers
Biases == {"NEUTRAL", "READERS", "WRITERS", "OPPOSITE"}

Kind(t) == IF t \in Readers THEN "reader" ELSE "writer"
Other(k) == IF k = "reader" THEN "writer" ELSE "reader"
Limit(k) == IF k = "reader" THEN MaxReaders ELSE MaxWriters
Waiting(k) == IF k = "reader" THEN n_reader_waiting ELSE n_writer_waiting

Init ==
    /\ biasedness \in Biases
    /\ n_locks = 0
    /\ n_reader_waiting = 0
    /\ n_writer_waiting = 0
    /\ locked_by = "none"
    /\ who_used_cs = "reader"
    /\ pc = [t \in Users |-> "out"]

-----------------------------------------------------------------------------
(* rw_lock_rd_lock, rw_lock_wr_lock *)

\* rw_lock_was_cs_used_by_reader_last_time, ..._writer_last_time
UsedLast(k) == who_used_cs = k

\* Mutant: the kind that has the lock is not asked for.
MustWait_Anyone(k) == n_locks = Limit(k)

\* The conditions of the two while loops.
MustWait(k) ==
    \/ locked_by = Other(k)
    \/ n_locks = Limit(k)
    \/ /\ n_locks = 0
       /\ Waiting(Other(k)) > 0
       /\ biasedness = "OPPOSITE"
       /\ UsedLast(k)

\* A reader and a writer may wait only where the bias foresees it ...
MayBlock(k) ==
    biasedness \in IF k = "reader" THEN {"NEUTRAL", "READERS"} ELSE {"NEUTRAL", "WRITERS"}

\* ... and a writer that returns from the wait of the bias to writers falls
\* through into the assert of the default case.
WokenInto(k) == k = "writer" /\ biasedness = "WRITERS"

Count(k, n) ==
    /\ n_reader_waiting' = IF k = "reader" THEN n_reader_waiting + n ELSE n_reader_waiting
    /\ n_writer_waiting' = IF k = "writer" THEN n_writer_waiting + n ELSE n_writer_waiting

Abort(t) ==
    /\ pc' = [pc EXCEPT ![t] = "aborted"]
    /\ UNCHANGED <<biasedness, n_locks, n_reader_waiting, n_writer_waiting, locked_by,
                   who_used_cs>>

\* The lock is taken, or waited for.  A thread that waits again counts itself
\* out and in, which changes nothing.
Enter(t) ==
    LET k == Kind(t)
        woken == pc[t] = "woken"
    IN  /\ ~MustWait(k)
        /\ Count(k, IF woken THEN 0 - 1 ELSE 0)
        /\ locked_by' = IF n_locks = 0 THEN k ELSE locked_by
        /\ n_locks' = n_locks + 1
        /\ pc' = [pc EXCEPT ![t] = "in"]
        /\ UNCHANGED <<biasedness, who_used_cs>>

Block(t) ==
    LET k == Kind(t)
    IN  /\ MustWait(k)
        /\ IF MayBlock(k)
           THEN /\ Count(k, IF pc[t] = "woken" THEN 0 ELSE 1)
                /\ pc' = [pc EXCEPT ![t] = "asleep"]
                /\ UNCHANGED <<biasedness, n_locks, locked_by, who_used_cs>>
           ELSE Abort(t)

Lock(t) ==
    /\ pc[t] \in {"out", "woken"}
    /\ IF pc[t] = "woken" /\ WokenInto(Kind(t)) THEN Abort(t) ELSE Enter(t) \/ Block(t)

SpuriousWakeup(t) ==
    /\ pc[t] = "asleep"
    /\ pc' = [pc EXCEPT ![t] = "woken"]
    /\ UNCHANGED <<biasedness, n_locks, n_reader_waiting, n_writer_waiting, locked_by,
                   who_used_cs>>

-----------------------------------------------------------------------------
(* rw_lock_unlock, rw_lock_signal *)

Asleep(k) == {t \in Users : pc[t] = "asleep" /\ Kind(t) = k}
One(S) == {{t} : t \in S} \cup IF S = {} THEN {{}} ELSE {}

\* The last thread out broadcasts one variable: all threads wait on that of
\* the neutral lock, otherwise the preferred kind is woken if it waits at all.
LastWakes(k) ==
    LET first == CASE biasedness = "READERS"  -> "reader"
                   [] biasedness = "WRITERS"  -> "writer"
                   [] biasedness = "OPPOSITE" -> Other(k)
                   [] OTHER -> k
    IN  IF biasedness = "NEUTRAL" THEN Asleep("reader") \cup Asleep("writer")
        ELSE Asleep(IF Waiting(first) > 0 THEN first ELSE Other(first))

\* Another one makes room for a thread of its own kind.
Wakes(k) ==
    IF n_locks = 1 THEN {LastWakes(k)}
    ELSE IF Waiting(k) = 0 THEN {{}}
    ELSE IF biasedness = "NEUTRAL" THEN {Asleep("reader") \cup Asleep("writer")}
    ELSE One(Asleep(k))

Unlock(t) ==
    /\ pc[t] = "in"
    /\ IF n_locks = 0 THEN Abort(t)
       ELSE \E woken \in Wakes(locked_by) :
            /\ n_locks' = n_locks - 1
            /\ locked_by' = IF n_locks = 1 THEN "none" ELSE locked_by
            /\ who_used_cs' = IF n_locks = 1 THEN locked_by ELSE who_used_cs
            /\ pc' = [u \in Users |-> IF u = t THEN "out"
                                      ELSE IF u \in woken THEN "woken" ELSE pc[u]]
            /\ UNCHANGED <<biasedness, n_reader_waiting, n_writer_waiting>>

-----------------------------------------------------------------------------

\* The test program is down as soon as one thread has met an assert.
Aborted == \E t \in Users : pc[t] = "aborted"

\* The users in the critical section, and what the test program asserts of them.
Inside(k) == {t \in Users : pc[t] = "in" /\ Kind(t) = k}

cs_status_check ==
    \/ Inside("reader") = {} /\ Cardinality(Inside("writer")) <= MaxWriters
    \/ Inside("writer") = {} /\ Cardinality(Inside("reader")) <= MaxReaders

Step(t) == ~Aborted /\ (Lock(t) \/ Unlock(t))

Next ==
    \/ \E t \in Users : Step(t)
    \/ ~Aborted /\ \E t \in Users : SpuriousWakeup(t)
    \/ Aborted /\ UNCHANGED vars

Spec == Init /\ [][Next]_vars

-----------------------------------------------------------------------------
(* Properties *)

TypeOK ==
    /\ biasedness \in Biases
    /\ n_locks \in 0..Cardinality(Users)
    /\ n_reader_waiting \in 0..Cardinality(Readers)
    /\ n_writer_waiting \in 0..Cardinality(Writers)
    /\ locked_by \in {"none", "reader", "writer"}
    /\ who_used_cs \in {"reader", "writer"}
    /\ pc \in [Users -> {"out", "asleep", "woken", "in", "aborted"}]

\* The check of the test program never fails, whenever it is made: readers or
\* writers are in, and never more of them than their limit.
ChecksHold == cs_status_check

\* The asserts of rw_lock_block_*_thread and of the unlock never fail in the
\* neutral lock, and in one biased to the readers no reader meets one.
AbortsOnlyBiased ==
    \A t \in Users : pc[t] = "aborted" =>
        /\ biasedness # "NEUTRAL"
        /\ biasedness = "READERS" => t \in Writers

\* As long as the program runs, a thread asleep in the lock has to wait, or a
\* thread of its kind is awake to take the room: whatever the bias, no
\* wake-up goes to the wrong variable.
NoLostWakeup ==
    ~Aborted =>
        \A t \in Users : pc[t] = "asleep" =>
            \/ MustWait(Kind(t))
            \/ \E u \in Users : pc[u] = "woken" /\ Kind(u) = Kind(t)

reading == [t \in Users |-> IF pc[t] = "in" /\ t \in Readers THEN 1 ELSE 0]
writing == [t \in Users |-> IF pc[t] = "in" /\ t \in Writers THEN 1 ELSE 0]
RW == INSTANCE ReadersWriters WITH Threads <- Users
=============================================================================
