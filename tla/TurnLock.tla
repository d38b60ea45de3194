------------------------------ MODULE TurnLock ------------------------------
(***************************************************************************)
(* The readers-writers lock of rw_locks/monitor, which gives the last turn *)
(* to the other kind by closing the door to its own, and the one-lane      *)
(* bridge built upon it: vehicles from left to right take it as readers,   *)
(* the others as writers, each forever.                                    *)
(***************************************************************************)
EXTENDS Naturals, FiniteSets

CONSTANTS
    Readers, Writers,           \* the vehicles LR and RL
    MaxReaders, MaxWriters      \* bounds on n_max_readers, n_max_writers

VARIABLES
    limit,          \* n_max_readers and n_max_writers
    n_locks,
    locked_by,      \* "reader", "writer" or "none" (two flags in the code)
    dont_allow,     \* the kinds that may not enter (two flags in the code)
    waiting,        \* n_reader_waiting and n_writer_waiting
    pc

vars == <<limit, n_locks, locked_by, dont_allow, waiting, pc>>

Users == Readers \cup Writers
Kinds == {"reader", "writer"}
Kind(t) == IF t \in Readers THEN "reader" ELSE "writer"
Other(k) == IF k = "reader" THEN "writer" ELSE "reader"

PCs == {
    "out", "asleep", "woken",
    "locked",   \* ArriveBridge has the lock, has not counted the vehicle yet
    "on",       \* counted in n_LR or n_RL
    "aborted"   \* an assert has failed
    }

Init ==
    /\ limit \in [reader : 1..MaxReaders, writer : 1..MaxWriters]
    /\ n_locks = 0
    /\ locked_by = "none"
    /\ dont_allow = {}
    /\ waiting = [k \in Kinds |-> 0]
    /\ pc = [t \in Users |-> "out"]

-----------------------------------------------------------------------------
(* rw_lock_rd_lock, rw_lock_wr_lock *)

MustWait(k) == locked_by = Other(k) \/ n_locks = limit[k] \/ k \in dont_allow

\* Case 1 asserts what an unlocked lock must look like; the other path asserts
\* that the other kind is not in.
Enter(t) ==
    LET k == Kind(t)
        free == pc[t] = "out" /\ locked_by = "none" /\ k \notin dont_allow
    IN  IF free /\ n_locks # 0
        THEN /\ pc' = [pc EXCEPT ![t] = "aborted"]
             /\ UNCHANGED <<limit, n_locks, locked_by, dont_allow, waiting>>
        ELSE /\ free \/ ~MustWait(k)
             /\ n_locks' = n_locks + 1
             /\ locked_by' = IF n_locks = 0 THEN k ELSE locked_by
             /\ waiting' = [waiting EXCEPT ![k] = IF pc[t] = "woken" THEN @ - 1 ELSE @]
             /\ pc' = [pc EXCEPT ![t] = "locked"]
             /\ UNCHANGED <<limit, dont_allow>>

Block(t) ==
    LET k == Kind(t)
    IN  /\ MustWait(k)
        /\ waiting' = [waiting EXCEPT ![k] = IF pc[t] = "woken" THEN @ ELSE @ + 1]
        /\ pc' = [pc EXCEPT ![t] = "asleep"]
        /\ UNCHANGED <<limit, n_locks, locked_by, dont_allow>>

Lock(t) == pc[t] \in {"out", "woken"} /\ (Enter(t) \/ Block(t))

SpuriousWakeup(t) ==
    /\ pc[t] = "asleep"
    /\ pc' = [pc EXCEPT ![t] = "woken"]
    /\ UNCHANGED <<limit, n_locks, locked_by, dont_allow, waiting>>

\* ArriveBridge counts the vehicle, under bridge_check_mutex.
Arrive(t) ==
    /\ pc[t] = "locked"
    /\ pc' = [pc EXCEPT ![t] = "on"]
    /\ UNCHANGED <<limit, n_locks, locked_by, dont_allow, waiting>>

-----------------------------------------------------------------------------
(* rw_lock_unlock, in ExitBridge: bridge_check_mutex is held around the     *)
(* unlock and the count of the vehicle.                                     *)

Asleep(k) == {t \in Users : pc[t] = "asleep" /\ Kind(t) = k}
Wake(S, t) == [u \in Users |-> IF u = t THEN "out" ELSE IF u \in S THEN "woken" ELSE pc[u]]

\* Others of the kind are still in: one that waits replaces the thread.
Replace(t, k) ==
    /\ n_locks > 1
    /\ n_locks' = n_locks - 1
    /\ \/ /\ Asleep(k) = {} \/ waiting[k] = 0
          /\ pc' = Wake({}, t)
       \/ /\ waiting[k] > 0
          /\ \E u \in Asleep(k) : pc' = Wake({u}, t)
    /\ UNCHANGED <<limit, locked_by, dont_allow, waiting>>

\* Mutant: the door that the turn before has closed is not opened again.
TurnOver_Shut(t, k) ==
    LET other == Other(k)
    IN  /\ n_locks = 1
        /\ n_locks' = 0
        /\ locked_by' = "none"
        /\ IF waiting[other] > 0
           THEN /\ dont_allow' = dont_allow \cup {k}
                /\ pc' = Wake(Asleep(other), t)
           ELSE /\ UNCHANGED dont_allow
                /\ pc' = Wake(IF waiting[k] > 0 THEN Asleep(k) ELSE {}, t)
        /\ UNCHANGED <<limit, waiting>>

\* The last one out: the other kind has its turn when it waits, and the door
\* is closed to the thread's own kind; otherwise who comes first goes first.
TurnOver(t, k) ==
    LET other == Other(k)
    IN  /\ n_locks = 1
        /\ n_locks' = 0
        /\ locked_by' = "none"
        /\ IF waiting[other] > 0
           THEN /\ dont_allow' = {k}
                /\ pc' = Wake(Asleep(other), t)
           ELSE /\ dont_allow' = dont_allow \ {other}
                /\ pc' = Wake(IF waiting[k] > 0 THEN Asleep(k) ELSE {}, t)
        /\ UNCHANGED <<limit, waiting>>

Exit(t) ==
    /\ pc[t] = "on"
    /\ IF n_locks = 0 \/ locked_by = "none"
       THEN /\ pc' = [pc EXCEPT ![t] = "aborted"]
            /\ UNCHANGED <<limit, n_locks, locked_by, dont_allow, waiting>>
       ELSE Replace(t, locked_by) \/ TurnOver(t, locked_by)

-----------------------------------------------------------------------------

\* The vehicles counted in n_LR or n_RL, and what the bridge asserts of them.
On(k) == {t \in Users : pc[t] = "on" /\ Kind(t) = k}

bridge_access ==
    \E k \in Kinds : On(k) = {} /\ Cardinality(On(Other(k))) <= limit[Other(k)]

Step(t) == Lock(t) \/ Arrive(t) \/ Exit(t)

Next ==
    \/ \E t \in Users : Step(t)
    \/ \E t \in Users : SpuriousWakeup(t)

Spec == Init /\ [][Next]_vars
FairSpec == Spec /\ \A t \in Users : WF_vars(Step(t))

-----------------------------------------------------------------------------
(* Properties *)

TypeOK ==
    /\ limit \in [reader : 1..MaxReaders, writer : 1..MaxWriters]
    /\ n_locks \in 0..Cardinality(Users)
    /\ locked_by \in Kinds \cup {"none"}
    /\ dont_allow \subseteq Kinds
    /\ waiting \in [Kinds -> 0..Cardinality(Users)]
    /\ pc \in [Users -> PCs]

\* Vehicles of one direction only are on the bridge, as many as the lock admits;
\* and the asserts of the lock itself never fail.
ChecksHold == bridge_access /\ \A t \in Users : pc[t] # "aborted"

\* The door is never closed to both kinds, and a closed door has a reason:
\* somebody of the other kind is in, or is on the way in.
DoorsReopen ==
    /\ dont_allow # Kinds
    /\ \A k \in dont_allow :
        locked_by = Other(k) \/ \E t \in Users : pc[t] = "woken" /\ Kind(t) = Other(k)

\* A vehicle asleep has to wait, or one of its direction is awake to go.
NoLostWakeup ==
    \A t \in Users : pc[t] = "asleep" =>
        \/ MustWait(Kind(t))
        \/ \E u \in Users : pc[u] = "woken" /\ Kind(u) = Kind(t)

\* Neither direction starves when the other may send one vehicle at a time, as
\* on the bridge of main, whose limits are 1 and 1: the comments about turns in
\* rw_lock_unlock.  (Two vehicles that overlap may keep the bridge forever.)
TurnsCome ==
    \A k \in Kinds : (limit[Other(k)] = 1) => []<>(On(k) # {})

reading == [t \in Users |-> IF pc[t] \in {"locked", "on"} /\ t \in Readers THEN 1 ELSE 0]
writing == [t \in Users |-> IF pc[t] \in {"locked", "on"} /\ t \in Writers THEN 1 ELSE 0]
RW == INSTANCE ReadersWriters WITH Threads <- Users
=============================================================================
