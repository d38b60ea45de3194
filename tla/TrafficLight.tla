---------------------------- MODULE TrafficLight ----------------------------
(***************************************************************************)
(* The traffic light of section_thread_wait_queues/TrafficLightProblem:    *)
(* cars of two directions pass while the light of their direction is not   *)
(* red, and otherwise wait in its wait queue; the operator sets the lights.*)
(*                                                                         *)
(* The test of the cars locks the mutex of the first direction, EAST,      *)
(* whatever their own is (tr_light_face->mutex); the operator locks the    *)
(* mutex of the direction he sets.  A car writes into a log buffer that    *)
(* all share, and gives the mutex back.  A wait queue keeps no order here. *)
(***************************************************************************)
EXTENDS Naturals, FiniteSets

CONSTANTS EastCars, WestCars, NULL

VARIABLES
    light,      \* the colour of each direction, "off" before the first
    holder,     \* who holds the mutex of each direction
    pc          \* where each car is

vars == <<light, holder, pc>>

Cars == EastCars \cup WestCars
Directions == {"east", "west"}
Colours == {"red", "yellow", "green"}
PCs == {
    "drive",    \* about to test
    "stop",     \* has seen red, holds the mutex
    "asleep",   \* in the wait queue of its direction
    "woken",    \* waits for the mutex
    "go"        \* holds the mutex and writes the log
    }

th_dirn(c) == IF c \in EastCars THEN "east" ELSE "west"

\* The mutex that thread_block_on_tr_light locks.
mutex_of(c) == "east"

\* tr_light_init, the threads of main
Init ==
    /\ light = [d \in Directions |-> "off"]
    /\ holder = [d \in Directions |-> NULL]
    /\ pc = [c \in Cars |-> "drive"]

\* thread_block_on_tr_light: locked, unless the wait has locked it again.
Test(c) ==
    /\ pc[c] \in {"drive", "woken"}
    /\ holder[mutex_of(c)] = NULL
    /\ holder' = [holder EXCEPT ![mutex_of(c)] = c]
    /\ pc' = [pc EXCEPT ![c] = IF light[th_dirn(c)] = "red" THEN "stop" ELSE "go"]
    /\ UNCHANGED light

\* wait_queue_test_and_wait: the mutex is given back as the wait begins.
Wait(c) ==
    /\ pc[c] = "stop"
    /\ holder' = [holder EXCEPT ![mutex_of(c)] = NULL]
    /\ pc' = [pc EXCEPT ![c] = "asleep"]
    /\ UNCHANGED light

\* thread_move: the log is written, the mutex unlocked.
Leave(c) ==
    /\ pc[c] = "go"
    /\ holder' = [holder EXCEPT ![mutex_of(c)] = NULL]
    /\ pc' = [pc EXCEPT ![c] = "drive"]
    /\ UNCHANGED light

SpuriousWakeup(c) ==
    /\ pc[c] = "asleep"
    /\ pc' = [pc EXCEPT ![c] = "woken"]
    /\ UNCHANGED <<light, holder>>

\* tr_light_set_status broadcasts the queue of the direction at green only.
Wakes(col) == col = "green"

\* user_menu: holds the mutex of the direction while it sets the light.
SetStatus(d, col) ==
    /\ holder[d] = NULL
    /\ light' = [light EXCEPT ![d] = col]
    /\ pc' = [c \in Cars |-> IF Wakes(col) /\ th_dirn(c) = d /\ pc[c] = "asleep"
                             THEN "woken" ELSE pc[c]]
    /\ UNCHANGED holder

Step(c) == Test(c) \/ Wait(c) \/ Leave(c)

Next ==
    \/ \E c \in Cars : Step(c)
    \/ \E c \in Cars : SpuriousWakeup(c)
    \/ \E d \in Directions, col \in Colours : SetStatus(d, col)

Spec == Init /\ [][Next]_vars

-----------------------------------------------------------------------------
(* Properties *)

TypeOK ==
    /\ light \in [Directions -> Colours \cup {"off"}]
    /\ holder \in [Directions -> Cars \cup {NULL}]
    /\ pc \in [Cars -> PCs]

\* One car at a time writes the log buffer, also of different directions:
\* because all of them test under the mutex of the first.
LogExclusive == Cardinality({c \in Cars : pc[c] = "go"}) <= 1

\* No car of the first direction sleeps at a green light: the operator and the
\* cars use the same mutex there, so that a broadcast cannot come between the
\* test and the wait.  In the other directions it can.
NoLostWakeup == light["east"] = "green" => \A c \in EastCars : pc[c] # "asleep"
=============================================================================
