---------------------------- MODULE CyclicBarrier ----------------------------
(***************************************************************************)
(* What a barrier that is used again and again promises: threads gather    *)
(* until Parties of them are there, then all of those pass, and the next   *)
(* group gathers when the last of them has passed.                         *)
(***************************************************************************)
EXTENDS Naturals, FiniteSets

CONSTANTS Threads, Parties

VARIABLES
    waiting,    \* the threads of the group that gathers
    released    \* the threads of a complete group that have not yet passed

Init == waiting = {} /\ released = {}

Gather(t) ==
    /\ released = {}
    /\ t \notin waiting
    /\ Cardinality(waiting) + 1 < Parties
    /\ waiting' = waiting \cup {t}
    /\ UNCHANGED released

\* The last of the group passes at once.
Complete(t) ==
    /\ released = {}
    /\ t \notin waiting
    /\ Cardinality(waiting) + 1 = Parties
    /\ waiting' = {}
    /\ released' = waiting

Pass(t) ==
    /\ t \in released
    /\ released' = released \ {t}
    /\ UNCHANGED waiting

Next == \E t \in Threads : Gather(t) \/ Complete(t) \/ Pass(t)

Spec == Init /\ [][Next]_<<waiting, released>>
=============================================================================
