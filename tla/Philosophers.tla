---------------------------- MODULE Philosophers ----------------------------
(***************************************************************************)
(* The dining philosophers of DiningPhilosopherProblem: a philosopher      *)
(* waits for the left spoon, tries the right one, and gives the left one   *)
(* back when the right one is in use.                                      *)
(*                                                                         *)
(* Each spoon has a mutex.  Where the code holds two of them, taking the   *)
(* first and taking the second are actions of their own; is_used and phil  *)
(* of a spoon are set together and are one variable.                       *)
(***************************************************************************)
EXTENDS Naturals

CONSTANTS N_PHILOSOPHER, NULL

VARIABLES
    spoon,      \* who uses each spoon, or NULL
    mutex,      \* who holds the mutex of each spoon, or NULL
    pc          \* where each philosopher is

vars == <<spoon, mutex, pc>>

Phils == 0..(N_PHILOSOPHER - 1)
PCs == {
    "try",      \* about to lock the left spoon
    "asleep", "woken",  \* in the wait for the left spoon
    "right",    \* has the left spoon, about to lock the right one
    "giveup",   \* holds the right mutex, wants the left one
    "eat",
    "release",  \* holds the left mutex, wants the right one
    "release2"  \* has put the left spoon down, holds the right mutex
    }

left(p) == p
right(p) == IF p = 0 THEN N_PHILOSOPHER - 1 ELSE p - 1

Init ==
    /\ spoon = [s \in Phils |-> NULL]
    /\ mutex = [s \in Phils |-> NULL]
    /\ pc = [p \in Phils |-> "try"]

-----------------------------------------------------------------------------
(* philosopher_get_access_both_spoons *)

\* Mutant: the test is not repeated after the wait.
TakeLeft_If(p) ==
    /\ pc[p] \in {"try", "woken"}
    /\ mutex[left(p)] = NULL
    /\ IF spoon[left(p)] \in {NULL, p} \/ pc[p] = "woken"
       THEN /\ spoon' = [spoon EXCEPT ![left(p)] = p]
            /\ pc' = [pc EXCEPT ![p] = "right"]
       ELSE /\ pc' = [pc EXCEPT ![p] = "asleep"]
            /\ UNCHANGED spoon
    /\ UNCHANGED mutex

\* The left spoon is taken, or waited for while another uses it.
TakeLeft(p) ==
    /\ pc[p] \in {"try", "woken"}
    /\ mutex[left(p)] = NULL
    /\ IF spoon[left(p)] \in {NULL, p}
       THEN /\ spoon' = [spoon EXCEPT ![left(p)] = p]
            /\ pc' = [pc EXCEPT ![p] = "right"]
       ELSE /\ pc' = [pc EXCEPT ![p] = "asleep"]
            /\ UNCHANGED spoon
    /\ UNCHANGED mutex

SpuriousWakeup(p) ==
    /\ pc[p] = "asleep"
    /\ pc' = [pc EXCEPT ![p] = "woken"]
    /\ UNCHANGED <<spoon, mutex>>

\* The right spoon is free (or had already), and taken.
TakeRight(p) ==
    /\ pc[p] = "right"
    /\ mutex[right(p)] = NULL
    /\ spoon[right(p)] \in {NULL, p}
    /\ spoon' = [spoon EXCEPT ![right(p)] = p]
    /\ pc' = [pc EXCEPT ![p] = "eat"]
    /\ UNCHANGED mutex

\* The right spoon is in use: its mutex stays locked ...
RightInUse(p) ==
    /\ pc[p] = "right"
    /\ mutex[right(p)] = NULL
    /\ spoon[right(p)] \notin {NULL, p}
    /\ mutex' = [mutex EXCEPT ![right(p)] = p]
    /\ pc' = [pc EXCEPT ![p] = "giveup"]
    /\ UNCHANGED spoon

\* ... while the left one is locked too and the left spoon given back, without
\* a signal.
GiveUp(p) ==
    /\ pc[p] = "giveup"
    /\ mutex[left(p)] = NULL
    /\ spoon' = [spoon EXCEPT ![left(p)] = NULL]
    /\ mutex' = [mutex EXCEPT ![right(p)] = NULL]
    /\ pc' = [pc EXCEPT ![p] = "try"]

-----------------------------------------------------------------------------
(* phil_eat, philosopher_release_both_spoons *)

Release(p) ==
    /\ pc[p] = "eat"
    /\ mutex[left(p)] = NULL
    /\ mutex' = [mutex EXCEPT ![left(p)] = p]
    /\ pc' = [pc EXCEPT ![p] = "release"]
    /\ UNCHANGED spoon

\* Who waits for a spoon: the philosopher whose left one it is.
Signal(s, places) == [places EXCEPT ![s] = IF @ = "asleep" THEN "woken" ELSE @]

\* Both mutexes are held: the left spoon goes, its mutex is unlocked.
ReleaseLeft(p) ==
    /\ pc[p] = "release"
    /\ mutex[right(p)] = NULL
    /\ spoon' = [spoon EXCEPT ![left(p)] = NULL]
    /\ mutex' = [mutex EXCEPT ![left(p)] = NULL, ![right(p)] = p]
    /\ pc' = Signal(left(p), [pc EXCEPT ![p] = "release2"])

\* The right spoon goes.
ReleaseRight(p) ==
    /\ pc[p] = "release2"
    /\ spoon' = [spoon EXCEPT ![right(p)] = NULL]
    /\ mutex' = [mutex EXCEPT ![right(p)] = NULL]
    /\ pc' = Signal(right(p), [pc EXCEPT ![p] = "try"])

-----------------------------------------------------------------------------

Step(p) ==
    \/ TakeLeft(p) \/ TakeRight(p) \/ RightInUse(p) \/ GiveUp(p)
    \/ Release(p) \/ ReleaseLeft(p) \/ ReleaseRight(p)

\* Everybody has taken the left spoon and gives it back: each holds the mutex
\* of its right spoon and waits for that of its left one.
Ring == \A p \in Phils : pc[p] = "giveup"

Next ==
    \/ \E p \in Phils : Step(p)
    \/ \E p \in Phils : SpuriousWakeup(p)
    \/ Ring /\ UNCHANGED vars

Spec == Init /\ [][Next]_vars

-----------------------------------------------------------------------------
(* Properties *)

TypeOK ==
    /\ spoon \in [Phils -> Phils \cup {NULL}]
    /\ mutex \in [Phils -> Phils \cup {NULL}]
    /\ pc \in [Phils -> PCs]

\* The asserts of phil_eat and of the release: whoever eats has both spoons,
\* and whoever gives up has the left one.
EatsWithBoth ==
    \A p \in Phils :
        /\ pc[p] \in {"eat", "release"} => spoon[left(p)] = p /\ spoon[right(p)] = p
        /\ pc[p] = "release2" => spoon[right(p)] = p
        /\ pc[p] \in {"right", "giveup"} => spoon[left(p)] = p

\* A philosopher asleep waits for a spoon that its neighbour uses, although a
\* spoon given back in vain is given back without a signal.
NoLostWakeup == \A p \in Phils : pc[p] = "asleep" => spoon[left(p)] \notin {NULL, p}

\* The philosophers block each other only when all of them give up at once.
Blocked(p) ==
    \/ pc[p] = "asleep"
    \/ pc[p] \in {"try", "woken", "giveup", "eat"} /\ mutex[left(p)] # NULL
    \/ pc[p] \in {"right", "release"} /\ mutex[right(p)] # NULL
BlockedInRingOnly == (\A p \in Phils : Blocked(p)) => Ring
=============================================================================
