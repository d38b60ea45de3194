------------------------------ MODULE Pipeline ------------------------------
(***************************************************************************)
(* What an assembly line promises: every item goes through the stages      *)
(* 0..N-1 in their order and exactly once, a stage works on one item at a  *)
(* time, and items leave the line in the order in which they came.         *)
(***************************************************************************)
EXTENDS Naturals, Sequences

CONSTANTS Items, N

VARIABLES
    queue,      \* the items that came, in that order, and are not finished
    work,       \* work[i]: the stages that i has been through, in their order
    finished    \* the finished items, in that order

vars == <<queue, work, finished>>

Init ==
    /\ queue = <<>>
    /\ work = [i \in Items |-> <<>>]
    /\ finished = <<>>

Come(i) ==
    /\ \A k \in DOMAIN queue : queue[k] # i
    /\ \A k \in DOMAIN finished : finished[k] # i
    /\ queue' = Append(queue, i)
    /\ UNCHANGED <<work, finished>>

\* Those before item k must have left the stage that it goes through now.
GoOn(k) ==
    /\ Len(work[queue[k]]) < N
    /\ k > 1 => Len(work[queue[k - 1]]) > Len(work[queue[k]])
    /\ work' = [work EXCEPT ![queue[k]] = Append(@, Len(@))]
    /\ UNCHANGED <<queue, finished>>

Finish ==
    /\ queue # <<>>
    /\ Len(work[Head(queue)]) = N
    /\ finished' = Append(finished, Head(queue))
    /\ queue' = Tail(queue)
    /\ UNCHANGED work

Next ==
    \/ \E i \in Items : Come(i)
    \/ \E k \in DOMAIN queue : GoOn(k)
    \/ Finish

Spec == Init /\ [][Next]_vars
=============================================================================
