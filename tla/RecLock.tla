------------------------------ MODULE RecLock ------------------------------
(***************************************************************************)
(* What a recursive lock promises: a thread may take the lock again while  *)
(* it holds it, and no thread takes it while another thread holds it.      *)
(***************************************************************************)
EXTENDS Naturals

CONSTANT Threads    \* the threads that use the lock

VARIABLE held       \* held[t]: locks taken by t and not yet given back

Init == held = [t \in Threads |-> 0]

Acquire(t) ==
    /\ \A u \in Threads \ {t} : held[u] = 0
    /\ held' = [held EXCEPT ![t] = @ + 1]

Release(t) ==
    /\ held[t] > 0
    /\ held' = [held EXCEPT ![t] = @ - 1]

Next == \E t \in Threads : Acquire(t) \/ Release(t)

Spec == Init /\ [][Next]_held
=============================================================================
