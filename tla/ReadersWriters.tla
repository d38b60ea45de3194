--------------------------- MODULE ReadersWriters ---------------------------
(***************************************************************************)
(* What a readers-writers lock promises: readers and writers are never in  *)
(* together, at most MaxReaders readers or MaxWriters writers are in, and  *)
(* a thread that is in may enter again (a recursive lock).                 *)
(***************************************************************************)
EXTENDS Naturals, FiniteSets

CONSTANTS
    Threads,        \* the threads that use the lock
    MaxReaders,     \* how many threads may read together
    MaxWriters      \* how many threads may write together

VARIABLES
    reading,        \* reading[t]: read locks taken by t and not given back
    writing         \* writing[t]: write locks taken by t and not given back

Inside(f) == {t \in Threads : f[t] > 0}

Init ==
    /\ reading = [t \in Threads |-> 0]
    /\ writing = [t \in Threads |-> 0]

EnterRead(t) ==
    /\ Inside(writing) = {}
    /\ reading[t] > 0 \/ Cardinality(Inside(reading)) < MaxReaders
    /\ reading' = [reading EXCEPT ![t] = @ + 1]
    /\ UNCHANGED writing

EnterWrite(t) ==
    /\ Inside(reading) = {}
    /\ writing[t] > 0 \/ Cardinality(Inside(writing)) < MaxWriters
    /\ writing' = [writing EXCEPT ![t] = @ + 1]
    /\ UNCHANGED reading

Leave(t) ==
    \/ /\ reading[t] > 0
       /\ reading' = [reading EXCEPT ![t] = @ - 1]
       /\ UNCHANGED writing
    \/ /\ writing[t] > 0
       /\ writing' = [writing EXCEPT ![t] = @ - 1]
       /\ UNCHANGED reading

Next == \E t \in Threads : EnterRead(t) \/ EnterWrite(t) \/ Leave(t)

Spec == Init /\ [][Next]_<<reading, writing>>
=============================================================================
