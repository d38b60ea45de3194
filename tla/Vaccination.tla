---------------------------- MODULE Vaccination -----------------------------
(***************************************************************************)
(* The vaccination centre of rw_locks/monitor/covidVaccination: a monitor  *)
(* that admits so many citizens of each age, keeps a list of those that    *)
(* wait, and lets who leaves choose the age that is signalled.             *)
(***************************************************************************)
EXTENDS Naturals, Sequences, FiniteSets

CONSTANTS
    Citizens,
    Capacity        \* max_allowed of every age

VARIABLES
    citizen_type,   \* the age of each citizen
    current,        \* how many of each age are in
    waiting_list,   \* the citizens on the list of each age
    pc

vars == <<citizen_type, current, waiting_list, pc>>

\* TEENAGER_T, ADULT_T, SR_ADULT_T, OLD_T
Types == 0..3

Init ==
    /\ citizen_type \in [Citizens -> Types]
    /\ current = [k \in Types |-> 0]
    /\ waiting_list = [k \in Types |-> <<>>]
    /\ pc = [c \in Citizens |-> "out"]

\* remove_glthread: the citizen's own node, if it is on the list.
Without(c, list) ==
    IF \E i \in DOMAIN list : list[i] = c
    THEN LET i == CHOOSE j \in DOMAIN list : list[j] = c
         IN  SubSeq(list, 1, i - 1) \o SubSeq(list, i + 1, Len(list))
    ELSE list

OfType(k, place) == {c \in Citizens : citizen_type[c] = k /\ pc[c] = place}

-----------------------------------------------------------------------------
(* Enter_Covid_Vaccination_Center *)

\* Mutant: the test is not repeated after the wait.
Enter_If(c) ==
    LET k == citizen_type[c]
    IN  /\ pc[c] \in {"out", "woken"}
        /\ current[k] # Capacity \/ pc[c] = "woken"
        /\ current' = [current EXCEPT ![k] = @ + 1]
        /\ waiting_list' = [waiting_list EXCEPT ![k] = Without(c, @)]
        /\ pc' = [pc EXCEPT ![c] = "in"]
        /\ UNCHANGED citizen_type

\* There is room: the citizen leaves the list it has just joined, or was on.
Enter(c) ==
    LET k == citizen_type[c]
    IN  /\ pc[c] \in {"out", "woken"}
        /\ current[k] # Capacity
        /\ current' = [current EXCEPT ![k] = @ + 1]
        /\ waiting_list' = [waiting_list EXCEPT ![k] = Without(c, @)]
        /\ pc' = [pc EXCEPT ![c] = "in"]
        /\ UNCHANGED citizen_type

\* There is none: a citizen joins the list when it comes, but not when it
\* waits again.
Wait(c) ==
    LET k == citizen_type[c]
    IN  /\ pc[c] \in {"out", "woken"}
        /\ current[k] = Capacity
        /\ waiting_list' = [waiting_list EXCEPT ![k] = IF pc[c] = "out" THEN Append(@, c) ELSE @]
        /\ pc' = [pc EXCEPT ![c] = "asleep"]
        /\ UNCHANGED <<citizen_type, current>>

SpuriousWakeup(c) ==
    /\ pc[c] = "asleep"
    /\ pc' = [pc EXCEPT ![c] = "woken"]
    /\ UNCHANGED <<citizen_type, current, waiting_list>>

-----------------------------------------------------------------------------
(* Citizen_Apply_Vaccine; Exit_Covid_Vaccination_Center, default_next_citizen *)

ApplyVaccine(c) ==
    /\ pc[c] = "in"
    /\ pc' = [pc EXCEPT ![c] = "vaccinated"]
    /\ UNCHANGED <<citizen_type, current, waiting_list>>

\* The ages in the order in which one that leaves looks for the next citizen:
\* its own first, then the older ones and around.
Order(k) == [i \in 1..4 |-> (k + i - 1) % 4]

\* The age whose list gives the next citizen (none if all lists are empty).
NextType(k) ==
    LET some == {i \in 1..4 : waiting_list[Order(k)[i]] # <<>>}
    IN  {Order(k)[i] : i \in {i \in some : \A j \in some : i <= j}}

\* The first of that list leaves it and its age is signalled, whoever wakes.
Exit(c) ==
    LET k == citizen_type[c]
    IN  /\ pc[c] = "vaccinated"
        /\ current' = [current EXCEPT ![k] = @ - 1]
        /\ \/ /\ NextType(k) = {}
              /\ pc' = [pc EXCEPT ![c] = "done"]
              /\ UNCHANGED waiting_list
           \/ \E n \in NextType(k) :
              /\ waiting_list' = [waiting_list EXCEPT ![n] = Tail(@)]
              /\ \/ /\ OfType(n, "asleep") = {}
                    /\ pc' = [pc EXCEPT ![c] = "done"]
                 \/ \E w \in OfType(n, "asleep") :
                    pc' = [pc EXCEPT ![c] = "done", ![w] = "woken"]
        /\ UNCHANGED citizen_type

-----------------------------------------------------------------------------

Step(c) == Enter(c) \/ Wait(c) \/ ApplyVaccine(c) \/ Exit(c)

\* Nobody can go on by itself: all are through, or the others are asleep.
Finished == \A c \in Citizens : pc[c] \in {"done", "asleep"}

Next ==
    \/ \E c \in Citizens : Step(c)
    \/ \E c \in Citizens : SpuriousWakeup(c)
    \/ Finished /\ UNCHANGED vars

Spec == Init /\ [][Next]_vars
FairSpec == Spec /\ \A c \in Citizens : WF_vars(Step(c))

-----------------------------------------------------------------------------
(* Properties *)

TypeOK ==
    /\ citizen_type \in [Citizens -> Types]
    /\ current \in [Types -> 0..Capacity]
    /\ \A k \in Types : waiting_list[k] \in Seq(Citizens) /\ Len(waiting_list[k]) <= Cardinality(Citizens)
    /\ pc \in [Citizens -> {"out", "asleep", "woken", "in", "vaccinated", "done"}]

\* As many of an age are in as are counted, and never more than there is room
\* for.
RoomKept ==
    \A k \in Types :
        /\ current[k] = Cardinality(OfType(k, "in")) + Cardinality(OfType(k, "vaccinated"))
        /\ current[k] <= Capacity

\* On the lists are citizens that wait or have just been woken, each once.
ListsExact ==
    \A k \in Types :
        LET list == waiting_list[k]
        IN  /\ \A i \in 1..Len(list) : list[i] \in OfType(k, "asleep") \cup OfType(k, "woken")
            /\ \A i, j \in 1..Len(list) : list[i] = list[j] => i = j

\* A citizen is left asleep beside an empty place only after its age's list has
\* run empty: whoever is still listed is signalled by the next of that age to
\* leave.  (One that has been taken off and waits again is listed no more.)
ListedAreWoken ==
    \A k \in Types :
        OfType(k, "asleep") # {} /\ current[k] < Capacity /\ OfType(k, "woken") = {}
            => waiting_list[k] = <<>>

\* Everybody is vaccinated where the ages leave room for all, as do those of
\* the three citizens of main, 14, 35 and 38.
RoomForAll == \A k \in Types : Cardinality({c \in Citizens : citizen_type[c] = k}) <= Capacity
AllVaccinated == RoomForAll => <>(\A c \in Citizens : pc[c] = "done")
=============================================================================
