---------------------------- MODULE FirstMonitor ----------------------------
(***************************************************************************)
(* The first monitor of the course (Monitors): readers and writers ask it  *)
(* for a resource, wait on their own lists, and are woken by the release   *)
(* that finds nobody left on the list of users.  Its main runs two readers *)
(* and two writers forever; here any of them.                              *)
(***************************************************************************)
EXTENDS Naturals, Sequences, FiniteSets

CONSTANTS Readers, Writers      \* the threads THREAD_READER, THREAD_WRITER

VARIABLES
    clients,            \* the threads that the program starts
    disturbed,          \* spurious wake-ups happen
    resource_status,    \* MON_RES_...
    using_q,            \* resource_using_threads_q
    reader_wait_q, writer_wait_q,
    pc

vars == <<clients, disturbed, resource_status, using_q, reader_wait_q, writer_wait_q, pc>>

Users == Readers \cup Writers
Statuses == {"available", "busy_by_reader", "busy_by_writer"}
BusyBy(t) == IF t \in Readers THEN "busy_by_reader" ELSE "busy_by_writer"

\* init_monitor
Init ==
    /\ clients \in SUBSET Users
    /\ disturbed \in BOOLEAN
    /\ resource_status = "available"
    /\ using_q = {}
    /\ reader_wait_q = <<>>
    /\ writer_wait_q = <<>>
    /\ pc = [t \in Users |-> "out"]

\* remove_glthread: the thread's own node, if it is on the list.
Without(t, q) ==
    IF \E i \in DOMAIN q : q[i] = t
    THEN LET i == CHOOSE j \in DOMAIN q : q[j] = t
         IN  SubSeq(q, 1, i - 1) \o SubSeq(q, i + 1, Len(q))
    ELSE q

Set(q) == {q[i] : i \in 1..Len(q)}

-----------------------------------------------------------------------------
(* monitor_request_access_permission *)

\* The resource is free, or shared among readers: the thread is listed among
\* its users.
Grant(t) ==
    /\ pc[t] = "out"
    /\ \/ resource_status = "available"
       \/ t \in Readers /\ resource_status = "busy_by_reader"
    /\ resource_status' = BusyBy(t)
    /\ using_q' = using_q \cup {t}
    /\ pc' = [pc EXCEPT ![t] = "in"]
    /\ UNCHANGED <<clients, disturbed, reader_wait_q, writer_wait_q>>

\* Otherwise it waits, at the front of its list.
Wait(t) ==
    /\ pc[t] = "out"
    /\ resource_status # "available"
    /\ ~(t \in Readers /\ resource_status = "busy_by_reader")
    /\ IF t \in Readers
       THEN reader_wait_q' = <<t>> \o reader_wait_q /\ UNCHANGED writer_wait_q
       ELSE writer_wait_q' = <<t>> \o writer_wait_q /\ UNCHANGED reader_wait_q
    /\ pc' = [pc EXCEPT ![t] = "asleep"]
    /\ UNCHANGED <<clients, disturbed, resource_status, using_q>>

\* After the wait nothing is tested, and the thread is not listed as a user.
Resume(t) ==
    /\ pc[t] = "woken"
    /\ resource_status' = BusyBy(t)
    /\ reader_wait_q' = Without(t, reader_wait_q)
    /\ writer_wait_q' = Without(t, writer_wait_q)
    /\ pc' = [pc EXCEPT ![t] = "in"]
    /\ UNCHANGED <<clients, disturbed, using_q>>

SpuriousWakeup(t) ==
    /\ disturbed
    /\ pc[t] = "asleep"
    /\ pc' = [pc EXCEPT ![t] = "woken"]
    /\ UNCHANGED <<clients, disturbed, resource_status, using_q, reader_wait_q, writer_wait_q>>

-----------------------------------------------------------------------------
(* monitor_inform_resource_released *)

\* The thread that has released is out; those in S are signalled.
Wake(S, t) ==
    pc' = [u \in Users |-> IF u = t THEN "out"
                           ELSE IF u \in S /\ pc[u] = "asleep" THEN "woken" ELSE pc[u]]

\* Users are listed: nothing else is done.
ReleaseShared(t) ==
    /\ using_q \ {t} # {}
    /\ Wake({}, t)
    /\ UNCHANGED <<resource_status, reader_wait_q, writer_wait_q>>

\* All readers that wait go next ...
ReleaseToReaders(t) ==
    /\ using_q \ {t} = {}
    /\ reader_wait_q # <<>>
    /\ resource_status' = "busy_by_reader"
    /\ reader_wait_q' = <<>>
    /\ Wake(Set(reader_wait_q), t)
    /\ UNCHANGED writer_wait_q

\* ... or else the writer that came last ...
ReleaseToWriter(t) ==
    /\ using_q \ {t} = {}
    /\ reader_wait_q = <<>>
    /\ writer_wait_q # <<>>
    /\ resource_status' = "busy_by_writer"
    /\ writer_wait_q' = Tail(writer_wait_q)
    /\ Wake({Head(writer_wait_q)}, t)
    /\ UNCHANGED reader_wait_q

\* ... or the resource is free.
ReleaseToNobody(t) ==
    /\ using_q \ {t} = {}
    /\ reader_wait_q = <<>>
    /\ writer_wait_q = <<>>
    /\ resource_status' = "available"
    /\ Wake({}, t)
    /\ UNCHANGED <<reader_wait_q, writer_wait_q>>

Release(t) ==
    /\ pc[t] = "in"
    /\ using_q' = using_q \ {t}
    /\ ReleaseShared(t) \/ ReleaseToReaders(t) \/ ReleaseToWriter(t) \/ ReleaseToNobody(t)
    /\ UNCHANGED <<clients, disturbed>>

-----------------------------------------------------------------------------

Step(t) == t \in clients /\ (Grant(t) \/ Wait(t) \/ Resume(t) \/ Release(t))

Next ==
    \/ \E t \in Users : Step(t)
    \/ \E t \in Users : SpuriousWakeup(t)
    \/ clients = {} /\ UNCHANGED vars

Spec == Init /\ [][Next]_vars

-----------------------------------------------------------------------------
(* Properties *)

TypeOK ==
    /\ clients \subseteq Users
    /\ disturbed \in BOOLEAN
    /\ resource_status \in Statuses
    /\ using_q \subseteq clients
    /\ Set(reader_wait_q) \subseteq Readers /\ Len(reader_wait_q) = Cardinality(Set(reader_wait_q))
    /\ Set(writer_wait_q) \subseteq Writers /\ Len(writer_wait_q) = Cardinality(Set(writer_wait_q))
    /\ pc \in [Users -> {"out", "asleep", "woken", "in"}]

In == {t \in Users : pc[t] = "in"}

\* Readers share the resource and a writer has it alone (monitor.h on the list
\* of users), undisturbed and as long as there is no second reader: two readers
\* woken together are on no list, and the first to leave lets a writer in.
Exclusive ==
    ~disturbed /\ Cardinality(clients \cap Readers) <= 1 =>
        In \subseteq Readers \/ Cardinality(In) = 1

\* While a thread is asleep somebody has the resource, or is on the way to it,
\* and will decide who is next.
NoLostWakeup ==
    (\E t \in Users : pc[t] = "asleep") => \E u \in Users : pc[u] \in {"in", "woken"}

\* Undisturbed, the threads asleep are exactly those on the wait lists, and
\* whoever is listed as a user has the resource.
ListsExact ==
    /\ ~disturbed =>
        Set(reader_wait_q) \cup Set(writer_wait_q) = {t \in Users : pc[t] = "asleep"}
    /\ using_q \subseteq In
=============================================================================
