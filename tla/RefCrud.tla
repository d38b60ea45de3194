------------------------------- MODULE RefCrud ------------------------------
(***************************************************************************)
(* The reference-counted students of CRUD: a reader, an updater, a creator *)
(* and a deleter work on one list, a student removed from the list is      *)
(* freed by the last thread that uses it.                                  *)
(*                                                                         *)
(* The write lock of the list is held within one action; its read lock is  *)
(* held while a thread is at "locking", and may wait for the student's     *)
(* own lock there.                                                         *)
(***************************************************************************)
EXTENDS Naturals, FiniteSets

CONSTANTS
    Addresses,      \* where student objects are allocated, and again
    Rolls,          \* the roll numbers (MAX_ROLL_NO of them)
    NULL

VARIABLES
    stud_lst,       \* the students on the list
    alive,          \* the objects allocated and not freed
    roll_no, ref_count,
    hand,           \* the student each thread works on
    pc

vars == <<stud_lst, alive, roll_no, ref_count, hand, pc>>

Threads == {"READER_TH", "UPDATE_TH", "CREATE_TH", "DELETE_TH"}

PCs == {
    "idle",
    "locking",      \* holds the list's read lock, wants the student's lock
    "using",        \* has the student's lock, the list is unlocked
    "done",         \* has unlocked the student, still counted
    "destroy"       \* the count has come to zero: about to free it
    }

Init ==
    /\ stud_lst = {}
    /\ alive = {}
    /\ roll_no = [o \in Addresses |-> NULL]
    /\ ref_count = [o \in Addresses |-> 0]
    /\ hand = [t \in Threads |-> NULL]
    /\ pc = [t \in Threads |-> "idle"]

At(t, place, o) ==
    /\ pc' = [pc EXCEPT ![t] = place]
    /\ hand' = [hand EXCEPT ![t] = o]

\* student_lst_lookup: the students on the list with this roll number.
Lookup(r) == {o \in stud_lst : roll_no[o] = r}

\* student_malloc, and the count of the list as a user, which create_fn takes
\* before anybody can look the student up.
Allocate(o, r) ==
    /\ alive' = alive \cup {o}
    /\ roll_no' = [roll_no EXCEPT ![o] = r]
    /\ ref_count' = [ref_count EXCEPT ![o] = 1]

\* student_lst_insert, student_lst_remove
Insert(o) == stud_lst' = stud_lst \cup {o}
Remove(o) == stud_lst' = stud_lst \ {o}

\* thread_using_object
UsingObject(o) == ref_count' = [ref_count EXCEPT ![o] = @ + 1]

\* The list's write lock can be had.
ListFree == \A t \in Threads : pc[t] # "locking"

-----------------------------------------------------------------------------
(* reader_fn, update_fn *)

\* Mutant: the count goes up with the student's own lock only.
Find_Uncounted(t) ==
    /\ t \in {"READER_TH", "UPDATE_TH"}
    /\ pc[t] = "idle"
    /\ \E r \in Rolls : \E o \in Lookup(r) : At(t, "locking", o)
    /\ UNCHANGED <<stud_lst, alive, roll_no, ref_count>>

\* A student found on the list is counted under the list's read lock.
Find(t) ==
    /\ t \in {"READER_TH", "UPDATE_TH"}
    /\ pc[t] = "idle"
    /\ \E r \in Rolls : \E o \in Lookup(r) : UsingObject(o) /\ At(t, "locking", o)
    /\ UNCHANGED <<stud_lst, alive, roll_no>>

\* One reader and one updater: the student's lock is free or held by the other.
LockStudent(t) ==
    /\ pc[t] = "locking"
    /\ \A u \in Threads : ~(pc[u] = "using" /\ hand[u] = hand[t])
    /\ At(t, "using", hand[t])
    /\ UNCHANGED <<stud_lst, alive, roll_no, ref_count>>

UnlockStudent(t) ==
    /\ pc[t] = "using"
    /\ At(t, "done", hand[t])
    /\ UNCHANGED <<stud_lst, alive, roll_no, ref_count>>

\* thread_using_object_done, and who brings the count to zero ...
Done(t) ==
    /\ pc[t] = "done"
    /\ ref_count' = [ref_count EXCEPT ![hand[t]] = @ - 1]
    /\ IF ref_count[hand[t]] = 1 THEN At(t, "destroy", hand[t]) ELSE At(t, "idle", NULL)
    /\ UNCHANGED <<stud_lst, alive, roll_no>>

\* ... frees the student (student_destroy).
Destroy(t) ==
    /\ pc[t] = "destroy"
    /\ alive' = alive \ {hand[t]}
    /\ At(t, "idle", NULL)
    /\ UNCHANGED <<stud_lst, roll_no, ref_count>>

-----------------------------------------------------------------------------
(* create_fn, delete_fn: under the list's write lock *)

\* Mutant: nothing is looked up before the insertion.
Create_Blind(t) ==
    /\ t = "CREATE_TH"
    /\ ListFree
    /\ \E r \in Rolls, o \in Addresses \ alive : Allocate(o, r) /\ Insert(o)
    /\ UNCHANGED <<hand, pc>>

\* A new roll number: the list counts as one user of its student.
Create(t) ==
    /\ t = "CREATE_TH"
    /\ ListFree
    /\ \E r \in Rolls, o \in Addresses \ alive :
        Lookup(r) = {} /\ Allocate(o, r) /\ Insert(o)
    /\ UNCHANGED <<hand, pc>>

\* The deleter counts itself and the list no longer: the count stays.
Delete(t) ==
    /\ t = "DELETE_TH"
    /\ pc[t] = "idle"
    /\ ListFree
    /\ \E r \in Rolls : \E o \in Lookup(r) : Remove(o) /\ At(t, "done", o)
    /\ UNCHANGED <<alive, roll_no, ref_count>>

-----------------------------------------------------------------------------

\* What a thread that has a student does with it.
Step(t) == LockStudent(t) \/ UnlockStudent(t) \/ Done(t) \/ Destroy(t)

Next == \E t \in Threads : Step(t) \/ Find(t) \/ Create(t) \/ Delete(t)

Spec == Init /\ [][Next]_vars
FairSpec == Spec /\ \A t \in Threads : WF_vars(Step(t))

-----------------------------------------------------------------------------
(* Properties *)

TypeOK ==
    /\ stud_lst \subseteq Addresses
    /\ alive \subseteq Addresses
    /\ roll_no \in [Addresses -> Rolls \cup {NULL}]
    /\ ref_count \in [Addresses -> 0..(Cardinality(Threads) + 1)]
    /\ hand \in [Threads -> Addresses \cup {NULL}]
    /\ pc \in [Threads -> PCs]

\* No thread has a student that has been freed, nor has the list, and the list
\* has a roll number once: sign 3, "any crash", of Crud_algo.c.
NoUseAfterFree ==
    /\ stud_lst \subseteq alive
    /\ \A t \in Threads : pc[t] # "idle" => hand[t] \in alive
    /\ \A o, s \in stud_lst : roll_no[o] = roll_no[s] => o = s

\* The count of a student is the number of its users, and of the list: signs 6
\* and 7.  It implies the asserts of delete_fn, ref_count_dec, student_destroy.
RefCountExact ==
    \A o \in alive :
        ref_count[o] = Cardinality({t \in Threads : hand[t] = o /\ pc[t] \in {"locking", "using", "done"}})
                       + (IF o \in stud_lst THEN 1 ELSE 0)

\* A student whose deletion is deferred is freed in the end: sign 5.
DeletedFreed == \A o \in Addresses : o \in alive \ stud_lst ~> o \notin alive
=============================================================================
