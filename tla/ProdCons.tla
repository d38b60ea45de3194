------------------------------ MODULE ProdCons ------------------------------
(***************************************************************************)
(* Producers and consumers on the ring of ProducerConsumer/Queue.c, as in  *)
(* Assignment_prod_cons_on_Q_Solution.c: a producer that has the queue     *)
(* fills it, a consumer that has it drains it, and both wait on the same   *)
(* condition variable.  Each thread does this once.                        *)
(*                                                                         *)
(* The mutex is held from the test to the broadcast; every enqueue and     *)
(* deque is an action, so that the ring can be seen at work.               *)
(***************************************************************************)
EXTENDS Naturals, Sequences

CONSTANTS
    Producers, Consumers,
    Q_DEFAULT_SIZE,     \* slots of the ring
    NULL

VARIABLES
    elem, front, rear, count,   \* the ring
    q_mutex,                    \* the thread that holds it
    pc,                         \* where each thread is
    a,                          \* the last integer produced, of new_int
    consumed                    \* the integers consumed, in order

ring == <<elem, front, rear, count>>
vars == <<ring, q_mutex, pc, a, consumed>>

Threads == Producers \cup Consumers
Slots == 0..(Q_DEFAULT_SIZE - 1)
PCs == {"start", "asleep", "woken", "busy", "ended", "assert_failed"}

\* initQ
Init ==
    /\ elem = [i \in Slots |-> NULL]
    /\ front = 0 /\ rear = 0 /\ count = 0
    /\ q_mutex = NULL
    /\ pc = [t \in Threads |-> "start"]
    /\ a = 0
    /\ consumed = <<>>

is_queue_empty == count = 0
is_queue_full == count = Q_DEFAULT_SIZE
After(i) == IF i = Q_DEFAULT_SIZE - 1 THEN 0 ELSE i + 1

\* Where enqueue puts the element: an empty queue has its place at the front.
NewRear == IF is_queue_empty THEN rear ELSE After(rear)
Place == IF is_queue_empty THEN front ELSE NewRear

\* deque leaves the front where it is when it takes the last element.
NewFront == IF front = rear THEN front ELSE After(front)

\* The predicate on which a thread waits.
CannotStart(t) == IF t \in Producers THEN is_queue_full ELSE is_queue_empty

\* The asserts after the wait: a producer starts on an empty queue, a consumer
\* on a full one.
Expected(t) == IF t \in Producers THEN is_queue_empty ELSE is_queue_full

\* The mutex is had, for the first time or after a wait, and the test made.
Test(t) ==
    /\ pc[t] \in {"start", "woken"}
    /\ q_mutex = NULL
    /\ pc' = [pc EXCEPT ![t] = IF CannotStart(t) THEN "asleep"
                               ELSE IF Expected(t) THEN "busy" ELSE "assert_failed"]
    /\ q_mutex' = IF CannotStart(t) THEN NULL ELSE t
    /\ UNCHANGED <<ring, a, consumed>>

\* One turn of the producer's loop: new_int, enqueue.
Produce(t) ==
    /\ t \in Producers /\ pc[t] = "busy"
    /\ ~is_queue_full
    /\ a' = a + 1
    /\ elem' = [elem EXCEPT ![Place] = a']
    /\ rear' = NewRear
    /\ count' = count + 1
    /\ UNCHANGED <<front, q_mutex, pc, consumed>>

\* One turn of the consumer's loop: deque.
Consume(t) ==
    /\ t \in Consumers /\ pc[t] = "busy"
    /\ ~is_queue_empty
    /\ consumed' = Append(consumed, elem[front])
    /\ elem' = [elem EXCEPT ![front] = NULL]
    /\ front' = NewFront
    /\ count' = count - 1
    /\ UNCHANGED <<rear, q_mutex, pc, a>>

\* pthread_cond_broadcast
Woken(t) == {u \in Threads : pc[u] = "asleep"}

\* The loop is over: broadcast, unlock, end.
End(t) ==
    /\ pc[t] = "busy"
    /\ IF t \in Producers THEN is_queue_full ELSE is_queue_empty
    /\ q_mutex' = NULL
    /\ pc' = [u \in Threads |-> IF u = t THEN "ended" ELSE IF u \in Woken(t) THEN "woken" ELSE pc[u]]
    /\ UNCHANGED <<ring, a, consumed>>

SpuriousWakeup(t) ==
    /\ pc[t] = "asleep"
    /\ pc' = [pc EXCEPT ![t] = "woken"]
    /\ UNCHANGED <<ring, q_mutex, a, consumed>>

Step(t) == Test(t) \/ Produce(t) \/ Consume(t) \/ End(t)
Finished == (\A t \in Threads : pc[t] = "ended") /\ UNCHANGED vars

Next ==
    \/ \E t \in Threads : Step(t)
    \/ \E t \in Threads : SpuriousWakeup(t)
    \/ Finished

Spec == Init /\ [][Next]_vars
FairSpec == Spec /\ \A t \in Threads : WF_vars(Step(t))

-----------------------------------------------------------------------------
(* Properties *)

TypeOK ==
    /\ elem \in [Slots -> 1..a \cup {NULL}]
    /\ front \in Slots /\ rear \in Slots /\ count \in 0..Q_DEFAULT_SIZE
    /\ q_mutex \in Threads \cup {NULL}
    /\ pc \in [Threads -> PCs]
    /\ a \in Nat
    /\ consumed \in Seq(1..a)

\* What enqueue and deque do with front, rear and count, around the end of the
\* array and when the queue becomes empty, is a queue: the integers come out
\* in the order in which they went in, and those inside are in the right slots.
Inside(i) == (front + i - 1) % Q_DEFAULT_SIZE
FirstInFirstOut ==
    /\ \A i \in DOMAIN consumed : consumed[i] = i
    /\ a = Len(consumed) + count
    /\ \A i \in 1..count : elem[Inside(i)] = Len(consumed) + i

\* Between two threads the queue is full or empty, so the asserts hold although
\* both kinds wait on one condition variable and test only their own predicate.
AssertsHold ==
    /\ \A t \in Threads : pc[t] # "assert_failed"
    /\ q_mutex = NULL => is_queue_empty \/ is_queue_full

\* With as many producers as consumers everybody is served: main's joins return.
Ends == <>(\A t \in Threads : pc[t] = "ended")
=============================================================================
