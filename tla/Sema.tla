-------------------------------- MODULE Sema --------------------------------
(***************************************************************************)
(* The semaphore of Semaphores/sema.c under the two programs of its        *)
(* directory: threads that share a resource with PERMIT_COUNT permits      *)
(* (semaphore_hello_world.c), and two threads that count together, one     *)
(* the odd and one the even numbers (semaphore_strict_counter.c).          *)
(*                                                                         *)
(* A critical section of sema->mutex is one action.  sema_wait waits with  *)
(* an "if": the counter is taken down before, a woken waiter passes.  POSIX*)
(* lets a wait return without a signal; whether that happens is chosen in  *)
(* the initial state, because the properties are those of a run without.   *)
(***************************************************************************)
EXTENDS Integers, FiniteSets

CONSTANTS
    Users,          \* threads of the hello world program
    PERMIT_COUNT,   \* its permits
    Numbers         \* the strict counter counts up to here

VARIABLES
    program,        \* "hello" or "strict"
    disturbed,      \* waits may return without a signal
    permit_counter, \* of each semaphore
    pc,             \* where each thread is
    pos             \* the call of its program each thread is at

vars == <<program, disturbed, permit_counter, pc, pos>>

Semas == {"sem", "sema0_1", "sema0_2"}
Threads == IF program = "hello" THEN Users ELSE {"odd", "even"}
AllThreads == Users \cup {"odd", "even"}
PCs == {"ready", "asleep", "woken", "ended"}

\* thread_fn_callback of the hello world: wait, use the resource, post.
Hello(i) == [call |-> IF i = 1 THEN "wait" ELSE "post", sema |-> "sem"]

\* thread_fn_callback_odd: print and post, then wait for the even number.
Odd(i) == IF i % 2 = 1 THEN [call |-> "post", sema |-> "sema0_2"]
                       ELSE [call |-> "wait", sema |-> "sema0_1"]

\* thread_fn_callback_even: wait for the odd number, then print and post.
Even(i) == IF i % 2 = 1 THEN [call |-> "wait", sema |-> "sema0_2"]
                        ELSE [call |-> "post", sema |-> "sema0_1"]

Calls(t) == CASE t = "odd" -> 2 * ((Numbers + 1) \div 2)
              [] t = "even" -> 2 * (Numbers \div 2)
              [] OTHER -> 2
Call(t) == CASE t = "odd" -> Odd(pos[t]) [] t = "even" -> Even(pos[t]) [] OTHER -> Hello(pos[t])

Init ==
    /\ program \in {"hello", "strict"}
    /\ disturbed \in BOOLEAN
    /\ permit_counter = [s \in Semas |-> IF s = "sem" THEN PERMIT_COUNT ELSE 0]
    /\ pc = [t \in Threads |-> "ready"]
    /\ pos = [t \in Threads |-> 1]

\* The call of t returns; the others are where places says.
Returns(t, places) ==
    /\ pos' = [pos EXCEPT ![t] = @ + 1]
    /\ pc' = [places EXCEPT ![t] = IF pos[t] = Calls(t) THEN "ended" ELSE "ready"]

Waits(t) == pc[t] = "ready" /\ Call(t).call = "wait"
Posts(t) == pc[t] = "ready" /\ Call(t).call = "post"
Asleep(s) == {t \in Threads : pc[t] = "asleep" /\ Call(t).sema = s}

-----------------------------------------------------------------------------

\* sema_wait with a permit left.
Pass(t) ==
    /\ Waits(t)
    /\ permit_counter[Call(t).sema] > 0
    /\ permit_counter' = [permit_counter EXCEPT ![Call(t).sema] = @ - 1]
    /\ Returns(t, pc)
    /\ UNCHANGED <<program, disturbed>>

\* sema_wait without: one more that waits.
Block(t) ==
    /\ Waits(t)
    /\ permit_counter[Call(t).sema] <= 0
    /\ permit_counter' = [permit_counter EXCEPT ![Call(t).sema] = @ - 1]
    /\ pc' = [pc EXCEPT ![t] = "asleep"]
    /\ UNCHANGED <<program, disturbed, pos>>

\* pthread_cond_wait returns, and so does sema_wait.
Wake(t) ==
    /\ pc[t] = "woken"
    /\ Returns(t, pc)
    /\ UNCHANGED <<program, disturbed, permit_counter>>

\* The threads one of which a post signals.
Woken(s) == IF permit_counter[s] < 0 THEN Asleep(s) ELSE {}

\* sema_post
Post(t) ==
    LET s == Call(t).sema
    IN  /\ Posts(t)
        /\ permit_counter' = [permit_counter EXCEPT ![s] = @ + 1]
        /\ \/ Woken(s) = {} /\ Returns(t, pc)
           \/ \E u \in Woken(s) : Returns(t, [pc EXCEPT ![u] = "woken"])
        /\ UNCHANGED <<program, disturbed>>

SpuriousWakeup(t) ==
    /\ disturbed
    /\ pc[t] = "asleep"
    /\ pc' = [pc EXCEPT ![t] = "woken"]
    /\ UNCHANGED <<program, disturbed, permit_counter, pos>>

\* The main threads join all others, then sema_destroy.
Destroy ==
    /\ \A t \in Threads : pc[t] = "ended"
    /\ permit_counter' = [s \in Semas |-> 0]
    /\ UNCHANGED <<program, disturbed, pc, pos>>

\* The odd thread of the strict counter waits for one post more than there is
\* when Numbers is odd; the main thread then joins it for ever.
LastWait(t) == t = "odd" /\ Numbers % 2 = 1 /\ pos[t] = Calls(t)
Done(t) == pc[t] = "ended" \/ (pc[t] = "asleep" /\ LastWait(t))
Finished == (\A t \in Threads : Done(t)) /\ UNCHANGED vars

Step(t) == Pass(t) \/ Block(t) \/ Wake(t) \/ Post(t)

Next ==
    \/ \E t \in Threads : Step(t)
    \/ \E t \in Threads : SpuriousWakeup(t)
    \/ Destroy
    \/ Finished

Spec == Init /\ [][Next]_vars
FairSpec == Spec /\ \A t \in AllThreads : WF_vars(t \in Threads /\ Step(t))

-----------------------------------------------------------------------------
(* Properties *)

TypeOK ==
    /\ program \in {"hello", "strict"} /\ disturbed \in BOOLEAN
    /\ permit_counter \in [Semas -> Int]
    /\ pc \in [Threads -> PCs]
    /\ pos \in [Threads -> Nat]

\* A negative counter is the number of threads asleep: a permit that a post
\* gives belongs to the waiter it signals, and nobody else can pass with it.
PermitsConserved ==
    ~disturbed => \A s \in Semas :
        Cardinality(Asleep(s)) = IF permit_counter[s] < 0 THEN -permit_counter[s] ELSE 0

\* At most PERMIT_COUNT threads use the resource of the hello world.
Inside == {t \in Threads : pc[t] = "woken" \/ (pc[t] = "ready" /\ pos[t] = 2)}
Limited == program = "hello" /\ ~disturbed => Cardinality(Inside) <= PERMIT_COUNT

\* The numbers come in order: the odd thread prints when it posts, is at most
\* one number ahead, and never behind.
Printed(t) == IF t = "odd" THEN pos[t] \div 2 ELSE (pos[t] - 1) \div 2
Alternates ==
    program = "strict" /\ ~disturbed => Printed("odd") - Printed("even") \in {0, 1}

\* Everybody is served and ends, but for the last wait of the odd thread.
AllDone == <>(\A t \in Threads : Done(t))
=============================================================================
