------------------------------ MODULE Glthread ------------------------------
(***************************************************************************)
(* The doubly linked glue that every wait list of the library hangs its    *)
(* threads on: what the calls do to the links of the nodes, against what   *)
(* they are to do to the sequence of nodes behind the head.                *)
(***************************************************************************)
EXTENDS Naturals, Sequences, FiniteSets

CONSTANTS
    Nodes,
    Keys,       \* what comp_fn compares the nodes by
    NULL

VARIABLES left, right, key, call

vars == <<left, right, key, call>>

HEAD == "head"
All == Nodes \cup {HEAD}

Init ==
    /\ left = [n \in All |-> NULL]
    /\ right = [n \in All |-> NULL]
    /\ key \in [Nodes -> Keys]
    /\ call = [name |-> "init", node |-> NULL, at |-> NULL]

\* The nodes behind the head, by their right links.
content ==
    LET f[i \in 0..Cardinality(Nodes)] ==
            IF i = 0 THEN HEAD ELSE IF f[i - 1] = NULL THEN NULL ELSE right[f[i - 1]]
        n == Cardinality({i \in 1..Cardinality(Nodes) : f[i] # NULL})
    IN  [i \in 1..n |-> f[i]]

InList == {content[i] : i \in 1..Len(content)}

-----------------------------------------------------------------------------

\* glthread_add_next
AddNext(curr, new) ==
    IF right[curr] = NULL
    THEN /\ right' = [right EXCEPT ![curr] = new]
         /\ left' = [left EXCEPT ![new] = curr]
    ELSE /\ right' = [right EXCEPT ![curr] = new, ![new] = right[curr]]
         /\ left' = [left EXCEPT ![new] = curr, ![right[curr]] = new]

\* glthread_add_before, of a node on the list
AddBefore(curr, new) ==
    /\ right' = [right EXCEPT ![left[curr]] = new, ![new] = curr]
    /\ left' = [left EXCEPT ![new] = left[curr], ![curr] = new]

\* glthread_add_last
LastNode == IF content = <<>> THEN HEAD ELSE content[Len(content)]
AddLast(new) == AddNext(LastNode, new)

\* glthread_priority_insert: behind the nodes that are not greater; one node
\* only is a case of its own.
Before(a, b) == key[a] < key[b]
InsertAfter(new) ==
    LET greater == {i \in 1..Len(content) : Before(new, content[i])}
        first == CHOOSE i \in greater : \A j \in greater : i <= j
    IN  IF content = <<>> THEN HEAD
        ELSE IF Len(content) = 1 THEN IF Before(new, content[1]) THEN HEAD ELSE content[1]
        ELSE IF greater = {} THEN content[Len(content)]
        ELSE IF first = 1 THEN HEAD ELSE content[first - 1]
PriorityInsert(new) == AddNext(InsertAfter(new), new)

\* remove_glthread: the head has no left, and a node on no list has neither.
Remove(curr) ==
    IF left[curr] = NULL
    THEN IF right[curr] # NULL
         THEN left' = [left EXCEPT ![right[curr]] = NULL] /\ right' = [right EXCEPT ![curr] = NULL]
         ELSE UNCHANGED <<left, right>>
    ELSE IF right[curr] = NULL
    THEN right' = [right EXCEPT ![left[curr]] = NULL] /\ left' = [left EXCEPT ![curr] = NULL]
    ELSE /\ right' = [right EXCEPT ![left[curr]] = right[curr], ![curr] = NULL]
         /\ left' = [left EXCEPT ![right[curr]] = left[curr], ![curr] = NULL]

\* dequeue_glthread_first
DequeueFirst ==
    IF right[HEAD] = NULL THEN UNCHANGED <<left, right>> ELSE Remove(right[HEAD])

\* delete_glthread_list: every node of the list is removed.
DeleteList ==
    /\ left' = [n \in All |-> IF n \in InList THEN NULL ELSE left[n]]
    /\ right' = [n \in All |-> IF n \in InList \cup {HEAD} THEN NULL ELSE right[n]]

-----------------------------------------------------------------------------

Called(name, node, at) == call' = [name |-> name, node |-> node, at |-> at]

Next ==
    /\ \/ \E n \in Nodes \ InList :
            \/ \E c \in InList \cup {HEAD} : AddNext(c, n) /\ Called("add_next", n, c)
            \/ \E c \in InList : AddBefore(c, n) /\ Called("add_before", n, c)
            \/ AddLast(n) /\ Called("add_last", n, NULL)
            \/ PriorityInsert(n) /\ Called("priority_insert", n, NULL)
       \/ \E n \in Nodes : Remove(n) /\ Called("remove", n, NULL)
       \/ DeleteList /\ Called("delete_list", NULL, NULL)
       \/ DequeueFirst /\ Called("dequeue", NULL, NULL)
    /\ UNCHANGED key

Spec == Init /\ [][Next]_vars

-----------------------------------------------------------------------------
(* Properties *)

TypeOK ==
    /\ left \in [All -> All \cup {NULL}]
    /\ right \in [All -> All \cup {NULL}]
    /\ key \in [Nodes -> Keys]
    /\ call.node \in Nodes \cup {NULL}

\* The links agree in both directions, nothing is to the left of the head, and
\* a node off the list has no links: it can be removed again, as the monitors
\* do, and joins the next list clean.
WellLinked ==
    /\ left[HEAD] = NULL
    /\ \A n \in InList : right[left[n]] = n /\ (right[n] # NULL => left[right[n]] = n)
    /\ \A n \in Nodes \ InList : left[n] = NULL /\ right[n] = NULL

Index(n) == IF n = HEAD THEN 0 ELSE CHOOSE i \in 1..Len(content) : content[i] = n
Sorted(s) == \A i, j \in 1..Len(s) : i < j => key[s[i]] <= key[s[j]]
SX == INSTANCE SequencesExt

\* What each call is to do to the sequence of nodes; the priority queue stays
\* sorted, first come first served among equals.
CallDoes(name, n, at) ==
    CASE name = "add_next" -> content' = SX!InsertAt(content, Index(at) + 1, n)
      [] name = "add_before" -> content' = SX!InsertAt(content, Index(at), n)
      [] name = "add_last" -> content' = Append(content, n)
      [] name = "priority_insert" ->
            /\ \E i \in 1..Len(content') : content'[i] = n /\ SX!RemoveAt(content', i) = content
            /\ Sorted(content) =>
                /\ Sorted(content')
                /\ \A i, j \in 1..Len(content') :
                     content'[j] = n /\ key[content'[i]] = key[n] => i <= j
      [] name = "remove" -> 
            content' = IF n \in InList THEN SX!RemoveAt(content, Index(n)) ELSE content
      [] name = "dequeue" -> content' = IF content = <<>> THEN <<>> ELSE Tail(content)
      [] name = "delete_list" -> content' = <<>>
      [] OTHER -> TRUE
CallsCorrect == [][CallDoes(call'.name, call'.node, call'.at)]_vars
=============================================================================
