----------------------------- MODULE LinkedList -----------------------------
(***************************************************************************)
(* The singly linked list of CRUD/LinkedList, node by node: what each call *)
(* does to the nodes, against what it is to do to the sequence of data.    *)
(***************************************************************************)
EXTENDS Naturals, Sequences, FiniteSets

CONSTANTS
    Nodes,      \* where nodes are allocated
    Data,       \* what the list holds: ordered, each value one pointer
    NULL

VARIABLES
    head, node_count,
    next, data,     \* the fields of the nodes
    allocated,      \* the nodes allocated and not freed
    call            \* the last call

vars == <<head, node_count, next, data, allocated, call>>

Calls == {"init", "add", "delete_by_value", "remove_by_value", "delete_by_ptr",
          "reverse", "delete_all", "add_ordered"}

\* init_singly_ll
Init ==
    /\ head = NULL
    /\ node_count = 0
    /\ next = [n \in Nodes |-> NULL]
    /\ data = [n \in Nodes |-> NULL]
    /\ allocated = {}
    /\ call = [name |-> "init", arg |-> NULL]

\* The i-th node from the head; NULL behind the last.
Walk ==
    LET f[i \in 1..(Cardinality(Nodes) + 1)] ==
            IF i = 1 THEN head ELSE IF f[i - 1] = NULL THEN NULL ELSE next[f[i - 1]]
    IN  f

InList == {Walk[i] : i \in 1..node_count}

\* singly_ll_get_node_by_data_ptr, and the search by memcmp: the first node
\* that holds v, or NULL.
Find(v) ==
    LET at == {i \in 1..node_count : data[Walk[i]] = v}
    IN  IF at = {} THEN NULL ELSE Walk[CHOOSE i \in at : \A j \in at : i <= j]

Called(name, arg) == call' = [name |-> name, arg |-> arg]

Unchanged == UNCHANGED <<head, node_count, next, data, allocated>>

-----------------------------------------------------------------------------

\* A new node for v (singly_ll_init_node), with its next.
NewNode(n, v, after, nexts) ==
    /\ n \in Nodes \ allocated
    /\ allocated' = allocated \cup {n}
    /\ data' = [data EXCEPT ![n] = v]
    /\ next' = [nexts EXCEPT ![n] = after]
    /\ node_count' = node_count + 1

AddFirst(v) == \E n \in Nodes : NewNode(n, v, head, next) /\ head' = n

\* singly_ll_add_node_by_val, singly_ll_add_node
AddByVal(v) == IF Find(v) # NULL THEN Unchanged ELSE AddFirst(v)

-----------------------------------------------------------------------------

Free(n) == allocated' = allocated \ {n}

Predecessor(n) == CHOOSE m \in InList : next[m] = n

\* Mutant: the data of the node that is freed is not moved.
DeleteNode_Next(n) ==
    /\ node_count' = node_count - 1
    /\ UNCHANGED data
    /\ IF next[n] # NULL
       THEN /\ next' = [next EXCEPT ![n] = next[next[n]]]
            /\ Free(next[n])
            /\ UNCHANGED head
       ELSE /\ Free(n)
            /\ IF head = n THEN head' = NULL /\ UNCHANGED next
               ELSE next' = [next EXCEPT ![Predecessor(n)] = NULL] /\ UNCHANGED head

\* singly_ll_delete_node: the node takes over its successor, which is freed;
\* the last node is cut off.
DeleteNode(n) ==
    /\ node_count' = node_count - 1
    /\ IF next[n] # NULL
       THEN /\ data' = [data EXCEPT ![n] = data[next[n]]]
            /\ next' = [next EXCEPT ![n] = next[next[n]]]
            /\ Free(next[n])
            /\ UNCHANGED head
       ELSE /\ Free(n)
            /\ UNCHANGED data
            /\ IF head = n THEN head' = NULL /\ UNCHANGED next
               ELSE next' = [next EXCEPT ![Predecessor(n)] = NULL] /\ UNCHANGED head

\* singly_ll_remove_node: the node is unlinked.
RemoveNode(n) ==
    /\ node_count' = node_count - 1
    /\ UNCHANGED data
    /\ IF head = n
       THEN head' = next[n] /\ next' = [next EXCEPT ![n] = NULL]
       ELSE /\ next' = [next EXCEPT ![Predecessor(n)] = next[n], ![n] = NULL]
            /\ UNCHANGED head

\* singly_ll_delete_node_by_value
DeleteByValue(v) == IF Find(v) = NULL THEN Unchanged ELSE DeleteNode(Find(v))

\* singly_ll_remove_node_by_value, singly_ll_remove_node_by_dataptr: nobody is
\* left who knows the node, and it is not freed.
RemoveByValue(v) ==
    IF Find(v) = NULL THEN Unchanged ELSE RemoveNode(Find(v)) /\ UNCHANGED allocated

\* singly_ll_delete_node_by_data_ptr
DeleteByPtr(v) ==
    IF Find(v) = NULL THEN Unchanged ELSE RemoveNode(Find(v)) /\ Free(Find(v))

-----------------------------------------------------------------------------

\* reverse_singly_ll: p1 and p2 run down the list and turn each link round.
Reverse ==
    LET run[i \in 1..Cardinality(Nodes)] ==
            IF i = 1 THEN [p1 |-> head, p2 |-> next[head], links |-> [next EXCEPT ![head] = NULL]]
            ELSE LET r == run[i - 1]
                 IN  IF r.p2 = NULL THEN r
                     ELSE [p1 |-> r.p2, p2 |-> r.links[r.p2],
                           links |-> [r.links EXCEPT ![r.p2] = r.p1]]
        end == run[Cardinality(Nodes)]
    IN  IF node_count <= 1 THEN Unchanged
        ELSE /\ head' = end.p1
             /\ next' = end.links
             /\ UNCHANGED <<node_count, data, allocated>>

\* delete_singly_ll
DeleteAll ==
    /\ allocated' = allocated \ InList
    /\ head' = NULL
    /\ node_count' = 0
    /\ UNCHANGED <<next, data>>

\* singly_ll_add_ordered_data, with a comparison_fn that returns -1 for less.
\* In a list of one node a greater value goes first, another one last.
AddOrdered(v) ==
    LET one == node_count = 1
        greater == {i \in 1..node_count : v < data[Walk[i]]}
        after == IF greater = {} THEN node_count ELSE (CHOOSE i \in greater : \A j \in greater : i <= j) - 1
        prev == Walk[after]
    IN  IF node_count = 0 \/ (one /\ data[head] < v) THEN AddByVal(v)
        ELSE IF ~one /\ v < data[head] THEN AddFirst(v)
        ELSE LET p == IF one THEN head ELSE prev
             IN  \E n \in Nodes \ allocated :
                    /\ NewNode(n, v, next[p], [next EXCEPT ![p] = n])
                    /\ UNCHANGED head

-----------------------------------------------------------------------------

Next ==
    \/ \E v \in Data :
        \/ AddByVal(v) /\ Called("add", v)
        \/ DeleteByValue(v) /\ Called("delete_by_value", v)
        \/ RemoveByValue(v) /\ Called("remove_by_value", v)
        \/ DeleteByPtr(v) /\ Called("delete_by_ptr", v)
        \/ AddOrdered(v) /\ Called("add_ordered", v)
    \/ Reverse /\ Called("reverse", NULL)
    \/ DeleteAll /\ Called("delete_all", NULL)

Spec == Init /\ [][Next]_vars

-----------------------------------------------------------------------------
(* Properties *)

TypeOK ==
    /\ head \in Nodes \cup {NULL}
    /\ node_count \in 0..Cardinality(Nodes)
    /\ next \in [Nodes -> Nodes \cup {NULL}]
    /\ data \in [Nodes -> Data \cup {NULL}]
    /\ allocated \subseteq Nodes
    /\ call.name \in Calls

\* node_count nodes hang on the head, all of them allocated and different; the
\* loops that run by node_count and those that run to NULL see the same nodes.
WellFormed ==
    /\ Cardinality(InList) = node_count
    /\ InList \subseteq allocated
    /\ Walk[node_count + 1] = NULL

\* What the list holds, from the head on.
content == [i \in 1..node_count |-> data[Walk[i]]]

SX == INSTANCE SequencesExt
First(v, s) == CHOOSE i \in 1..Len(s) : s[i] = v /\ \A j \in 1..(i - 1) : s[j] # v
WithoutFirst(v, s) == IF \E i \in 1..Len(s) : s[i] = v THEN SX!RemoveAt(s, First(v, s)) ELSE s
Ascending(s) == \A i, j \in 1..Len(s) : i < j => s[i] <= s[j]
Holds(v, s) == \E i \in 1..Len(s) : s[i] = v

\* What each call is to do to the sequence.  The ordered insertion keeps an
\* ascending list ascending, unless the list has a single node: a
\* greater value goes before it and a smaller one behind.
CallDoes(v) ==
    CASE call'.name = "add" -> content' = IF Holds(v, content) THEN content ELSE <<v>> \o content
      [] call'.name \in {"delete_by_value", "remove_by_value", "delete_by_ptr"} ->
            content' = WithoutFirst(v, content)
      [] call'.name = "reverse" -> content' = SX!Reverse(content)
      [] call'.name = "delete_all" -> content' = <<>>
      [] call'.name = "add_ordered" ->
            /\ \E i \in 1..Len(content') : content'[i] = v /\ SX!RemoveAt(content', i) = content
            /\ Ascending(content) /\ ~(Len(content) = 1 /\ content[1] # v) => Ascending(content')
      [] OTHER -> TRUE
CallsCorrect == [][CallDoes(call'.arg)]_vars
=============================================================================
