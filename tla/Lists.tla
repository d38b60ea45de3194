-------------------------------- MODULE Lists --------------------------------
(***************************************************************************)
(* The two linked lists in which the components of MC_Data are kept, side  *)
(* by side over the same nodes: the singly linked list of LinkedListApi.c  *)
(* and the doubly linked glue of glthread.c.                               *)
(***************************************************************************)
EXTENDS Naturals, FiniteSets

CONSTANTS
    Nodes, Data, Keys,      \* of LinkedList, Glthread
    NULL

\* The head of a glued list is not one of its nodes; NULL is neither. What the
\* lists hold is ordered.
ASSUME NodesAssumption ==
    /\ IsFiniteSet(Nodes) /\ NULL \notin Nodes /\ "head" \notin Nodes /\ NULL # "head"
    /\ Data \subseteq Nat /\ Keys \subseteq Nat

VARIABLES
    \* of LinkedList
    head, node_count, next, data, allocated, linked_list_call,
    \* of Glthread
    left, right, key, glthread_call

List == INSTANCE LinkedList WITH call <- linked_list_call
Glue == INSTANCE Glthread WITH call <- glthread_call

varsList == <<head, node_count, next, data, allocated, linked_list_call>>
varsGlue == <<left, right, key, glthread_call>>

\* Each call of the linked lists does to the chain of nodes what it is to do to
\* a sequence (LinkedListApi.c, glthread.c).
CallsCorrect == List!CallsCorrect /\ Glue!CallsCorrect
=============================================================================
