---------------------------- MODULE CrudMgr_proofs ----------------------------
(***************************************************************************)
(* Proofs about the CRUD manager of CrudMgr.cpp, for any finite sets of    *)
(* threads and nodes and any number of requests.                           *)
(*                                                                         *)
(* A thread has entered a state of its node once, or twice if it is a      *)
(* delete that waits for the manager: its share of that state's counter.   *)
(* A step changes the share of the thread that takes it, and nobody        *)
(* else's; the counters are shown to follow.                               *)
(***************************************************************************)
EXTENDS CrudMgr, FiniteSetTheorems, TLAPS

Counted == Uses \cup Pendings

\* The state that t has entered on node[t].
Entered(t) ==
    IF pc[t] = "using" THEN op(t)
    ELSE IF pc[t] \in {"asleep", "woken", "marked", "asleep_mgr", "woken_mgr"} THEN pending(t)
    ELSE "none"

\* A delete that waits for the manager has entered pending_delete twice.
Twice(t) == t \in Deleters /\ pc[t] \in {"asleep_mgr", "woken_mgr"}

In(n, s) == {t \in Threads : node[t] = n /\ Entered(t) = s}
InTwice(n, s) == {t \in In(n, s) : Twice(t)}
Share(t, n, s) ==
    IF node[t] = n /\ Entered(t) = s THEN IF Twice(t) THEN 2 ELSE 1 ELSE 0
Weight(n, s) == Cardinality(In(n, s)) + Cardinality(InTwice(n, s))

\* TypeOK, but for the bound of the counters.
ClientTyped ==
    /\ listed \subseteq Nodes
    /\ node \in [Threads -> Nodes \cup {NoNode}]
    /\ pc \in [Threads -> PCs]
    /\ cv \in [Threads -> Cvs]
    /\ rounds \in [Threads -> 0..Rounds]
    /\ outcome \in {"running", "assert failed", "deleted in use"}
VariablesTyped ==
    /\ counter \in [Nodes -> [States -> Nat]]
    /\ curr_op \in [Nodes -> Uses \cup {"none"}]
    /\ ClientTyped

\* Where a thread of each kind can be.
RoleOK(t) ==
    /\ node[t] = NoNode <=> pc[t] = "idle"
    /\ t \in Readers \cup Writers => pc[t] \in {"idle", "asleep", "woken", "using"}
    /\ t \in Creators => pc[t] \in {"idle", "asleep_mgr", "woken_mgr", "using", "released"}

\* A granted delete has left pending_delete of n and has not entered no_op.
Unmarking(t, n) == pc[t] = "unmarking" /\ node[t] = n

\* The counters of n are exact, and no_op is set when the others are zero and
\* no granted delete is about to set it.
Exact(n) ==
    /\ \A s \in Counted : counter[n][s] = Weight(n, s)
    /\ counter[n]["no_op"] \in {0, 1}
    /\ Is(counter[n], "no_op") <=>
           ~InUse(counter[n]) /\ \A t \in Threads : ~Unmarking(t, n)

\* What the counters c of a node exclude, while no node was deleted in use.
Excludes(c) ==
    /\ c["write"] <= 1 /\ c["delete"] <= 1 /\ c["create"] <= 1
    /\ Is(c, "write") => ~Is(c, "read")
    /\ Is(c, "delete") \/ Is(c, "create") =>
           \A s, r \in Counted : Is(c, s) /\ Is(c, r) => s = r

\* A node to create is out of the container and nobody else's; a node to
\* delete is in the container.
ContainerOK ==
    /\ \A t \in Creators : pc[t] \in {"asleep_mgr", "woken_mgr", "using"} =>
           node[t] \notin listed /\ \A u \in Threads : node[u] = node[t] => u = t
    /\ \A t \in Deleters : pc[t] \notin {"idle", "released"} => node[t] \in listed

Structural(n) == Is(counter[n], "create") \/ Is(counter[n], "delete")

\* The manager's side: one structural change at a time, and none while a
\* delete is being granted.
ManagerOK ==
    /\ ContainerOK
    /\ \A m, n \in Nodes : Structural(m) /\ Structural(n) => m = n
    /\ \A t \in Threads : HasMgr(t) =>
           ~StructuralChange /\ \A u \in Threads : HasMgr(u) => u = t

CurrOpOK(n) == \A o \in Uses : Is(counter[n], o) => curr_op[n] = o

IInv ==
    /\ VariablesTyped
    /\ \A t \in Threads : RoleOK(t)
    /\ \A n \in Nodes : Exact(n)
    /\ ManagerOK
    /\ outcome = "running" => \A n \in Nodes : Excludes(counter[n]) /\ CurrOpOK(n)

-----------------------------------------------------------------------------
(* States and roles *)

LEMMA StateSets ==
    /\ Counted \subseteq States /\ States = Counted \cup {"no_op"}
    /\ "no_op" \notin Counted /\ "none" \notin States
    /\ Uses \subseteq Counted /\ Pendings \subseteq Counted /\ Uses \cap Pendings = {}
BY DEF Counted, States, Uses, Pendings

LEMMA Roles ==
    ASSUME NEW t \in Threads
    PROVE  /\ op(t) \in Uses /\ pending(t) \in Pendings
           /\ t \in Readers <=> op(t) = "read"
           /\ t \in Writers <=> op(t) = "write"
           /\ t \in Deleters <=> op(t) = "delete"
           /\ t \in Creators <=> op(t) = "create"
           /\ t \in Readers <=> pending(t) = "pending_read"
           /\ t \in Writers <=> pending(t) = "pending_write"
           /\ t \in Deleters <=> pending(t) = "pending_delete"
           /\ t \in Creators <=> pending(t) = "pending_create"
<1> USE ThreadsAssumption DEF Threads, Uses, Pendings
<1>1. CASE t \in Readers
  BY <1>1 DEF op, pending
<1>2. CASE t \in Writers
  BY <1>2 DEF op, pending
<1>3. CASE t \in Deleters
  BY <1>3 DEF op, pending
<1>4. CASE t \in Creators
  BY <1>4 DEF op, pending
<1> QED BY <1>1, <1>2, <1>3, <1>4

\* The counters of a node: typed, and no_op is set only when the others are zero.
Good(c) ==
    /\ c \in [States -> Nat]
    /\ c["no_op"] \in {0, 1}
    /\ Is(c, "no_op") => ~InUse(c)

LEMMA GoodInUse ==
    ASSUME NEW c, Good(c)
    PROVE  /\ InUse(c) <=> \E s \in Counted : c[s] > 0
           /\ InUse(c) => c["no_op"] = 0
           /\ \A s \in Counted : c[s] \in Nat
BY StateSets DEF Good, InUse, Is

\* crud_node_enter_state
LEMMA EnterIs ==
    ASSUME NEW c, c \in [States -> Nat], NEW s \in Counted
    PROVE  /\ Good(Enter(c, s)) /\ InUse(Enter(c, s))
           /\ Enter(c, s)[s] = c[s] + 1
           /\ \A r \in Counted \ {s} : Enter(c, s)[r] = c[r]
<1> DEFINE e == Enter(c, s)
<1>1. /\ e \in [States -> Nat] /\ e["no_op"] = 0 /\ e[s] = c[s] + 1
      /\ \A r \in Counted \ {s} : e[r] = c[r]
  BY StateSets DEF Enter
<1>2. e[s] > 0 /\ s \in States \ {"no_op"}
  BY <1>1, StateSets
<1> HIDE DEF e
<1>3. InUse(e) /\ ~Is(e, "no_op")
  BY <1>1, <1>2 DEF InUse, Is
<1> QED BY <1>1, <1>3 DEF e, Good

\* crud_node_exit_state, up to the test of crud_node_in_use ...
LEMMA LeaveIs ==
    ASSUME NEW c, Good(c), NEW s \in Counted, c[s] > 0
    PROVE  /\ Good(Leave(c, s)) /\ Leave(c, s)["no_op"] = 0
           /\ Leave(c, s)[s] = c[s] - 1
           /\ \A r \in Counted \ {s} : Leave(c, s)[r] = c[r]
<1> DEFINE d == Leave(c, s)
<1>1. c["no_op"] = 0
  BY GoodInUse
<1>2. /\ d \in [States -> Nat] /\ d[s] = c[s] - 1
      /\ \A r \in Counted \ {s} : d[r] = c[r]
      /\ d["no_op"] = 0
  BY <1>1, StateSets DEF Good, Leave
<1> HIDE DEF d
<1> QED BY <1>2 DEF Good, Is, d

\* ... which puts a node nobody uses into no_op ...
LEMMA NoOpIs ==
    ASSUME NEW d, Good(d)
    PROVE  /\ Good(NoOpIfUnused(d))
           /\ Is(NoOpIfUnused(d), "no_op") <=> ~InUse(NoOpIfUnused(d))
           /\ \A r \in Counted : NoOpIfUnused(d)[r] = d[r]
<1> DEFINE e == NoOpIfUnused(d)
<1>1. e = IF InUse(d) THEN d ELSE [d EXCEPT !["no_op"] = 1]
  BY DEF NoOpIfUnused
<1> HIDE DEF e
<1>2. CASE InUse(d)
  BY <1>1, <1>2 DEF Good, e
<1>3. CASE ~InUse(d)
  <2>1. /\ e \in [States -> Nat] /\ e["no_op"] = 1
        /\ \A r \in Counted : e[r] = d[r]
    BY <1>1, <1>3, StateSets DEF Good
  <2>2. ~InUse(e)
    BY <1>3, <2>1, StateSets DEF InUse, Is
  <2> QED BY <2>1, <2>2 DEF Good, Is, e
<1> QED BY <1>2, <1>3

\* ... and as a whole.
LEMMA ExitIs ==
    ASSUME NEW c, Good(c), NEW s \in Counted, c[s] > 0
    PROVE  /\ Good(Exit(c, s))
           /\ Is(Exit(c, s), "no_op") <=> ~InUse(Exit(c, s))
           /\ Exit(c, s)[s] = c[s] - 1
           /\ \A r \in Counted \ {s} : Exit(c, s)[r] = c[r]
BY LeaveIs, NoOpIs DEF Exit

-----------------------------------------------------------------------------
(* Shares *)

LEMMA OneMoves ==
    ASSUME NEW S \in SUBSET Threads, NEW T \in SUBSET Threads, NEW t \in Threads,
           S \ {t} = T \ {t}
    PROVE  /\ Cardinality(S) \in Nat
           /\ Cardinality(T) = Cardinality(S) - (IF t \in S THEN 1 ELSE 0)
                                              + (IF t \in T THEN 1 ELSE 0)
<1>1. IsFiniteSet(S) /\ IsFiniteSet(T) /\ IsFiniteSet(S \ {t})
  BY ThreadsAssumption, FS_Subset
<1>2. Cardinality(S) \in Nat /\ Cardinality(T) \in Nat /\ Cardinality(S \ {t}) \in Nat
  BY <1>1, FS_CardinalityType
<1>3. Cardinality(S \ {t}) = IF t \in S THEN Cardinality(S) - 1 ELSE Cardinality(S)
  BY <1>1, FS_RemoveElement
<1>4. Cardinality(T \ {t}) = IF t \in T THEN Cardinality(T) - 1 ELSE Cardinality(T)
  BY <1>1, FS_RemoveElement
<1>5. Cardinality(S \ {t}) = Cardinality(T \ {t})
  OBVIOUS
<1> QED BY <1>2, <1>3, <1>4, <1>5

\* Everyone but t is where it was, or has been woken there.
OthersStay(t) ==
    \A u \in Threads \ {t} :
        /\ node'[u] = node[u]
        /\ \/ pc'[u] = pc[u]
           \/ pc[u] = "asleep" /\ pc'[u] = "woken"
           \/ pc[u] = "asleep_mgr" /\ pc'[u] = "woken_mgr"

LEMMA WeightMoves ==
    ASSUME NEW t \in Threads, NEW n, NEW s, OthersStay(t)
    PROVE  /\ Weight(n, s) \in Nat
           /\ Weight(n, s)' = Weight(n, s) - Share(t, n, s) + Share(t, n, s)'
<1>1. \A u \in Threads \ {t} :
          node'[u] = node[u] /\ Entered(u)' = Entered(u) /\ Twice(u)' = Twice(u)
  BY DEF OthersStay, Entered, Twice
<1>2. /\ In(n, s) \in SUBSET Threads /\ In(n, s)' \in SUBSET Threads
      /\ InTwice(n, s) \in SUBSET Threads /\ InTwice(n, s)' \in SUBSET Threads
  BY DEF In, InTwice
<1>3. In(n, s) \ {t} = In(n, s)' \ {t} /\ InTwice(n, s) \ {t} = InTwice(n, s)' \ {t}
  BY <1>1 DEF In, InTwice
<1>4. /\ Cardinality(In(n, s)) \in Nat
      /\ Cardinality(In(n, s)') = Cardinality(In(n, s)) - (IF t \in In(n, s) THEN 1 ELSE 0)
                                                       + (IF t \in In(n, s)' THEN 1 ELSE 0)
  BY <1>2, <1>3, OneMoves
<1>5. /\ Cardinality(InTwice(n, s)) \in Nat
      /\ Cardinality(InTwice(n, s)') =
             Cardinality(InTwice(n, s)) - (IF t \in InTwice(n, s) THEN 1 ELSE 0)
                                        + (IF t \in InTwice(n, s)' THEN 1 ELSE 0)
  BY <1>2, <1>3, OneMoves
<1>6. /\ Share(t, n, s) = (IF t \in In(n, s) THEN 1 ELSE 0) + (IF t \in InTwice(n, s) THEN 1 ELSE 0)
      /\ Share(t, n, s)' = (IF t \in In(n, s)' THEN 1 ELSE 0) + (IF t \in InTwice(n, s)' THEN 1 ELSE 0)
  BY DEF Share, In, InTwice
<1> QED BY <1>4, <1>5, <1>6 DEF Weight

\* Whoever has entered a state is counted there.
LEMMA SharesCount ==
    ASSUME NEW t \in Threads, NEW n, NEW s
    PROVE  /\ Weight(n, s) \in Nat /\ Share(t, n, s) \in {0, 1, 2}
           /\ Weight(n, s) >= Share(t, n, s)
           /\ \A u \in Threads \ {t} : Weight(n, s) >= Share(t, n, s) + Share(u, n, s)
           /\ Weight(n, s) <= 2 * Cardinality(Threads)
           /\ In(n, s) = {} => Weight(n, s) = 0
<1> DEFINE A == In(n, s)
           B == InTwice(n, s)
<1>1. A \in SUBSET Threads /\ B \in SUBSET A
  BY DEF In, InTwice
<1>2. \A u \in Threads : Share(u, n, s) = (IF u \in A THEN 1 ELSE 0) + (IF u \in B THEN 1 ELSE 0)
  BY DEF Share, In, InTwice
<1>3. Weight(n, s) = Cardinality(A) + Cardinality(B)
  BY DEF Weight
<1> HIDE DEF A, B
<1>4. IsFiniteSet(A) /\ IsFiniteSet(B) /\ IsFiniteSet(Threads)
  BY <1>1, ThreadsAssumption, FS_Subset
<1>5. /\ Cardinality(A) \in Nat /\ Cardinality(B) \in Nat /\ Cardinality(Threads) \in Nat
      /\ Cardinality(A) <= Cardinality(Threads) /\ Cardinality(B) <= Cardinality(A)
  BY <1>1, <1>4, FS_CardinalityType, FS_Subset
<1>6. ASSUME NEW S, IsFiniteSet(S), NEW u, NEW v, u # v
      PROVE  Cardinality(S) >= (IF u \in S THEN 1 ELSE 0) + (IF v \in S THEN 1 ELSE 0)
  <2>1. /\ IsFiniteSet(S \ {u}) /\ Cardinality(S) \in Nat
        /\ IsFiniteSet((S \ {u}) \ {v})
    BY <1>6, FS_RemoveElement, FS_CardinalityType
  <2>2. Cardinality(S \ {u}) \in Nat /\ Cardinality((S \ {u}) \ {v}) \in Nat
    BY <2>1, FS_CardinalityType
  <2>3. Cardinality(S \ {u}) = IF u \in S THEN Cardinality(S) - 1 ELSE Cardinality(S)
    BY <1>6, FS_RemoveElement
  <2>4. Cardinality((S \ {u}) \ {v}) =
            IF v \in S \ {u} THEN Cardinality(S \ {u}) - 1 ELSE Cardinality(S \ {u})
    BY <2>1, FS_RemoveElement
  <2>5. v \in S \ {u} <=> v \in S
    BY <1>6
  <2> QED BY <2>1, <2>2, <2>3, <2>4, <2>5
<1>7. \A u \in Threads \ {t} : Weight(n, s) >= Share(t, n, s) + Share(u, n, s)
  <2> TAKE u \in Threads \ {t}
  <2>1. Cardinality(A) >= (IF t \in A THEN 1 ELSE 0) + (IF u \in A THEN 1 ELSE 0)
    BY <1>4, <1>6
  <2>2. Cardinality(B) >= (IF t \in B THEN 1 ELSE 0) + (IF u \in B THEN 1 ELSE 0)
    BY <1>4, <1>6
  <2> QED BY <1>2, <1>3, <1>5, <2>1, <2>2
<1>8. Weight(n, s) >= Share(t, n, s)
  <2>1. t \in A => Cardinality(A) # 0
    BY <1>4, FS_EmptySet
  <2>2. t \in B => Cardinality(B) # 0
    BY <1>4, FS_EmptySet
  <2> QED BY <1>2, <1>3, <1>5, <2>1, <2>2
<1>9. A = {} => Weight(n, s) = 0
  <2> SUFFICES ASSUME A = {} PROVE Weight(n, s) = 0
    OBVIOUS
  <2>1. B = {}
    BY <1>1
  <2> QED BY <1>3, <2>1, FS_EmptySet
<1> QED BY <1>2, <1>3, <1>5, <1>7, <1>8, <1>9 DEF A

-----------------------------------------------------------------------------
(* What a step of one thread at one node does *)

LEMMA ExactIsGood ==
    ASSUME IInv, NEW n \in Nodes
    PROVE  Good(counter[n])
BY DEF IInv, VariablesTyped, Exact, Good

LEMMA RolesStay ==
    ASSUME IInv, NEW t \in Threads, OthersStay(t), RoleOK(t)'
    PROVE  \A u \in Threads : RoleOK(u)'
<1>1. ASSUME NEW u \in Threads \ {t} PROVE RoleOK(u)'
  <2>1. RoleOK(u) /\ u \in Threads
    BY DEF IInv
  <2> QED BY <2>1, ThreadsAssumption DEF OthersStay, RoleOK, Threads
<1> QED BY <1>1

\* pthread_cond_signal and pthread_cond_broadcast wake threads that sleep.
LEMMA MovesIs ==
    ASSUME IInv, NEW t \in Threads, NEW place \in PCs, NEW ts,
           \A u \in ts : pc[u] \in {"asleep", "asleep_mgr"},
           Moves(t, place, ts), \A u \in Threads \ {t} : node'[u] = node[u]
    PROVE  pc' \in [Threads -> PCs] /\ pc'[t] = place /\ OthersStay(t)
<1>1. \A u \in Threads : pc[u] \in PCs
  BY DEF IInv, VariablesTyped, ClientTyped
<1> QED BY <1>1 DEF Moves, OthersStay, PCs

LEMMA SleepersSleep ==
    ASSUME NEW n, NEW v
    PROVE  /\ \A u \in Sleepers(n, v) : pc[u] \in {"asleep", "asleep_mgr"}
           /\ \A ts \in OneOf(Sleepers(n, v)) : \A u \in ts : pc[u] \in {"asleep", "asleep_mgr"}
<1>1. \A u \in Sleepers(n, v) : pc[u] \in {"asleep", "asleep_mgr"}
  BY DEF Sleepers
<1>2. \A ts \in OneOf(Sleepers(n, v)) : ts \subseteq Sleepers(n, v)
  BY DEF OneOf
<1> QED BY <1>1, <1>2

\* curr_op of a node that is used in one way at a time.
LEMMA CurrOpMoves ==
    ASSUME IInv, NEW n \in Nodes, NEW d, Good(d), SetNode(n, d), Excludes(d),
           \A m \in Nodes : CurrOpOK(m)
    PROVE  \A m \in Nodes : CurrOpOK(m)'
<1>1. counter' = [counter EXCEPT ![n] = d] /\ counter \in [Nodes -> [States -> Nat]]
  BY DEF SetNode, IInv, VariablesTyped
<1>2. ASSUME NEW m \in Nodes, m # n PROVE CurrOpOK(m)'
  <2>1. counter'[m] = counter[m] /\ curr_op'[m] = curr_op[m]
    BY <1>1, <1>2 DEF SetNode, IInv, VariablesTyped
  <2> QED BY <2>1 DEF CurrOpOK, Is
<1>3. CurrOpOK(n)'
  <2> DEFINE new == {u \in Uses : Is(d, u) /\ ~Is(counter[n], u)}
             gone == {u \in Uses : ~Is(d, u) /\ Is(counter[n], u)}
  <2>1. curr_op'[n] = IF new # {} THEN CHOOSE u \in new : TRUE
                      ELSE IF gone # {} \/ ~InUse(d) THEN "none" ELSE curr_op[n]
    BY DEF SetNode, IInv, VariablesTyped
  <2>2. counter'[n] = d
    BY <1>1
  <2> SUFFICES ASSUME NEW o \in Uses, Is(d, o) PROVE curr_op'[n] = o
    BY <2>2 DEF CurrOpOK, Is
  <2>3. \A p \in Uses : Is(d, p) => p = o
    <3>1. \A p \in Uses : p \in Counted /\ d[p] \in Nat
      BY StateSets, GoodInUse
    <3>2. CASE o \in {"delete", "create"}
      BY <3>1, <3>2 DEF Excludes
    <3>3. CASE o \in {"read", "write"}
      BY <3>1, <3>3 DEF Excludes, Uses
    <3> QED BY <3>2, <3>3 DEF Uses
  <2>4. InUse(d)
    BY StateSets, GoodInUse DEF Is
  <2>5. CASE Is(counter[n], o)
    <3>1. curr_op[n] = o /\ \A p \in Uses : Is(counter[n], p) => p = o
      BY <2>5 DEF CurrOpOK
    <3>2. new = {} /\ gone = {}
      BY <2>3, <2>5, <3>1
    <3> QED BY <2>1, <2>4, <3>1, <3>2
  <2>6. CASE ~Is(counter[n], o)
    <3>1. new = {o}
      BY <2>3, <2>6
    <3>2. (CHOOSE u \in new : TRUE) = o
      BY <3>1
    <3> HIDE DEF new, gone
    <3> QED BY <2>1, <3>1, <3>2
  <2> QED BY <2>5, <2>6
<1> QED BY <1>2, <1>3

\* A step of t at n: the counters of n change with the share of t.
LEMMA Settles ==
    ASSUME IInv, outcome = "running", NEW t \in Threads, NEW n \in Nodes,
           NEW d, Good(d), SetNode(n, d),
           OthersStay(t), RoleOK(t)', ClientTyped', ManagerOK',
           node[t] \in {n, NoNode}, node'[t] \in {n, NoNode},
           \A s \in Counted : d[s] = counter[n][s] - Share(t, n, s) + Share(t, n, s)',
           Is(d, "no_op") <=> ~InUse(d) /\ pc'[t] # "unmarking",
           InUse(d) \/ \A u \in Threads \ {t} : ~Unmarking(u, n),
           outcome' = "running" => Excludes(d)
    PROVE  IInv'
<1> USE NodesAssumption
<1>1. /\ counter' = [counter EXCEPT ![n] = d]
      /\ counter \in [Nodes -> [States -> Nat]] /\ curr_op \in [Nodes -> Uses \cup {"none"}]
  BY DEF SetNode, IInv, VariablesTyped
<1>2. VariablesTyped'
  <2>1. counter' \in [Nodes -> [States -> Nat]]
    BY <1>1 DEF Good
  <2>2. curr_op' \in [Nodes -> Uses \cup {"none"}]
    <3> DEFINE new == {u \in Uses : Is(d, u) /\ ~Is(counter[n], u)}
    <3>1. new # {} => (CHOOSE u \in new : TRUE) \in Uses
      OBVIOUS
    <3>2. curr_op' = [curr_op EXCEPT ![n] = curr_op'[n]]
      BY <1>1 DEF SetNode
    <3>3. curr_op'[n] \in Uses \cup {"none"}
      BY <1>1, <3>1 DEF SetNode
    <3> QED BY <1>1, <3>2, <3>3
  <2> QED BY <2>1, <2>2 DEF VariablesTyped
<1>3. \A u \in Threads : RoleOK(u)'
  BY RolesStay
<1>4. \A m \in Nodes : Exact(m)'
  <2>1. ASSUME NEW m \in Nodes, m # n PROVE Exact(m)'
    <3>1. counter'[m] = counter[m]
      BY <1>1, <2>1
    <3>2. \A s \in Counted : Weight(m, s)' = Weight(m, s)
      <4> TAKE s \in Counted
      <4>1. Share(t, m, s) = 0 /\ Share(t, m, s)' = 0
        BY <2>1 DEF Share
      <4> QED BY <4>1, WeightMoves
    <3>3. Exact(m)
      BY DEF IInv
    <3>4. \A u \in Threads : Unmarking(u, m)' <=> Unmarking(u, m)
      BY <2>1 DEF Unmarking, OthersStay
    <3> QED BY <3>1, <3>2, <3>3, <3>4 DEF Exact, Is, InUse
  <2>2. Exact(n)'
    <3>1. counter'[n] = d
      BY <1>1
    <3>2. \A s \in Counted : d[s] = Weight(n, s)'
      <4> TAKE s \in Counted
      <4>1. counter[n][s] = Weight(n, s)
        BY DEF IInv, Exact
      <4> QED BY <4>1, WeightMoves
    <3>3. Is(d, "no_op") <=> ~InUse(d) /\ \A u \in Threads : ~Unmarking(u, n)'
      <4>1. \A u \in Threads \ {t} : Unmarking(u, n)' => Unmarking(u, n)
        BY DEF Unmarking, OthersStay
      <4>2. Unmarking(t, n)' <=> pc'[t] = "unmarking"
        BY DEF Unmarking, RoleOK
      <4> QED BY <4>1, <4>2
    <3> QED BY <3>1, <3>2, <3>3 DEF Good, Exact, Is, InUse
  <2> QED BY <2>1, <2>2
<1>5. outcome' = "running" => \A m \in Nodes : Excludes(counter[m])' /\ CurrOpOK(m)'
  <2> SUFFICES ASSUME outcome' = "running"
               PROVE  \A m \in Nodes : Excludes(counter[m])' /\ CurrOpOK(m)'
    OBVIOUS
  <2>1. \A m \in Nodes : CurrOpOK(m)'
    BY CurrOpMoves DEF IInv
  <2>2. \A m \in Nodes : counter'[m] = IF m = n THEN d ELSE counter[m]
    BY <1>1
  <2>3. \A m \in Nodes : Excludes(counter[m])
    BY DEF IInv
  <2> QED BY <2>1, <2>2, <2>3 DEF Excludes, Is
<1> QED BY <1>2, <1>3, <1>4, <1>5 DEF IInv

-----------------------------------------------------------------------------
(* The first state *)

LEMMA InitEstablishes == Init => IInv
<1> SUFFICES ASSUME Init PROVE IInv
  OBVIOUS
<1>0. ASSUME NEW t \in Threads, NEW n PROVE ~Unmarking(t, n)
  <2>1. pc[t] = "idle"
    BY DEF Init
  <2> QED BY <2>1 DEF Unmarking
<1> USE NodesAssumption DEF Init
<1>1. VariablesTyped
  BY DEF VariablesTyped, ClientTyped, PCs, Cvs, Nodes
<1>2. \A t \in Threads : RoleOK(t) /\ Entered(t) = "none" /\ node[t] \notin Nodes
  BY DEF RoleOK, Entered
<1>3. \A n \in Nodes : \A s \in Counted : counter[n][s] = 0
  BY StateSets
<1>4. \A n \in Nodes : counter[n]["no_op"] = 1
  BY StateSets
<1>5. ASSUME NEW n \in Nodes PROVE Exact(n)
  <2>1. \A s \in Counted : Weight(n, s) = 0
    <3> TAKE s \in Counted
    <3>1. In(n, s) = {}
      BY <1>2 DEF In
    <3>2. PICK t \in Threads : TRUE
      BY ThreadsAssumption
    <3> QED BY <3>1, <3>2, SharesCount
  <2>2. ~InUse(counter[n])
    BY <1>3, StateSets DEF InUse, Is
  <2>3. \A t \in Threads : ~Unmarking(t, n)
    BY <1>0
  <2> HIDE DEF Init
  <2> QED BY <1>3, <1>4, <2>1, <2>2, <2>3 DEF Exact, Is
<1>6. ManagerOK
  <2>1. \A n \in Nodes : ~Is(counter[n], "create") /\ ~Is(counter[n], "delete")
    BY <1>3, StateSets DEF Is, Uses
  <2>2. \A t \in Creators \cup Deleters \cup Threads : pc[t] = "idle"
    BY DEF Threads
  <2> QED BY <2>1, <2>2 DEF ManagerOK, ContainerOK, Structural, HasMgr
<1>7. ASSUME NEW n \in Nodes PROVE Excludes(counter[n]) /\ CurrOpOK(n)
  <2>1. \A s \in Counted : counter[n][s] = 0
    BY <1>3
  <2>2. \A s \in Uses : s \in Counted
    BY StateSets
  <2> QED BY <2>1, <2>2 DEF Excludes, CurrOpOK, Is, Uses
<1> QED BY <1>1, <1>2, <1>5, <1>6, <1>7 DEF IInv

-----------------------------------------------------------------------------
(* What the steps need *)

\* c are the counters of n without what t has entered.
Rest(t, n, c) == Good(c) /\ \A s \in Counted : c[s] = counter[n][s] - Share(t, n, s)

LEMMA RestExcludes ==
    ASSUME IInv, NEW t \in Threads, NEW n \in Nodes, NEW c, Rest(t, n, c),
           Excludes(counter[n])
    PROVE  Excludes(c)
<1>1. \A s \in Counted : c[s] \in Nat /\ counter[n][s] \in Nat /\ c[s] <= counter[n][s]
  <2> TAKE s \in Counted
  <2>1. c[s] \in Nat /\ counter[n][s] \in Nat
    BY GoodInUse, ExactIsGood DEF Rest
  <2>2. Share(t, n, s) \in {0, 1, 2}
    BY SharesCount
  <2> QED BY <2>1, <2>2 DEF Rest
<1>2. \A s \in Counted : Is(c, s) => Is(counter[n], s)
  BY <1>1 DEF Is
<1>3. \A s \in Uses : s \in Counted
  BY StateSets
<1> QED BY <1>1, <1>2, <1>3 DEF Excludes, Uses

LEMMA RestOfOther ==
    ASSUME IInv, NEW t \in Threads, NEW n \in Nodes, node[t] # n \/ Entered(t) = "none"
    PROVE  Rest(t, n, counter[n])
<1>1. \A s \in Counted : Share(t, n, s) = 0 /\ counter[n][s] \in Nat
  BY StateSets, ExactIsGood, GoodInUse DEF Share
<1> QED BY <1>1, ExactIsGood DEF Rest

LEMMA RestOfEntered ==
    ASSUME IInv, NEW t \in Threads, NEW n \in Nodes, node[t] = n,
           NEW s \in Counted, Entered(t) = s, ~Twice(t)
    PROVE  counter[n][s] > 0 /\ Rest(t, n, Exit(counter[n], s))
<1>1. /\ \A r \in Counted : Share(t, n, r) = IF r = s THEN 1 ELSE 0
      /\ \A r \in Counted : counter[n][r] \in Nat
  BY ExactIsGood, GoodInUse DEF Share
<1>2. counter[n][s] >= 1
  <2>1. counter[n][s] = Weight(n, s)
    BY DEF IInv, Exact
  <2>2. Weight(n, s) >= Share(t, n, s)
    BY SharesCount
  <2> QED BY <1>1, <2>1, <2>2
<1>3. /\ Good(Exit(counter[n], s))
      /\ Exit(counter[n], s)[s] = counter[n][s] - 1
      /\ \A r \in Counted \ {s} : Exit(counter[n], s)[r] = counter[n][r]
  BY <1>1, <1>2, ExactIsGood, ExitIs
<1> QED BY <1>1, <1>2, <1>3 DEF Rest

LEMMA EnterExcludes ==
    ASSUME NEW c, Good(c), Excludes(c), NEW s \in Counted \ {"delete", "create"},
           c["delete"] = 0, c["create"] = 0,
           s \in {"read", "write"} => c["write"] = 0, s = "write" => c["read"] = 0
    PROVE  Excludes(Enter(c, s))
<1> DEFINE e == Enter(c, s)
<1>1. /\ e[s] = c[s] + 1 /\ \A r \in Counted \ {s} : e[r] = c[r]
      /\ \A r \in Counted : c[r] \in Nat
  BY EnterIs, GoodInUse DEF Good
<1> HIDE DEF e
<1>2. \A r \in Uses : r \in Counted
  BY StateSets
<1>3. e["delete"] = 0 /\ e["create"] = 0
  BY <1>1, <1>2 DEF Uses
<1>4. e["write"] <= 1 /\ (e["write"] > 0 => ~(e["read"] > 0))
  BY <1>1, <1>2 DEF Uses, Excludes, Is
<1> QED BY <1>3, <1>4 DEF Excludes, Is, e

\* Nothing is created or deleted at a node where a thread is pending.
LEMMA PendingExcludes ==
    ASSUME NEW c, Good(c), Excludes(c), NEW s \in Counted \ {"delete", "create"}, c[s] > 0
    PROVE  c["delete"] = 0 /\ c["create"] = 0
BY StateSets, GoodInUse DEF Excludes, Is, Uses

\* A thread that goes to a node does so with the right to.
LEMMA ContainerKeeps ==
    ASSUME IInv, NEW t \in Threads, OthersStay(t),
           \A u \in Creators \ {t} : pc[u] \in {"asleep_mgr", "woken_mgr", "using"} =>
               node'[t] # node[u] /\ node[u] \notin listed',
           \A u \in Deleters \ {t} : pc[u] \notin {"idle", "released"} => node[u] \in listed',
           t \in Creators /\ pc'[t] \in {"asleep_mgr", "woken_mgr", "using"} =>
               node'[t] \notin listed' /\ \A u \in Threads \ {t} : node[u] # node'[t],
           t \in Deleters /\ pc'[t] \notin {"idle", "released"} => node'[t] \in listed'
    PROVE  ContainerOK'
<1>1. /\ Creators \subseteq Threads /\ Deleters \subseteq Threads
      /\ ContainerOK /\ \A u \in Threads : RoleOK(u)
  BY DEF Threads, IInv, ManagerOK
<1>2. ASSUME NEW u \in Creators, pc'[u] \in {"asleep_mgr", "woken_mgr", "using"}
      PROVE  node'[u] \notin listed' /\ \A v \in Threads : node'[v] = node'[u] => v = u
  <2>1. CASE u = t
    BY <1>2, <2>1 DEF OthersStay
  <2>2. CASE u # t
    <3>1. /\ node'[u] = node[u] /\ u \in Threads
          /\ pc[u] \in {"asleep", "asleep_mgr", "woken_mgr", "using"}
      BY <1>1, <1>2, <2>2 DEF OthersStay
    <3>2. pc[u] # "asleep"
      BY <3>1, <1>2, <2>2 DEF OthersStay
    <3> QED BY <1>1, <2>2, <3>1, <3>2 DEF OthersStay, ContainerOK
  <2> QED BY <2>1, <2>2
<1>3. ASSUME NEW u \in Deleters, pc'[u] \notin {"idle", "released"}
      PROVE  node'[u] \in listed'
  BY <1>1, <1>3 DEF OthersStay, ContainerOK
<1> QED BY <1>2, <1>3 DEF ContainerOK

\* A step that starts nothing structural leaves the manager's side as it is.
LEMMA ManagerQuiet ==
    ASSUME IInv, NEW t \in Threads, OthersStay(t), ~HasMgr(t)', ContainerOK',
           \A m \in Nodes : Structural(m)' => Structural(m)
    PROVE  ManagerOK'
<1>1. ManagerOK
  BY DEF IInv
<1>2. \A m, n \in Nodes : Structural(m)' /\ Structural(n)' => m = n
  BY <1>1 DEF ManagerOK
<1>3. ASSUME NEW u \in Threads, HasMgr(u)'
      PROVE  ~StructuralChange' /\ \A v \in Threads : HasMgr(v)' => v = u
  <2>1. \A v \in Threads : HasMgr(v)' => HasMgr(v)
    BY DEF OthersStay, HasMgr
  <2>2. StructuralChange' => StructuralChange
    BY DEF StructuralChange, Structural
  <2> QED BY <1>1, <1>3, <2>1, <2>2 DEF ManagerOK
<1> QED BY <1>2, <1>3 DEF ManagerOK, ContainerOK

-----------------------------------------------------------------------------
(* The loops of the requests *)

LEMMA QuietAt ==
    ASSUME IInv, NEW n \in Nodes, NEW d, SetNode(n, d),
           Is(d, "create") \/ Is(d, "delete") => Structural(n)
    PROVE  \A m \in Nodes : Structural(m)' => Structural(m)
<1>1. \A m \in Nodes : counter'[m] = IF m = n THEN d ELSE counter[m]
  BY DEF SetNode, IInv, VariablesTyped
<1> QED BY <1>1 DEF Structural, Is

\* t enters state s of n once, and is counted nowhere else.
LEMMA EntersHere ==
    ASSUME IInv, outcome = "running", NEW t \in Threads, NEW n \in Nodes,
           NEW c, Rest(t, n, c), NEW s \in Counted, SetNode(n, Enter(c, s)),
           OthersStay(t), RoleOK(t)', ClientTyped', ManagerOK',
           node[t] \in {n, NoNode}, node'[t] = n, Entered(t)' = s, ~Twice(t)',
           outcome' = "running" => Excludes(Enter(c, s))
    PROVE  IInv'
<1>1. /\ Good(Enter(c, s)) /\ InUse(Enter(c, s)) /\ Enter(c, s)[s] = c[s] + 1
      /\ \A r \in Counted \ {s} : Enter(c, s)[r] = c[r]
  BY EnterIs DEF Rest, Good
<1>2. \A r \in Counted : Share(t, n, r)' = IF r = s THEN 1 ELSE 0
  BY DEF Share
<1>3. \A r \in Counted : /\ c[r] \in Nat /\ counter[n][r] \in Nat
                         /\ Share(t, n, r) \in {0, 1, 2}
  BY GoodInUse, ExactIsGood, SharesCount DEF Rest
<1>4. \A r \in Counted :
          Enter(c, s)[r] = counter[n][r] - Share(t, n, r) + Share(t, n, r)'
  BY <1>1, <1>2, <1>3 DEF Rest
<1>5. ~Is(Enter(c, s), "no_op")
  BY <1>1 DEF Good
<1> QED BY <1>1, <1>4, <1>5, Settles

\* t leaves what it has entered at n.
LEMMA LeavesHere ==
    ASSUME IInv, outcome = "running", NEW t \in Threads, NEW n \in Nodes,
           NEW c, Rest(t, n, c), SetNode(n, c),
           OthersStay(t), RoleOK(t)', ClientTyped', ManagerOK',
           node[t] \in {n, NoNode}, node'[t] \in {n, NoNode}, Entered(t)' = "none",
           Is(c, "no_op") <=> ~InUse(c) /\ pc'[t] # "unmarking",
           InUse(c) \/ \A u \in Threads \ {t} : ~Unmarking(u, n),
           outcome' = "running" => Excludes(c)
    PROVE  IInv'
<1>1. \A r \in Counted : Share(t, n, r)' = 0
  BY StateSets DEF Share
<1>2. \A r \in Counted : /\ c[r] \in Nat /\ counter[n][r] \in Nat
                         /\ Share(t, n, r) \in {0, 1, 2}
  BY GoodInUse, ExactIsGood, SharesCount DEF Rest
<1>3. \A r \in Counted : c[r] = counter[n][r] - Share(t, n, r) + Share(t, n, r)'
  BY <1>1, <1>2 DEF Rest
<1> QED BY <1>3, Settles DEF Rest

LEMMA TrySettles ==
    ASSUME IInv, outcome = "running", NEW t \in Threads, t \notin Creators, NEW n \in Nodes,
           NEW c, Rest(t, n, c), c["delete"] = 0, c["create"] = 0,
           node[t] \in {n, NoNode}, t \in Deleters => n \in listed, Try(t, n, c),
           \A u \in Creators : pc[u] \in {"asleep_mgr", "woken_mgr", "using"} => node[u] # n,
           rounds' \in [Threads -> 0..Rounds], UNCHANGED <<listed, outcome>>
    PROVE  IInv'
<1>1. /\ ClientTyped /\ ManagerOK /\ Excludes(c) /\ \A u \in Threads : RoleOK(u)
      /\ Creators \subseteq Threads
  BY RestExcludes DEF IInv, VariablesTyped, Threads
<1>2. \A u \in Creators : pc[u] \in {"asleep_mgr", "woken_mgr", "using"} =>
          node[u] # n /\ node[u] # NoNode
  BY <1>1 DEF ManagerOK, ContainerOK, RoleOK
<1>3. ~Is(c, "create") /\ ~Is(c, "delete")
  BY DEF Is
<1>4. ASSUME NEW s \in Counted \ {"delete", "create"}, SetNode(n, Enter(c, s)),
             NEW place \in PCs, Moves(t, place, {}), cv' \in [Threads -> Cvs],
             node' = [node EXCEPT ![t] = n],
             \/ place = "using" /\ s = op(t) /\ t \in Readers \cup Writers
             \/ place = "asleep" /\ s = pending(t)
             \/ place = "marked" /\ s = pending(t) /\ t \in Deleters,
             s \in {"read", "write"} => c["write"] = 0, s = "write" => c["read"] = 0
      PROVE  IInv'
  <2>1. node'[t] = n /\ \A u \in Threads \ {t} : node'[u] = node[u]
    BY <1>1, <1>4 DEF ClientTyped
  <2>2. pc' \in [Threads -> PCs] /\ pc'[t] = place /\ OthersStay(t)
    BY <1>4, <2>1, MovesIs
  <2>3. ClientTyped'
    BY <1>1, <1>4, <2>2 DEF ClientTyped
  <2>4. RoleOK(t)'
    BY <1>4, <2>1, <2>2, ThreadsAssumption, NodesAssumption DEF RoleOK
  <2>5. Entered(t)' = s /\ ~Twice(t)'
    BY <1>4, <2>2 DEF Entered, Twice
  <2>6. Excludes(Enter(c, s))
    BY <1>1, <1>4, EnterExcludes DEF Rest
  <2>7. ~Is(Enter(c, s), "create") /\ ~Is(Enter(c, s), "delete")
    <3>1. \A r \in Counted \ {s} : Enter(c, s)[r] = c[r]
      BY EnterIs DEF Rest, Good
    <3> QED BY <1>3, <1>4, <3>1, StateSets DEF Is, Uses
  <2>8. ManagerOK'
    <3>1. \A m \in Nodes : Structural(m)' => Structural(m)
      BY <1>4, <2>7, QuietAt
    <3>2. ContainerOK'
      BY <1>1, <1>2, <1>4, <2>1, <2>2, ContainerKeeps DEF ManagerOK, ContainerOK
    <3> QED BY <1>4, <2>2, <3>1, <3>2, ManagerQuiet DEF HasMgr
  <2> QED BY <1>4, <2>1, <2>2, <2>3, <2>4, <2>5, <2>6, <2>8, EntersHere
<1>5. ASSUME Quit(t, n, c) PROVE IInv'
  <2>1. node' = [node EXCEPT ![t] = NoNode] /\ cv' = cv /\ SetNode(n, c)
    BY <1>5 DEF Quit, Leaves
  <2>2. node'[t] = NoNode /\ \A u \in Threads \ {t} : node'[u] = node[u]
    BY <1>1, <2>1 DEF ClientTyped
  <2>3. PICK d \in OneOf(Sleepers(n, "delete_thread_cv")) :
            Moves(t, "idle", Sleepers(n, "rdrs_cv") \cup Sleepers(n, "writers_cv") \cup d)
    BY <1>5 DEF Quit
  <2>4. pc' \in [Threads -> PCs] /\ pc'[t] = "idle" /\ OthersStay(t)
    <3> DEFINE ts == Sleepers(n, "rdrs_cv") \cup Sleepers(n, "writers_cv") \cup d
    <3>1. \A u \in ts : pc[u] \in {"asleep", "asleep_mgr"}
      BY <2>3, SleepersSleep
    <3>2. "idle" \in PCs
      BY DEF PCs
    <3> QED BY <2>2, <2>3, <3>1, <3>2, MovesIs
  <2>5. ClientTyped' /\ RoleOK(t)' /\ Entered(t)' = "none"
    BY <1>1, <2>1, <2>2, <2>4 DEF ClientTyped, RoleOK, Entered
  <2>6. ManagerOK'
    <3>1. \A m \in Nodes : Structural(m)' => Structural(m)
      BY <1>3, <2>1, QuietAt
    <3>2. ContainerOK'
      BY <1>1, <1>2, <2>2, <2>4, ContainerKeeps DEF ManagerOK, ContainerOK
    <3> QED BY <2>4, <3>1, <3>2, ManagerQuiet DEF HasMgr
  <2>7. InUse(c) /\ ~Is(c, "no_op")
    <3>1. Is(c, "pending_delete") /\ "pending_delete" \in Counted
      BY <1>5 DEF Quit, Counted, Pendings
    <3> QED BY <3>1, GoodInUse DEF Rest, Is
  <2> QED BY <1>1, <2>1, <2>2, <2>4, <2>5, <2>6, <2>7, LeavesHere
<1>6. ASSUME NEW v \in Cvs, NEW d \in {c}, Sleep(t, n, d, v, "asleep"), node' = [node EXCEPT ![t] = n]
      PROVE  IInv'
  <2>1. /\ SetNode(n, Enter(c, pending(t))) /\ Moves(t, "asleep", {})
        /\ cv' \in [Threads -> Cvs]
    BY <1>1, <1>6 DEF Sleep, ClientTyped
  <2>2. pending(t) \in Counted \ {"delete", "create"} /\ pending(t) \notin {"read", "write"}
    BY Roles, StateSets DEF Uses
  <2>3. "asleep" \in PCs
    BY DEF PCs
  <2> QED BY <1>4, <1>6, <2>1, <2>2, <2>3
<1>7. ASSUME t \in Readers \cup Writers, Use(t, n, c), node' = [node EXCEPT ![t] = n],
             c["write"] = 0, t \in Writers => c["read"] = 0
      PROVE  IInv'
  <2>1. SetNode(n, Enter(c, op(t))) /\ Moves(t, "using", {}) /\ cv' \in [Threads -> Cvs]
    BY <1>1, <1>7 DEF Use, ClientTyped
  <2>2. op(t) \in Counted \ {"delete", "create"} /\ (op(t) = "write" => t \in Writers)
    BY <1>7, Roles, StateSets, ThreadsAssumption
  <2>3. "using" \in PCs
    BY DEF PCs
  <2> QED BY <1>4, <1>7, <2>1, <2>2, <2>3
<1>8. \A s \in Counted : c[s] \in Nat
  BY GoodInUse DEF Rest
<1>9. "rdrs_cv" \in Cvs /\ "writers_cv" \in Cvs /\ "delete_thread_cv" \in Cvs
  BY DEF Cvs
<1>10. "read" \in Counted /\ "write" \in Counted
  BY DEF Counted, Uses
<1>11. CASE t \in Readers /\ TryRead(t, n, c)
  <2>1. CASE ReadBlocked(c) /\ ~Quit(t, n, c)
    BY <1>6, <1>9, <1>11, <2>1 DEF TryRead
  <2>2. CASE ~ReadBlocked(c) /\ ~Quit(t, n, c)
    <3>1. c["write"] = 0
      BY <1>8, <1>10, <2>2 DEF ReadBlocked, Is
    <3> QED BY <1>7, <1>11, <2>2, <3>1, ThreadsAssumption DEF TryRead
  <2> QED BY <1>5, <2>1, <2>2
<1>12. CASE t \in Writers /\ TryWrite(t, n, c)
  <2>1. CASE WriteBlocked(c) /\ ~Quit(t, n, c)
    BY <1>6, <1>9, <1>12, <2>1 DEF TryWrite
  <2>2. CASE ~WriteBlocked(c) /\ ~Quit(t, n, c)
    <3>1. c["write"] = 0 /\ c["read"] = 0
      BY <1>8, <1>10, <2>2 DEF WriteBlocked, Is
    <3> QED BY <1>7, <1>12, <2>2, <3>1 DEF TryWrite
  <2> QED BY <1>5, <2>1, <2>2
<1>13. CASE t \in Deleters /\ TryDelete(t, n, c)
  <2>1. CASE Is(c, "read") \/ InUse(c)
    BY <1>6, <1>9, <1>13, <2>1 DEF TryDelete
  <2>2. CASE ~Is(c, "read") /\ ~InUse(c)
    <3>1. /\ SetNode(n, Enter(c, "pending_delete")) /\ Moves(t, "marked", {}) /\ cv' = cv
          /\ node' = [node EXCEPT ![t] = n]
      BY <1>13, <2>2 DEF TryDelete
    <3>2. /\ pending(t) = "pending_delete" /\ "marked" \in PCs /\ cv' \in [Threads -> Cvs]
          /\ "pending_delete" \in Counted \ {"delete", "create"}
      BY <1>1, <1>13, <3>1, Roles DEF PCs, ClientTyped, Counted, Pendings
    <3> QED BY <1>4, <1>13, <3>1, <3>2
  <2> QED BY <2>1, <2>2
<1> QED BY <1>11, <1>12, <1>13 DEF Try

LEMMA RequestKeeps ==
    ASSUME IInv, outcome = "running", NEW t \in Threads, NEW n \in Nodes, Request(t, n)
    PROVE  IInv'
<1>1. /\ pc[t] = "idle" /\ n \in listed /\ ~Rejected(counter[n]) /\ Try(t, n, counter[n])
      /\ rounds[t] > 0 /\ rounds' = [rounds EXCEPT ![t] = @ - 1]
      /\ UNCHANGED <<listed, outcome>>
  BY DEF Request, AsksFor, Asks
<1>2. t \notin Creators
  BY <1>1, ThreadsAssumption DEF Try
<1>3. node[t] = NoNode /\ Entered(t) = "none"
  BY <1>1 DEF IInv, RoleOK, Entered
<1>4. Rest(t, n, counter[n])
  BY <1>3, RestOfOther
<1>5. counter[n]["delete"] = 0 /\ counter[n]["create"] = 0
  <2>1. \A s \in Counted : counter[n][s] \in Nat
    BY <1>4, GoodInUse DEF Rest
  <2> QED BY <1>1, <2>1 DEF Rejected, Is, Counted, Uses
<1>6. \A u \in Creators : pc[u] \in {"asleep_mgr", "woken_mgr", "using"} => node[u] # n
  BY <1>1 DEF IInv, ManagerOK, ContainerOK
<1>7. rounds' \in [Threads -> 0..Rounds]
  BY <1>1, NodesAssumption DEF IInv, VariablesTyped, ClientTyped
<1> QED BY <1>1, <1>2, <1>3, <1>4, <1>5, <1>6, <1>7, TrySettles

\* A thread that has waited with the node's mutex leaves its pending state.
LEMMA ResumeKeeps ==
    ASSUME IInv, outcome = "running", NEW t \in Threads, Resume(t)
    PROVE  IInv'
<1> DEFINE n == node[t]
           c == Exit(counter[n], pending(t))
<1>1. /\ pc[t] = "woken" /\ Try(t, n, c) /\ UNCHANGED <<listed, rounds, outcome>>
  BY DEF Resume
<1>2. t \notin Creators
  BY <1>1, ThreadsAssumption DEF Try
<1>3. n \in Nodes /\ Entered(t) = pending(t) /\ ~Twice(t) /\ ManagerOK
  BY <1>1 DEF IInv, VariablesTyped, ClientTyped, RoleOK, Entered, Twice
<1>4. pending(t) \in Counted \ {"delete", "create"}
  BY Roles, StateSets DEF Uses
<1>5. counter[n][pending(t)] > 0 /\ Rest(t, n, c)
  BY <1>3, <1>4, RestOfEntered
<1>6. Good(counter[n]) /\ Excludes(counter[n])
  BY <1>3, ExactIsGood DEF IInv
<1>7. c["delete"] = 0 /\ c["create"] = 0
  <2>1. counter[n]["delete"] = 0 /\ counter[n]["create"] = 0
    BY <1>4, <1>5, <1>6, PendingExcludes
  <2>2. \A r \in Counted \ {pending(t)} : c[r] = counter[n][r]
    BY <1>4, <1>5, <1>6, ExitIs
  <2> QED BY <1>4, <2>1, <2>2 DEF Counted, Uses
<1>8. \A u \in Creators : pc[u] \in {"asleep_mgr", "woken_mgr", "using"} => node[u] # n
  BY <1>2, <1>3 DEF ManagerOK, ContainerOK
<1>9. t \in Deleters => n \in listed
  BY <1>1, <1>3 DEF ManagerOK, ContainerOK
<1>10. rounds' \in [Threads -> 0..Rounds]
  BY <1>1 DEF IInv, VariablesTyped, ClientTyped
<1> HIDE DEF c, n
<1> QED BY <1>1, <1>2, <1>3, <1>5, <1>7, <1>8, <1>9, <1>10, TrySettles DEF n

-----------------------------------------------------------------------------
(* Under the manager's mutex *)

\* A node with one thread has entered no other state than that thread's.
LEMMA AloneIsZero ==
    ASSUME IInv, NEW t \in Threads, NEW n \in Nodes, \A u \in Threads \ {t} : node[u] # n,
           NEW c, Rest(t, n, c)
    PROVE  \A s \in Counted : c[s] = 0
<1> TAKE s \in Counted
<1>1. In(n, s) \in SUBSET Threads /\ InTwice(n, s) \in SUBSET Threads /\ {} \in SUBSET Threads
  BY DEF In, InTwice
<1>2. In(n, s) \ {t} = {} \ {t} /\ InTwice(n, s) \ {t} = {} \ {t}
  BY DEF In, InTwice
<1>3. /\ Cardinality(In(n, s)) \in Nat
      /\ Cardinality({}) = Cardinality(In(n, s)) - (IF t \in In(n, s) THEN 1 ELSE 0)
                                                + (IF t \in {} THEN 1 ELSE 0)
  BY <1>1, <1>2, OneMoves
<1>4. /\ Cardinality(InTwice(n, s)) \in Nat
      /\ Cardinality({}) = Cardinality(InTwice(n, s)) - (IF t \in InTwice(n, s) THEN 1 ELSE 0)
                                                     + (IF t \in {} THEN 1 ELSE 0)
  BY <1>1, <1>2, OneMoves
<1>5. Cardinality({}) = 0
  BY FS_EmptySet
<1>6. Share(t, n, s) = (IF t \in In(n, s) THEN 1 ELSE 0) + (IF t \in InTwice(n, s) THEN 1 ELSE 0)
  BY DEF Share, In, InTwice
<1>7. counter[n][s] = Cardinality(In(n, s)) + Cardinality(InTwice(n, s))
  BY DEF IInv, Exact, Weight
<1>8. c[s] = counter[n][s] - Share(t, n, s)
  BY DEF Rest
<1> QED BY <1>3, <1>4, <1>5, <1>6, <1>7, <1>8

\* One thread enters create or delete, at a node that has entered nothing else,
\* while no other node is being created or deleted.
LEMMA GrantExcludes ==
    ASSUME NEW c, Good(c), \A r \in Counted : c[r] = 0, NEW s \in Counted
    PROVE  Excludes(Enter(c, s))
<1>1. /\ Enter(c, s)[s] = 1 /\ \A r \in Counted \ {s} : Enter(c, s)[r] = 0
  BY EnterIs DEF Good
<1>2. Uses \subseteq Counted
  BY StateSets
<1> QED BY <1>1, <1>2 DEF Excludes, Is, Uses

LEMMA ManagerGrants ==
    ASSUME IInv, NEW t \in Threads, NEW n \in Nodes, NEW d, SetNode(n, d), OthersStay(t),
           ~StructuralChange, ContainerOK', \A u \in Threads \ {t} : ~HasMgr(u),
           ~HasMgr(t)'
    PROVE  ManagerOK'
<1>1. \A m \in Nodes \ {n} : counter'[m] = counter[m]
  BY DEF SetNode, IInv, VariablesTyped
<1>2. \A m \in Nodes : Structural(m)' => m = n
  BY <1>1 DEF StructuralChange, Structural
<1>3. \A u \in Threads : ~HasMgr(u)'
  BY DEF OthersStay, HasMgr
<1> QED BY <1>2, <1>3 DEF ManagerOK

\* crud_request_create, from where it has the manager's mutex.
LEMMA CreateSettles ==
    ASSUME IInv, outcome = "running", NEW t \in Creators, NEW n \in Nodes, NEW c,
           Rest(t, n, c), MgrFree, n \notin listed, \A u \in Threads \ {t} : node[u] # n,
           node[t] \in {n, NoNode}, node' = [node EXCEPT ![t] = n],
           rounds' \in [Threads -> 0..Rounds], UNCHANGED <<listed, outcome>>,
           IF StructuralChange THEN Sleep(t, n, c, "create_thread_cv", "asleep_mgr")
                               ELSE Use(t, n, c)
    PROVE  IInv'
<1>1. /\ ClientTyped /\ ManagerOK /\ \A u \in Threads : RoleOK(u)
      /\ t \in Threads /\ t \notin Readers \cup Writers \cup Deleters
      /\ Creators \subseteq Threads
  BY ThreadsAssumption DEF IInv, VariablesTyped, Threads
<1>2. /\ op(t) = "create" /\ pending(t) = "pending_create"
      /\ "create" \in Counted /\ "pending_create" \in Counted
      /\ "asleep_mgr" \in PCs /\ "using" \in PCs /\ "create_thread_cv" \in Cvs
  BY <1>1, Roles DEF Counted, Uses, Pendings, PCs, Cvs
<1>3. \A s \in Counted : c[s] = 0
  BY <1>1, AloneIsZero
<1>4. node'[t] = n /\ \A u \in Threads \ {t} : node'[u] = node[u]
  BY <1>1 DEF ClientTyped
<1>5. CASE StructuralChange
  <2>1. SetNode(n, Enter(c, "pending_create")) /\ Moves(t, "asleep_mgr", {})
        /\ cv' \in [Threads -> Cvs]
    BY <1>1, <1>2, <1>5 DEF Sleep, ClientTyped
  <2>2. pc' \in [Threads -> PCs] /\ pc'[t] = "asleep_mgr" /\ OthersStay(t)
    BY <1>1, <1>2, <1>4, <2>1, MovesIs
  <2>3. ClientTyped' /\ RoleOK(t)' /\ Entered(t)' = "pending_create" /\ ~Twice(t)'
    BY <1>1, <1>2, <1>4, <2>1, <2>2, NodesAssumption DEF ClientTyped, RoleOK, Entered, Twice
  <2>4. Excludes(Enter(c, "pending_create"))
    BY <1>2, <1>3, GrantExcludes DEF Rest
  <2>5. ~Is(Enter(c, "pending_create"), "create") /\ ~Is(Enter(c, "pending_create"), "delete")
    <3>1. \A r \in Counted \ {"pending_create"} : Enter(c, "pending_create")[r] = c[r]
      BY <1>2, EnterIs DEF Rest, Good
    <3> QED BY <1>3, <3>1 DEF Is, Counted, Uses
  <2>6. ManagerOK'
    <3>1. \A m \in Nodes : Structural(m)' => Structural(m)
      BY <2>1, <2>5, QuietAt
    <3>2. ContainerOK'
      BY <1>1, <1>4, <2>2, ContainerKeeps DEF ManagerOK, ContainerOK
    <3> QED BY <1>1, <2>2, <3>1, <3>2, ManagerQuiet DEF HasMgr
  <2> QED BY <1>1, <1>2, <1>4, <2>1, <2>2, <2>3, <2>4, <2>6, EntersHere
<1>6. CASE ~StructuralChange
  <2>1. SetNode(n, Enter(c, "create")) /\ Moves(t, "using", {}) /\ cv' = cv
    BY <1>2, <1>6 DEF Use
  <2>2. pc' \in [Threads -> PCs] /\ pc'[t] = "using" /\ OthersStay(t)
    BY <1>1, <1>2, <1>4, <2>1, MovesIs
  <2>3. ClientTyped' /\ RoleOK(t)' /\ Entered(t)' = "create" /\ ~Twice(t)'
    <3>1. op(t)' = op(t)
      BY DEF op
    <3> QED BY <1>1, <1>2, <1>4, <2>1, <2>2, <3>1, NodesAssumption
            DEF ClientTyped, RoleOK, Entered, Twice
  <2>4. Excludes(Enter(c, "create"))
    BY <1>2, <1>3, GrantExcludes DEF Rest
  <2>5. ManagerOK'
    <3>1. ContainerOK'
      BY <1>1, <1>4, <2>2, ContainerKeeps DEF ManagerOK, ContainerOK
    <3> QED BY <1>1, <1>6, <2>1, <2>2, <3>1, ManagerGrants DEF MgrFree, HasMgr
  <2> QED BY <1>1, <1>2, <1>4, <2>1, <2>2, <2>3, <2>4, <2>5, EntersHere
<1> QED BY <1>5, <1>6

LEMMA CreateRequestKeeps ==
    ASSUME IInv, outcome = "running", NEW t \in Threads, NEW n \in Nodes, CreateRequest(t, n)
    PROVE  IInv'
<1>1. /\ t \in Creators /\ pc[t] = "idle" /\ rounds[t] > 0 /\ MgrFree
      /\ n \notin listed /\ \A u \in Threads : node[u] # n
      /\ node' = [node EXCEPT ![t] = n] /\ rounds' = [rounds EXCEPT ![t] = @ - 1]
      /\ IF StructuralChange
         THEN Sleep(t, n, counter[n], "create_thread_cv", "asleep_mgr")
         ELSE Use(t, n, counter[n])
      /\ UNCHANGED <<listed, outcome>>
  BY DEF CreateRequest
<1>2. node[t] = NoNode /\ Entered(t) = "none"
  BY <1>1 DEF IInv, RoleOK, Entered
<1>3. Rest(t, n, counter[n])
  BY <1>2, RestOfOther
<1>4. rounds' \in [Threads -> 0..Rounds]
  BY <1>1, NodesAssumption DEF IInv, VariablesTyped, ClientTyped
<1> QED BY <1>1, <1>2, <1>3, <1>4, CreateSettles

LEMMA CreateResumeKeeps ==
    ASSUME IInv, outcome = "running", NEW t \in Threads, CreateResume(t)
    PROVE  IInv'
<1>0. PICK n \in Nodes \cup {NoNode} : n = node[t]
  BY DEF IInv, VariablesTyped, ClientTyped
<1>1. PICK c : c = Exit(counter[n], pending(t))
  OBVIOUS
<1>2. /\ t \in Creators /\ pc[t] = "woken_mgr" /\ MgrFree
      /\ IF StructuralChange THEN Sleep(t, n, c, "create_thread_cv", "asleep_mgr")
                             ELSE Use(t, n, c)
      /\ UNCHANGED <<listed, node, rounds, outcome>>
  BY <1>0, <1>1 DEF CreateResume
<1>3. n \in Nodes /\ Entered(t) = pending(t) /\ ~Twice(t) /\ pending(t) \in Counted
  BY <1>0, <1>2, Roles, StateSets, ThreadsAssumption DEF IInv, RoleOK, Entered, Twice
<1>4. Rest(t, n, c)
  BY <1>0, <1>1, <1>3, RestOfEntered
<1>5. n \notin listed /\ \A u \in Threads \ {t} : node[u] # n
  BY <1>0, <1>2 DEF IInv, ManagerOK, ContainerOK
<1>6. node' = [node EXCEPT ![t] = n] /\ rounds' \in [Threads -> 0..Rounds]
  BY <1>0, <1>2 DEF IInv, VariablesTyped, ClientTyped
<1> QED BY <1>0, <1>2, <1>3, <1>4, <1>5, <1>6, CreateSettles

\* The second half of crud_request_delete: where the thread comes from.
LEMMA DeleteFrom ==
    ASSUME IInv, outcome = "running", NEW t \in Deleters, pc[t] \in {"marked", "woken_mgr"},
           NEW n, n = node[t], NEW c,
           c = IF pc[t] = "woken_mgr" THEN Exit(counter[n], pending(t)) ELSE counter[n]
    PROVE  /\ n \in Nodes /\ pending(t) = "pending_delete" /\ Good(c) /\ Excludes(c)
           /\ c["delete"] = 0 /\ c["create"] = 0 /\ c["pending_delete"] > 0
           /\ c["pending_delete"] = counter[n]["pending_delete"]
                                    - Share(t, n, "pending_delete") + 1
           /\ \A r \in Counted \ {"pending_delete"} :
                  c[r] = counter[n][r] /\ Share(t, n, r) = 0
<1> DEFINE pd == "pending_delete"
<1>1. t \in Threads /\ t \in Deleters
  BY DEF Threads
<1>2. /\ pd \in Counted \ {"delete", "create"} /\ pending(t) = pd
      /\ n \in Nodes /\ Entered(t) = pd
      /\ Twice(t) <=> pc[t] = "woken_mgr"
  BY <1>1, Roles DEF Counted, Uses, Pendings, IInv, VariablesTyped, ClientTyped, RoleOK,
                     Entered, Twice
<1>3. \A r \in Counted : Share(t, n, r) =
          IF r = pd THEN IF pc[t] = "woken_mgr" THEN 2 ELSE 1 ELSE 0
  BY <1>2 DEF Share
<1>4. counter[n][pd] >= Share(t, n, pd)
  BY <1>1, <1>2, SharesCount DEF IInv, Exact
<1>5. Good(counter[n]) /\ Excludes(counter[n]) /\ counter[n][pd] \in Nat
  BY <1>2, ExactIsGood, GoodInUse DEF IInv
<1>6. counter[n]["delete"] = 0 /\ counter[n]["create"] = 0
  <2>1. counter[n][pd] > 0
    BY <1>2, <1>3, <1>4, <1>5
  <2> QED BY <1>2, <1>5, <2>1, PendingExcludes
<1>7. "delete" \in Counted \ {pd} /\ "create" \in Counted \ {pd}
  BY DEF Counted, Uses
<1>8. CASE pc[t] = "marked"
  <2>1. c = counter[n] /\ Share(t, n, pd) = 1
    BY <1>2, <1>3, <1>8
  <2> QED BY <1>2, <1>3, <1>4, <1>5, <1>6, <2>1
<1>9. CASE pc[t] = "woken_mgr"
  <2>1. c = Exit(counter[n], pd) /\ Share(t, n, pd) = 2
    BY <1>2, <1>3, <1>9
  <2>2. /\ Good(c) /\ c[pd] = counter[n][pd] - 1
        /\ \A r \in Counted \ {pd} : c[r] = counter[n][r]
    <3>1. counter[n][pd] > 0
      BY <1>4, <1>5, <2>1
    <3> QED BY <1>2, <1>5, <2>1, <3>1, ExitIs
  <2>3. Excludes(c)
    <3>1. \A r \in Counted : Is(c, r) => Is(counter[n], r)
      BY <1>5, <2>2 DEF Is
    <3>2. "write" \in Counted \ {pd} /\ "read" \in Counted \ {pd}
      BY DEF Counted, Uses
    <3> QED BY <1>5, <1>7, <2>2, <3>1, <3>2 DEF Excludes
  <2> QED BY <1>2, <1>3, <1>4, <1>5, <1>6, <1>7, <2>1, <2>2, <2>3
<1> QED BY <1>8, <1>9

LEMMA DeleteWaitKeeps ==
    ASSUME IInv, outcome = "running", NEW t \in Threads, DeleteWait(t)
    PROVE  IInv'
<1>1. PICK n, c : n = node[t]
          /\ c = IF pc[t] = "woken_mgr" THEN Exit(counter[n], pending(t)) ELSE counter[n]
  OBVIOUS
<1>2. /\ t \in Deleters /\ pc[t] \in {"marked", "woken_mgr"}
      /\ Sleep(t, n, c, "delete_thread_cv", "asleep_mgr")
      /\ UNCHANGED <<listed, node, rounds, outcome>>
  BY <1>1 DEF DeleteWait
<1>3. /\ n \in Nodes /\ pending(t) = "pending_delete" /\ Good(c) /\ Excludes(c)
      /\ c["delete"] = 0 /\ c["create"] = 0
      /\ c["pending_delete"] = counter[n]["pending_delete"] - Share(t, n, "pending_delete") + 1
      /\ \A r \in Counted \ {"pending_delete"} :
             c[r] = counter[n][r] /\ Share(t, n, r) = 0
  BY <1>1, <1>2, DeleteFrom
<1>4. /\ SetNode(n, Enter(c, "pending_delete")) /\ Moves(t, "asleep_mgr", {})
      /\ cv' \in [Threads -> Cvs]
  BY <1>2, <1>3 DEF Sleep, IInv, VariablesTyped, ClientTyped, Cvs
<1>5. pc' \in [Threads -> PCs] /\ pc'[t] = "asleep_mgr" /\ OthersStay(t)
  <2>1. "asleep_mgr" \in PCs
    BY DEF PCs
  <2> QED BY <1>2, <1>4, <2>1, MovesIs
<1>6. /\ ClientTyped' /\ RoleOK(t)' /\ Entered(t)' = "pending_delete" /\ Twice(t)'
      /\ node'[t] = n
  <2>1. pending(t)' = pending(t)
    BY DEF pending
  <2>2. t \notin Readers \cup Writers
    BY <1>2, ThreadsAssumption
  <2> QED BY <1>1, <1>2, <1>3, <1>4, <1>5, <2>1, <2>2
          DEF IInv, VariablesTyped, ClientTyped, RoleOK, Entered, Twice
<1>7. "pending_delete" \in Counted \ {"delete", "create", "read", "write"}
  BY DEF Counted, Pendings
<1>8. /\ Good(Enter(c, "pending_delete")) /\ InUse(Enter(c, "pending_delete"))
      /\ Enter(c, "pending_delete")["pending_delete"] = c["pending_delete"] + 1
      /\ \A r \in Counted \ {"pending_delete"} : Enter(c, "pending_delete")[r] = c[r]
  BY <1>3, <1>7, EnterIs DEF Good
<1>9. Excludes(Enter(c, "pending_delete"))
  BY <1>3, <1>7, EnterExcludes
<1>10. \A r \in Counted : Enter(c, "pending_delete")[r]
                          = counter[n][r] - Share(t, n, r) + Share(t, n, r)'
  <2>1. \A r \in Counted : Share(t, n, r)' = IF r = "pending_delete" THEN 2 ELSE 0
    BY <1>6 DEF Share
  <2>2. \A r \in Counted : counter[n][r] \in Nat /\ Share(t, n, r) \in {0, 1, 2}
    BY <1>3, ExactIsGood, GoodInUse, SharesCount
  <2> QED BY <1>3, <1>7, <1>8, <2>1, <2>2
<1>11. ManagerOK'
  <2>1. ~Is(Enter(c, "pending_delete"), "create") /\ ~Is(Enter(c, "pending_delete"), "delete")
    BY <1>3, <1>8 DEF Is, Counted, Uses
  <2>2. \A m \in Nodes : Structural(m)' => Structural(m)
    BY <1>3, <1>4, <2>1, QuietAt
  <2>3. ContainerOK'
    BY <1>1, <1>2, <1>5, <1>6, ThreadsAssumption, ContainerKeeps
       DEF IInv, ManagerOK, ContainerOK, Threads
  <2> QED BY <1>5, <2>2, <2>3, ManagerQuiet DEF HasMgr
<1>12. ~Is(Enter(c, "pending_delete"), "no_op")
  BY <1>8 DEF Good
<1> QED BY <1>1, <1>3, <1>4, <1>5, <1>6, <1>8, <1>9, <1>10, <1>11, <1>12, Settles

LEMMA DeleteUnmarkKeeps ==
    ASSUME IInv, outcome = "running", NEW t \in Threads, DeleteUnmark(t)
    PROVE  IInv'
<1>1. PICK n, c : n = node[t]
          /\ c = IF pc[t] = "woken_mgr" THEN Exit(counter[n], pending(t)) ELSE counter[n]
  OBVIOUS
<1>2. /\ t \in Deleters /\ pc[t] \in {"marked", "woken_mgr"} /\ MgrFree /\ ~StructuralChange
      /\ SetNode(n, Leave(c, "pending_delete")) /\ Moves(t, "unmarking", {})
      /\ UNCHANGED <<listed, node, cv, rounds, outcome>>
  BY <1>1 DEF DeleteUnmark
<1>3. /\ n \in Nodes /\ Good(c) /\ c["delete"] = 0 /\ c["create"] = 0
      /\ c["pending_delete"] > 0
      /\ c["pending_delete"] = counter[n]["pending_delete"] - Share(t, n, "pending_delete") + 1
      /\ \A r \in Counted \ {"pending_delete"} :
             c[r] = counter[n][r] /\ Share(t, n, r) = 0
  BY <1>1, <1>2, DeleteFrom
<1>4. "pending_delete" \in Counted /\ "delete" \in Counted /\ "create" \in Counted
  BY DEF Counted, Pendings, Uses
<1>5. PICK d : d = Leave(c, "pending_delete")
  OBVIOUS
<1>6. /\ Good(d) /\ d["no_op"] = 0 /\ d["pending_delete"] = c["pending_delete"] - 1
      /\ \A r \in Counted \ {"pending_delete"} : d[r] = c[r]
  BY <1>3, <1>4, <1>5, LeaveIs
<1>7. Rest(t, n, d)
  <2>1. \A r \in Counted : counter[n][r] \in Nat /\ Share(t, n, r) \in {0, 1, 2}
    BY <1>3, ExactIsGood, GoodInUse, SharesCount
  <2> QED BY <1>3, <1>4, <1>6, <2>1 DEF Rest
<1>8. Excludes(d)
  BY <1>3, <1>7, RestExcludes DEF IInv
<1>9. pc' \in [Threads -> PCs] /\ pc'[t] = "unmarking" /\ OthersStay(t)
  <2>1. "unmarking" \in PCs
    BY DEF PCs
  <2> QED BY <1>2, <2>1, MovesIs
<1>10. /\ ClientTyped' /\ RoleOK(t)' /\ Entered(t)' = "none" /\ node'[t] = n
  <2>1. t \notin Readers \cup Writers \cup Creators
    BY <1>2, ThreadsAssumption
  <2> QED BY <1>1, <1>2, <1>3, <1>9, <2>1, NodesAssumption
          DEF IInv, VariablesTyped, ClientTyped, RoleOK, Entered
<1>11. ManagerOK'
  <2>1. ~Is(d, "create") /\ ~Is(d, "delete")
    BY <1>3, <1>6 DEF Is, Counted, Uses
  <2>2. \A m \in Nodes : Structural(m)' => Structural(m)
    BY <1>2, <1>3, <1>5, <2>1, QuietAt
  <2>3. \A m \in Nodes : ~Structural(m)'
    BY <1>2, <2>2 DEF StructuralChange, Structural
  <2>4. \A u \in Threads : HasMgr(u)' => u = t
    BY <1>2, <1>9 DEF MgrFree, OthersStay, HasMgr
  <2>5. ContainerOK'
    BY <1>1, <1>2, <1>9, <1>10, ThreadsAssumption, ContainerKeeps
       DEF IInv, ManagerOK, ContainerOK, Threads
  <2> QED BY <2>3, <2>4, <2>5 DEF ManagerOK, StructuralChange, Structural
<1>12. ~Is(d, "no_op") /\ \A u \in Threads \ {t} : ~Unmarking(u, n)
  BY <1>2, <1>6 DEF Is, Unmarking, MgrFree, HasMgr
<1> QED BY <1>1, <1>2, <1>3, <1>5, <1>7, <1>8, <1>9, <1>10, <1>11, <1>12, LeavesHere

LEMMA DeleteNoOpKeeps ==
    ASSUME IInv, outcome = "running", NEW t \in Threads, DeleteNoOp(t)
    PROVE  IInv'
<1>1. PICK n, d : n = node[t] /\ d = NoOpIfUnused(counter[n])
  OBVIOUS
<1>2. /\ pc[t] = "unmarking" /\ SetNode(n, d) /\ Moves(t, "granting", {})
      /\ UNCHANGED <<listed, node, cv, rounds, outcome>>
  BY <1>1 DEF DeleteNoOp
<1>3. t \in Deleters /\ t \notin Readers \cup Writers \cup Creators
  BY <1>2, ThreadsAssumption DEF IInv, RoleOK, Threads
<1>4. n \in Nodes /\ Entered(t) = "none"
  BY <1>1, <1>2 DEF IInv, VariablesTyped, ClientTyped, RoleOK, Entered
<1>5. /\ Rest(t, n, d) /\ (Is(d, "no_op") <=> ~InUse(d))
      /\ \A r \in Counted : d[r] = counter[n][r]
  <2>1. Rest(t, n, counter[n])
    BY <1>4, RestOfOther
  <2> QED BY <1>1, <2>1, NoOpIs DEF Rest
<1>6. Excludes(d)
  BY <1>4, <1>5, RestExcludes DEF IInv
<1>7. pc' \in [Threads -> PCs] /\ pc'[t] = "granting" /\ OthersStay(t)
  <2>1. "granting" \in PCs
    BY DEF PCs
  <2> QED BY <1>2, <2>1, MovesIs
<1>8. ClientTyped' /\ RoleOK(t)' /\ Entered(t)' = "none" /\ node'[t] = n
  BY <1>1, <1>2, <1>3, <1>4, <1>7, NodesAssumption
     DEF IInv, VariablesTyped, ClientTyped, RoleOK, Entered
<1>9. ~StructuralChange /\ \A u \in Threads : HasMgr(u) => u = t
  BY <1>2 DEF IInv, ManagerOK, HasMgr
<1>10. ManagerOK'
  <2>1. "create" \in Counted /\ "delete" \in Counted
    BY DEF Counted, Uses
  <2>2. \A m \in Nodes : Structural(m)' => Structural(m)
    BY <1>2, <1>4, <1>5, <2>1, QuietAt DEF Structural, Is
  <2>3. \A m \in Nodes : ~Structural(m)'
    BY <1>9, <2>2 DEF StructuralChange, Structural
  <2>4. \A u \in Threads : HasMgr(u)' => u = t
    BY <1>7, <1>9 DEF OthersStay, HasMgr
  <2>5. ContainerOK'
    BY <1>1, <1>2, <1>3, <1>7, <1>8, ContainerKeeps
       DEF IInv, ManagerOK, ContainerOK, Threads
  <2> QED BY <2>3, <2>4, <2>5 DEF ManagerOK, StructuralChange, Structural
<1>11. \A u \in Threads \ {t} : ~Unmarking(u, n)
  BY <1>9 DEF Unmarking, HasMgr
<1> QED BY <1>1, <1>2, <1>4, <1>5, <1>6, <1>7, <1>8, <1>10, <1>11, LeavesHere

\* Whether or not someone has come in between the two states.
LEMMA DeleteGrantKeeps ==
    ASSUME IInv, outcome = "running", NEW t \in Threads, DeleteGrant(t)
    PROVE  IInv'
<1>1. PICK n : n = node[t]
  OBVIOUS
<1>2. /\ pc[t] = "granting"
      /\ outcome' = IF InUse(counter[n]) THEN "deleted in use" ELSE "running"
      /\ SetNode(n, Enter(counter[n], op(t))) /\ Moves(t, "using", {})
      /\ UNCHANGED <<listed, node, cv, rounds>>
  BY <1>1 DEF DeleteGrant, Use
<1>3. t \in Deleters /\ t \notin Readers \cup Writers \cup Creators
  BY <1>2, ThreadsAssumption DEF IInv, RoleOK, Threads
<1>4. /\ op(t) = "delete" /\ "delete" \in Counted /\ n \in Nodes /\ Entered(t) = "none"
      /\ "using" \in PCs
  BY <1>1, <1>2, <1>3, Roles
     DEF Counted, Uses, PCs, IInv, VariablesTyped, ClientTyped, RoleOK, Entered
<1>5. Rest(t, n, counter[n])
  BY <1>4, RestOfOther
<1>6. pc' \in [Threads -> PCs] /\ pc'[t] = "using" /\ OthersStay(t)
  <2>1. Moves(t, "using", {}) /\ node' = node /\ "using" \in PCs
    BY <1>2, <1>4
  <2> QED BY <2>1, MovesIs
<1>7. /\ ClientTyped' /\ RoleOK(t)' /\ Entered(t)' = "delete" /\ ~Twice(t)' /\ node'[t] = n
  <2>1. op(t)' = op(t)
    BY DEF op
  <2> QED BY <1>1, <1>2, <1>3, <1>4, <1>6, <2>1, NodesAssumption
          DEF IInv, VariablesTyped, ClientTyped, RoleOK, Entered, Twice
<1>8. outcome' = "running" => Excludes(Enter(counter[n], "delete"))
  <2> SUFFICES ASSUME outcome' = "running" PROVE Excludes(Enter(counter[n], "delete"))
    OBVIOUS
  <2>1. Good(counter[n]) /\ ~InUse(counter[n])
    BY <1>2, <1>5 DEF Rest
  <2>2. \A s \in Counted : counter[n][s] = 0
    BY <2>1, GoodInUse
  <2> QED BY <1>4, <2>1, <2>2, GrantExcludes
<1>9. ManagerOK'
  <2>1. ~StructuralChange /\ \A u \in Threads \ {t} : ~HasMgr(u)
    BY <1>2 DEF IInv, ManagerOK, HasMgr
  <2>2. ContainerOK'
    BY <1>1, <1>2, <1>3, <1>6, <1>7, ContainerKeeps
       DEF IInv, ManagerOK, ContainerOK, Threads
  <2> QED BY <1>2, <1>4, <1>6, <2>1, <2>2, ManagerGrants DEF HasMgr
<1> QED BY <1>1, <1>2, <1>4, <1>5, <1>6, <1>7, <1>8, <1>9, EntersHere

-----------------------------------------------------------------------------
(* crud_request_release *)

\* curr_op tells what the thread that has access asked for.
LEMMA ReleaseFrom ==
    ASSUME IInv, outcome = "running", NEW t \in Threads, pc[t] = "using",
           NEW n, n = node[t]
    PROVE  /\ n \in Nodes /\ curr_op[n] = op(t) /\ op(t) \in Uses
           /\ Is(counter[n], op(t)) /\ Rest(t, n, Exit(counter[n], op(t)))
           /\ Excludes(Exit(counter[n], op(t))) /\ InUse(counter[n])
           /\ Is(Exit(counter[n], op(t)), "no_op") <=> ~InUse(Exit(counter[n], op(t)))
           /\ Is(Exit(counter[n], op(t)), "create") \/ Is(Exit(counter[n], op(t)), "delete")
                  => Structural(n)
<1>1. /\ n \in Nodes /\ Entered(t) = op(t) /\ ~Twice(t) /\ op(t) \in Uses
      /\ op(t) \in Counted
  BY Roles, StateSets DEF IInv, VariablesTyped, ClientTyped, RoleOK, Entered, Twice
<1>2. counter[n][op(t)] > 0 /\ Rest(t, n, Exit(counter[n], op(t)))
  BY <1>1, RestOfEntered
<1>3. curr_op[n] = op(t)
  BY <1>1, <1>2 DEF IInv, CurrOpOK, Is
<1>4. Excludes(Exit(counter[n], op(t)))
  BY <1>1, <1>2, RestExcludes DEF IInv
<1>5. Is(Exit(counter[n], op(t)), "create") \/ Is(Exit(counter[n], op(t)), "delete")
          => Structural(n)
  <2>1. \A r \in Counted \ {op(t)} : Exit(counter[n], op(t))[r] = counter[n][r]
    BY <1>1, <1>2, ExactIsGood, ExitIs
  <2>2. "create" \in Counted /\ "delete" \in Counted
    BY DEF Counted, Uses
  <2> QED BY <1>2, <2>1, <2>2 DEF Structural, Is
<1>6. /\ InUse(counter[n])
      /\ Is(Exit(counter[n], op(t)), "no_op") <=> ~InUse(Exit(counter[n], op(t)))
  BY <1>1, <1>2, ExactIsGood, GoodInUse, ExitIs
<1> QED BY <1>1, <1>2, <1>3, <1>4, <1>5, <1>6 DEF Is

LEMMA ReleaseDataKeeps ==
    ASSUME IInv, outcome = "running", NEW t \in Threads, ReleaseData(t)
    PROVE  IInv'
<1>1. PICK n, c : n = node[t] /\ c = Exit(counter[n], curr_op[n])
  OBVIOUS
<1>2. /\ pc[t] = "using" /\ SetNode(n, c) /\ Leaves(t) /\ NodeFree(n)
      /\ UNCHANGED <<listed, cv, rounds, outcome>>
  BY <1>1 DEF ReleaseData
<1>3. PICK ts \in WokenBy(n, c) : Moves(t, "idle", ts)
  BY <1>1 DEF ReleaseData
<1>4. n \in Nodes /\ Rest(t, n, c) /\ Excludes(c) /\ InUse(counter[n])
      /\ (Is(c, "no_op") <=> ~InUse(c))
      /\ (Is(c, "create") \/ Is(c, "delete") => Structural(n))
  BY <1>1, <1>2, ReleaseFrom
<1>5. node'[t] = NoNode /\ \A u \in Threads \ {t} : node'[u] = node[u]
  BY <1>2 DEF Leaves, IInv, VariablesTyped, ClientTyped
<1>6. pc' \in [Threads -> PCs] /\ pc'[t] = "idle" /\ OthersStay(t)
  <2>1. \A u \in ts : pc[u] \in {"asleep", "asleep_mgr"}
    BY <1>3, SleepersSleep DEF WokenBy
  <2>2. "idle" \in PCs
    BY DEF PCs
  <2> QED BY <1>3, <1>5, <2>1, <2>2, MovesIs
<1>7. ClientTyped' /\ RoleOK(t)' /\ Entered(t)' = "none"
  BY <1>2, <1>5, <1>6 DEF Leaves, IInv, VariablesTyped, ClientTyped, RoleOK, Entered
<1>8. ManagerOK'
  <2>1. \A m \in Nodes : Structural(m)' => Structural(m)
    BY <1>2, <1>4, QuietAt
  <2>2. ContainerOK'
    <3>1. \A u \in Creators : u \in Threads /\ (pc[u] # "idle" => node[u] # NoNode)
      BY DEF IInv, RoleOK, Threads
    <3> QED BY <1>2, <1>5, <1>6, <3>1, ContainerKeeps DEF IInv, ManagerOK, ContainerOK
  <2> QED BY <1>6, <2>1, <2>2, ManagerQuiet DEF HasMgr
<1>9. \A u \in Threads : ~Unmarking(u, n)
  BY <1>2, <1>4 DEF NodeFree, Unmarking, HasMgr
<1> QED BY <1>1, <1>2, <1>4, <1>5, <1>6, <1>7, <1>8, <1>9, LeavesHere

\* Nobody else waits for, or has, a node that is being deleted.
LEMMA DeletedAlone ==
    ASSUME IInv, outcome = "running", NEW t \in Deleters, pc[t] = "using",
           NEW u \in Deleters, u # t, pc[u] \notin {"idle", "released"}
    PROVE  node[u] # node[t]
<1> SUFFICES ASSUME node[u] = node[t] PROVE FALSE
  OBVIOUS
<1>1. PICK n : n = node[t]
  OBVIOUS
<1>2. /\ t \in Threads /\ u \in Threads /\ op(t) = "delete" /\ op(u) = "delete"
      /\ pending(u) = "pending_delete"
  <2>1. t \in Threads /\ u \in Threads
    BY DEF Threads
  <2> QED BY <2>1, Roles
<1>3. n \in Nodes /\ Is(counter[n], "delete") /\ Excludes(counter[n])
  BY <1>1, <1>2, ReleaseFrom DEF IInv
<1>4. ~HasMgr(u)
  BY <1>1, <1>2, <1>3 DEF IInv, ManagerOK, StructuralChange
<1>5. Entered(u) \in {"delete", "pending_delete"}
  BY <1>2, <1>4 DEF IInv, VariablesTyped, ClientTyped, PCs, Entered, HasMgr
<1>6. "delete" \in Counted /\ "pending_delete" \in Counted
  BY DEF Counted, Uses, Pendings
<1>7. counter[n]["delete"] \in Nat /\ counter[n]["pending_delete"] \in Nat
  BY <1>3, <1>6, ExactIsGood, GoodInUse
<1>8. CASE Entered(u) = "delete"
  <2>1. Share(t, n, "delete") = 1 /\ Share(u, n, "delete") >= 1
    BY <1>1, <1>2, <1>8 DEF Share, Entered, Twice
  <2>2. Weight(n, "delete") >= Share(t, n, "delete") + Share(u, n, "delete")
    BY <1>2, SharesCount
  <2>3. Share(u, n, "delete") \in {0, 1, 2} /\ counter[n]["delete"] = Weight(n, "delete")
    BY <1>2, <1>3, <1>6, SharesCount DEF IInv, Exact
  <2> QED BY <1>3, <1>7, <2>1, <2>2, <2>3 DEF Excludes
<1>9. CASE Entered(u) = "pending_delete"
  <2>1. Share(u, n, "pending_delete") >= 1
    BY <1>1, <1>9 DEF Share
  <2>2. Weight(n, "pending_delete") >= Share(u, n, "pending_delete")
    BY <1>2, SharesCount
  <2>3. /\ Share(u, n, "pending_delete") \in {0, 1, 2}
        /\ counter[n]["pending_delete"] = Weight(n, "pending_delete")
    BY <1>2, <1>3, <1>6, SharesCount DEF IInv, Exact
  <2>4. Is(counter[n], "pending_delete")
    BY <1>7, <2>1, <2>2, <2>3 DEF Is
  <2> QED BY <1>3, <1>6, <2>4 DEF Excludes
<1> QED BY <1>5, <1>8, <1>9

LEMMA ReleaseStructureKeeps ==
    ASSUME IInv, outcome = "running", NEW t \in Threads, ReleaseStructure(t)
    PROVE  IInv'
<1>1. PICK n, c : n = node[t] /\ c = Exit(counter[n], curr_op[n])
  OBVIOUS
<1>2. /\ pc[t] = "using" /\ curr_op[n] \in {"create", "delete"} /\ SetNode(n, c)
      /\ listed' = IF curr_op[n] = "create" THEN listed \cup {n} ELSE listed \ {n}
      /\ Moves(t, "released", {}) /\ UNCHANGED <<node, cv, rounds, outcome>>
  BY <1>1 DEF ReleaseStructure
<1>3. n \in Nodes /\ curr_op[n] = op(t) /\ Rest(t, n, c) /\ Excludes(c)
      /\ Is(counter[n], op(t)) /\ (Is(c, "no_op") <=> ~InUse(c))
      /\ (Is(c, "create") \/ Is(c, "delete") => Structural(n))
  BY <1>1, <1>2, ReleaseFrom
<1>4. /\ t \in Creators <=> curr_op[n] = "create"
      /\ t \in Deleters <=> curr_op[n] = "delete"
      /\ t \notin Readers \cup Writers
  BY <1>2, <1>3, Roles
<1>5. pc' \in [Threads -> PCs] /\ pc'[t] = "released" /\ OthersStay(t)
  <2>1. "released" \in PCs
    BY DEF PCs
  <2> QED BY <1>2, <2>1, MovesIs
<1>6. ClientTyped' /\ RoleOK(t)' /\ Entered(t)' = "none" /\ node'[t] = n
  <2>1. listed' \subseteq Nodes
    BY <1>2, <1>3 DEF IInv, VariablesTyped, ClientTyped
  <2> QED BY <1>1, <1>2, <1>3, <1>4, <1>5, <2>1, NodesAssumption
          DEF IInv, VariablesTyped, ClientTyped, RoleOK, Entered
<1>7. ManagerOK'
  <2>1. \A m \in Nodes : Structural(m)' => Structural(m)
    BY <1>2, <1>3, QuietAt
  <2>2. ContainerOK
    BY DEF IInv, ManagerOK
  <2>3. \A u \in Creators \ {t} : pc[u] \in {"asleep_mgr", "woken_mgr", "using"} =>
            node'[t] # node[u] /\ node[u] \notin listed'
    BY <1>1, <1>2, <1>6, <2>2 DEF ContainerOK
  <2>4. \A u \in Deleters \ {t} : pc[u] \notin {"idle", "released"} => node[u] \in listed'
    <3>1. CASE t \in Deleters
      <4>1. \A u \in Deleters \ {t} : pc[u] \notin {"idle", "released"} => node[u] # n
        BY <1>1, <1>2, <3>1, DeletedAlone
      <4> QED BY <1>2, <2>2, <4>1 DEF ContainerOK
    <3>2. CASE t \notin Deleters
      BY <1>2, <1>4, <2>2, <3>2 DEF ContainerOK
    <3> QED BY <3>1, <3>2
  <2>5. ContainerOK'
    BY <1>5, <2>3, <2>4, ContainerKeeps
  <2> QED BY <1>5, <2>1, <2>5, ManagerQuiet DEF HasMgr
<1>8. \A u \in Threads : ~Unmarking(u, n)
  BY <1>2, <1>3 DEF IInv, ManagerOK, StructuralChange, Unmarking, HasMgr
<1> QED BY <1>1, <1>2, <1>3, <1>5, <1>6, <1>7, <1>8, LeavesHere

\* A step that leaves the nodes and what the threads have entered alone.
LEMMA NodesUntouched ==
    ASSUME IInv, outcome = "running", NEW t \in Threads, UNCHANGED <<counter, curr_op>>,
           OthersStay(t), ClientTyped', RoleOK(t)', ContainerOK',
           ~HasMgr(t), ~HasMgr(t)',
           \A n \in Nodes : \A s \in Counted : Share(t, n, s)' = Share(t, n, s)
    PROVE  IInv'
<1>1. VariablesTyped'
  BY DEF IInv, VariablesTyped
<1>2. \A u \in Threads : RoleOK(u)'
  BY RolesStay
<1>3. ASSUME NEW n \in Nodes PROVE Exact(n)'
  <2>1. \A s \in Counted : Weight(n, s)' = Weight(n, s)
    <3> TAKE s \in Counted
    <3>1. Share(t, n, s)' = Share(t, n, s) /\ Share(t, n, s) \in {0, 1, 2}
      BY SharesCount
    <3> QED BY <3>1, WeightMoves
  <2>2. \A u \in Threads : Unmarking(u, n)' <=> Unmarking(u, n)
    BY DEF Unmarking, OthersStay, HasMgr
  <2> QED BY <2>1, <2>2 DEF IInv, Exact, Is, InUse
<1>4. ManagerOK'
  <2>1. \A m \in Nodes : Structural(m)' => Structural(m)
    BY DEF Structural, Is
  <2> QED BY <2>1, ManagerQuiet DEF HasMgr
<1>5. \A n \in Nodes : Excludes(counter[n])' /\ CurrOpOK(n)'
  BY DEF IInv, Excludes, CurrOpOK, Is
<1> QED BY <1>1, <1>2, <1>3, <1>4, <1>5 DEF IInv

LEMMA SignalNextKeeps ==
    ASSUME IInv, outcome = "running", NEW t \in Threads, SignalNext(t)
    PROVE  IInv'
<1>1. /\ pc[t] = "released" /\ Leaves(t) /\ outcome' \in {"running", "assert failed"}
      /\ UNCHANGED <<counter, curr_op, listed, cv, rounds>>
  BY DEF SignalNext
<1>2. PICK ts : Moves(t, "idle", ts) /\ \A u \in ts : pc[u] \in {"asleep", "asleep_mgr"}
  <2>1. \/ Moves(t, "idle", {})
        \/ \E v, n : \E ts \in OneOf(Sleepers(n, v)) : Moves(t, "idle", ts)
    BY DEF SignalNext
  <2>2. CASE Moves(t, "idle", {})
    BY <2>2
  <2>3. CASE \E v, n : \E ts \in OneOf(Sleepers(n, v)) : Moves(t, "idle", ts)
    <3>1. PICK v, n : \E ts \in OneOf(Sleepers(n, v)) : Moves(t, "idle", ts)
      BY <2>3
    <3> QED BY <3>1, SleepersSleep
  <2> QED BY <2>1, <2>2, <2>3
<1>3. node'[t] = NoNode /\ \A u \in Threads \ {t} : node'[u] = node[u]
  BY <1>1 DEF Leaves, IInv, VariablesTyped, ClientTyped
<1>4. pc' \in [Threads -> PCs] /\ pc'[t] = "idle" /\ OthersStay(t)
  <2>1. "idle" \in PCs
    BY DEF PCs
  <2> QED BY <1>2, <1>3, <2>1, MovesIs
<1>5. ClientTyped' /\ RoleOK(t)'
  BY <1>1, <1>3, <1>4 DEF Leaves, IInv, VariablesTyped, ClientTyped, RoleOK
<1>6. ContainerOK'
  <2>1. \A u \in Creators : u \in Threads /\ (pc[u] # "idle" => node[u] # NoNode)
    BY DEF IInv, RoleOK, Threads
  <2> QED BY <1>1, <1>3, <1>4, <2>1, ContainerKeeps DEF IInv, ManagerOK, ContainerOK
<1>7. \A n \in Nodes : \A s \in Counted : Share(t, n, s)' = Share(t, n, s)
  BY <1>1, <1>4, StateSets DEF Share, Entered
<1> QED BY <1>1, <1>4, <1>5, <1>6, <1>7, NodesUntouched DEF HasMgr

LEMMA SpuriousWakeupKeeps ==
    ASSUME IInv, outcome = "running", NEW t \in Threads, SpuriousWakeup(t)
    PROVE  IInv'
<1>1. /\ pc[t] \in {"asleep", "asleep_mgr"}
      /\ pc' = [pc EXCEPT ![t] = IF @ = "asleep" THEN "woken" ELSE "woken_mgr"]
      /\ UNCHANGED <<counter, curr_op, listed, node, cv, rounds, outcome>>
  BY DEF SpuriousWakeup
<1>2. /\ pc'[t] = (IF pc[t] = "asleep" THEN "woken" ELSE "woken_mgr")
      /\ pc' \in [Threads -> PCs] /\ OthersStay(t)
  BY <1>1 DEF IInv, VariablesTyped, ClientTyped, PCs, OthersStay
<1>3. ClientTyped' /\ RoleOK(t)'
  BY <1>1, <1>2 DEF IInv, VariablesTyped, ClientTyped, RoleOK
<1>4. ContainerOK'
  BY <1>1, <1>2, ContainerKeeps DEF IInv, ManagerOK, ContainerOK, RoleOK
<1>5. \A n \in Nodes : \A s \in Counted : Share(t, n, s)' = Share(t, n, s)
  <2>1. pending(t)' = pending(t) /\ node'[t] = node[t]
    BY <1>1 DEF pending
  <2>2. Entered(t)' = Entered(t) /\ Twice(t)' = Twice(t)
    BY <1>1, <1>2, <2>1 DEF Entered, Twice
  <2> QED BY <2>1, <2>2 DEF Share
<1> QED BY <1>1, <1>2, <1>3, <1>4, <1>5, NodesUntouched DEF HasMgr

LEMMA RejectKeeps ==
    ASSUME IInv, outcome = "running", NEW t \in Threads, NEW n \in Nodes, Reject(t, n)
    PROVE  IInv'
<1>1. /\ pc[t] = "idle" /\ rounds[t] > 0 /\ rounds' = [rounds EXCEPT ![t] = @ - 1]
      /\ UNCHANGED <<counter, curr_op, listed, node, pc, cv, outcome>>
  BY DEF Reject, AsksFor, Asks
<1>2. OthersStay(t) /\ pc'[t] = "idle"
  BY <1>1 DEF OthersStay
<1>3. ClientTyped' /\ RoleOK(t)'
  <2>1. rounds' \in [Threads -> 0..Rounds]
    BY <1>1, NodesAssumption DEF IInv, VariablesTyped, ClientTyped
  <2> QED BY <1>1, <2>1 DEF IInv, VariablesTyped, ClientTyped, RoleOK
<1>4. ContainerOK'
  BY <1>1 DEF IInv, ManagerOK, ContainerOK
<1>5. \A m \in Nodes : \A s \in Counted : Share(t, m, s)' = Share(t, m, s)
  BY <1>1 DEF Share, Entered, Twice, op, pending
<1> QED BY <1>1, <1>2, <1>3, <1>4, <1>5, NodesUntouched DEF HasMgr

LEMMA RequestAbortsKeeps ==
    ASSUME IInv, outcome = "running", NEW t \in Threads, NEW n \in Nodes, RequestAborts(t, n)
    PROVE  IInv'
<1>1. /\ pc[t] = "idle" /\ outcome' = "assert failed"
      /\ UNCHANGED <<counter, curr_op, listed, node, pc, cv>>
  BY DEF RequestAborts, AsksFor, Asks
<1>2. rounds[t] > 0 /\ rounds' = [rounds EXCEPT ![t] = @ - 1]
  BY DEF RequestAborts, AsksFor, Asks
<1>3. OthersStay(t) /\ pc'[t] = "idle"
  BY <1>1 DEF OthersStay
<1>4. ClientTyped' /\ RoleOK(t)'
  <2>1. rounds' \in [Threads -> 0..Rounds]
    BY <1>2, NodesAssumption DEF IInv, VariablesTyped, ClientTyped
  <2> QED BY <1>1, <2>1 DEF IInv, VariablesTyped, ClientTyped, RoleOK
<1>5. ContainerOK'
  BY <1>1 DEF IInv, ManagerOK, ContainerOK
<1>6. \A m \in Nodes : \A s \in Counted : Share(t, m, s)' = Share(t, m, s)
  BY <1>1 DEF Share, Entered, Twice, op, pending
<1> QED BY <1>1, <1>3, <1>4, <1>5, <1>6, NodesUntouched DEF HasMgr

LEMMA StepKeeps == IInv /\ [Next]_vars => IInv'
<1> SUFFICES ASSUME IInv, [Next]_vars PROVE IInv'
  OBVIOUS
<1>1. ASSUME outcome = "running", NEW t \in Threads, Step(t) PROVE IInv'
  BY <1>1, RejectKeeps, RequestKeeps, RequestAbortsKeeps, CreateRequestKeeps, ResumeKeeps, CreateResumeKeeps,
     DeleteWaitKeeps, DeleteUnmarkKeeps, DeleteNoOpKeeps, DeleteGrantKeeps,
     ReleaseDataKeeps, ReleaseStructureKeeps, SignalNextKeeps, SpuriousWakeupKeeps DEF Step
<1>2. CASE UNCHANGED vars
  <2> USE <1>2 DEF vars
  <2>1. VariablesTyped' /\ \A t \in Threads : RoleOK(t)'
    BY DEF IInv, VariablesTyped, ClientTyped, RoleOK
  <2>2. \A n \in Nodes : Exact(n)'
    <3>1. \A n \in Nodes : \A s \in Counted : Weight(n, s)' = Weight(n, s)
      BY DEF Weight, In, InTwice, Entered, Twice, op, pending
    <3> QED BY <3>1 DEF IInv, Exact, Is, InUse, Unmarking
  <2>3. ManagerOK'
    BY DEF IInv, ManagerOK, ContainerOK, Structural, StructuralChange, Is, HasMgr
  <2>4. outcome' = "running" => \A n \in Nodes : Excludes(counter[n])' /\ CurrOpOK(n)'
    BY DEF IInv, Excludes, CurrOpOK, Is
  <2> QED BY <2>1, <2>2, <2>3, <2>4 DEF IInv
<1> QED BY <1>1, <1>2 DEF Next, Finished

-----------------------------------------------------------------------------
(* The theorems *)

\* What a thread has entered is what StatesExact counts.
LEMMA UsingCounted ==
    ASSUME IInv, NEW n \in Nodes, NEW o \in Uses
    PROVE  /\ In(n, o) = Using(n, o) /\ InTwice(n, o) = {}
           /\ counter[n][o] = Cardinality(Using(n, o))
<1>1. \A t \in Threads : pending(t) \notin Uses /\ "none" \notin Uses
  BY Roles, StateSets
<1>2. In(n, o) = Using(n, o) /\ InTwice(n, o) = {}
  BY <1>1 DEF In, InTwice, Using, Entered, Twice
<1>3. Cardinality(In(n, o)) = Cardinality(Using(n, o)) /\ Cardinality(InTwice(n, o)) = 0
  BY <1>2, FS_EmptySet
<1>4. counter[n][o] = Cardinality(In(n, o)) + Cardinality(InTwice(n, o))
  BY StateSets DEF IInv, Exact, Weight
<1>5. IsFiniteSet(Using(n, o))
  BY ThreadsAssumption, FS_Subset DEF Using
<1> QED BY <1>2, <1>3, <1>4, <1>5, FS_CardinalityType

LEMMA PendingCounted ==
    ASSUME IInv, NEW n \in Nodes, NEW s \in Pendings
    PROVE  counter[n][s] = Entries(n, s)
<1> DEFINE in == {t \in Threads : node[t] = n /\ pending(t) = s}
           A == {t \in in : pc[t] \in {"asleep", "woken", "marked"}}
           B == {t \in in : pc[t] \in {"asleep_mgr", "woken_mgr"}}
<1>1. \A t \in Threads : /\ op(t) \notin Pendings /\ "none" \notin Pendings
                         /\ t \in Deleters <=> pending(t) = "pending_delete"
  BY Roles, StateSets
<1>2. In(n, s) = A \cup B /\ A \cap B = {}
  BY <1>1 DEF In, Entered
<1>3. InTwice(n, s) = IF s = "pending_delete" THEN B ELSE {}
  BY <1>1 DEF In, InTwice, Entered, Twice
<1>4. IsFiniteSet(A) /\ IsFiniteSet(B)
  BY ThreadsAssumption, FS_Subset
<1>5. counter[n][s] = Cardinality(In(n, s)) + Cardinality(InTwice(n, s))
  BY StateSets DEF IInv, Exact, Weight
<1>6. Entries(n, s) = Cardinality(A) + (IF s = "pending_delete" THEN 2 ELSE 1) * Cardinality(B)
  BY DEF Entries
<1> HIDE DEF A, B
<1>7. /\ Cardinality(A) \in Nat /\ Cardinality(B) \in Nat
      /\ Cardinality({}) = 0 /\ Cardinality(A \cap B) = 0
  BY <1>2, <1>4, FS_CardinalityType, FS_EmptySet
<1>8. Cardinality(A \cup B) = Cardinality(A) + Cardinality(B) - Cardinality(A \cap B)
  BY <1>4, FS_Union
<1>9. Cardinality(In(n, s)) = Cardinality(A) + Cardinality(B)
  BY <1>2, <1>7, <1>8
<1>10. CASE s = "pending_delete"
  <2>1. Cardinality(InTwice(n, s)) = Cardinality(B)
    BY <1>3, <1>10
  <2> QED BY <1>5, <1>6, <1>7, <1>9, <1>10, <2>1
<1>11. CASE s # "pending_delete"
  <2>1. Cardinality(InTwice(n, s)) = 0
    BY <1>3, <1>7, <1>11
  <2> QED BY <1>5, <1>6, <1>7, <1>9, <1>11, <2>1
<1> QED BY <1>10, <1>11

LEMMA AtMostOne ==
    ASSUME NEW S, \A x, y \in S : x = y
    PROVE  Cardinality(S) <= 1
<1>1. CASE S = {}
  BY <1>1, FS_EmptySet
<1>2. CASE S # {}
  <2>1. PICK x \in S : TRUE
    BY <1>2
  <2>2. S = {x}
    BY <2>1
  <2> QED BY <2>2, FS_Singleton
<1> QED BY <1>1, <1>2

\* Two threads with access to one node are readers.
LEMMA UsersExclude ==
    ASSUME IInv, outcome = "running", NEW n \in Nodes, NEW t \in Threads, NEW u \in Threads,
           t # u, node[t] = n, node[u] = n, pc[t] = "using", pc[u] = "using"
    PROVE  op(t) = "read" /\ op(u) = "read"
<1>1. op(t) \in Uses /\ op(u) \in Uses /\ Uses \subseteq Counted
  BY Roles, StateSets
<1>2. Is(counter[n], op(t)) /\ Is(counter[n], op(u)) /\ Excludes(counter[n])
  BY ReleaseFrom DEF IInv
<1>3. op(t) = op(u) => op(t) = "read"
  <2> SUFFICES ASSUME op(t) = op(u), op(t) # "read" PROVE FALSE
    OBVIOUS
  <2>1. /\ Share(t, n, op(t)) = 1 /\ Share(u, n, op(t)) = 1
        /\ counter[n][op(t)] = Weight(n, op(t))
    BY <1>1 DEF Share, Entered, Twice, IInv, Exact
  <2>2. /\ Weight(n, op(t)) \in Nat
        /\ Weight(n, op(t)) >= Share(t, n, op(t)) + Share(u, n, op(t))
    BY SharesCount
  <2>3. counter[n][op(t)] <= 1
    BY <1>1, <1>2 DEF Excludes, Uses
  <2> QED BY <2>1, <2>2, <2>3
<1> QED BY <1>1, <1>2, <1>3 DEF Excludes, Uses

\* The counters of every node are the threads in its states, and what the
\* grants exclude holds, after any number of requests of any number of threads.
THEOREM Invariant == Spec => []IInv
BY InitEstablishes, StepKeeps, PTL DEF Spec

\* The type invariant: no counter goes below zero, or above two entries of
\* every thread.
THEOREM TypeCorrect == Spec => []TypeOK
<1>1. ASSUME IInv PROVE TypeOK
  <2>1. Cardinality(Threads) \in Nat /\ Cardinality(Threads) # 0
    BY ThreadsAssumption, FS_CardinalityType, FS_EmptySet
  <2>2. ASSUME NEW n \in Nodes, NEW s \in States
        PROVE  counter[n][s] \in 0..(2 * Cardinality(Threads))
    <3>1. counter[n][s] \in Nat
      BY <1>1 DEF IInv, VariablesTyped
    <3>2. CASE s = "no_op"
      BY <1>1, <2>1, <3>2 DEF IInv, Exact
    <3>3. CASE s \in Counted
      <4>1. PICK t \in Threads : TRUE
        BY ThreadsAssumption
      <4>2. counter[n][s] <= 2 * Cardinality(Threads)
        BY <1>1, <3>3, <4>1, SharesCount DEF IInv, Exact
      <4> QED BY <2>1, <3>1, <4>2
    <3> QED BY <3>2, <3>3, StateSets
  <2>3. counter \in [Nodes -> [States -> 0..(2 * Cardinality(Threads))]]
    <3>1. counter \in [Nodes -> [States -> Nat]]
      BY <1>1 DEF IInv, VariablesTyped
    <3>2. \A n \in Nodes : counter[n] \in [States -> 0..(2 * Cardinality(Threads))]
      BY <2>2, <3>1
    <3> QED BY <3>1, <3>2
  <2> QED BY <1>1, <2>3 DEF TypeOK, IInv, VariablesTyped, ClientTyped
<1> QED BY <1>1, Invariant, PTL

\* crud_node_enter_state and crud_node_exit_state: until an assert fails or a node
\* is deleted in use, the counters of a node are exact, it is in no_op when they
\* are zero, but for the moment in which a granted delete is about to put it
\* there, and curr_op is the operation of whoever has access.
THEOREM CountersExact == Spec => []StatesExact
<1>1. ASSUME IInv PROVE StatesExact
  <2> SUFFICES ASSUME outcome = "running", NEW n \in Nodes
               PROVE  /\ \A o \in Uses : counter[n][o] = Cardinality(Using(n, o))
                      /\ \A s \in Pendings : counter[n][s] = Entries(n, s)
                      /\ Is(counter[n], "no_op") <=>
                             ~InUse(counter[n])
                             /\ \A t \in Threads : node[t] = n => pc[t] # "unmarking"
                      /\ \A o \in Uses : Using(n, o) # {} => curr_op[n] = o
    BY DEF StatesExact
  <2>1. Is(counter[n], "no_op") <=>
            ~InUse(counter[n]) /\ \A t \in Threads : node[t] = n => pc[t] # "unmarking"
    BY <1>1 DEF IInv, Exact, Unmarking
  <2>2. \A o \in Uses : Using(n, o) # {} => curr_op[n] = o
    BY <1>1, ReleaseFrom DEF Using
  <2> QED BY <1>1, <2>1, <2>2, UsingCounted, PendingCounted
<1> QED BY <1>1, Invariant, PTL

\* crud_request_read, _write, _delete and _create: a node has readers, or one
\* other thread; of all nodes one at a time is created or deleted, and what is
\* being deleted is still in the container.
THEOREM GrantsExclude == Spec => []AccessExclusive
<1>1. ASSUME IInv PROVE Exclusive
  <2> SUFFICES ASSUME outcome = "running", NEW n \in Nodes
               PROVE  LET alone == UNION {Using(n, o) : o \in Uses \ {"read"}}
                      IN  Cardinality(alone) <= 1 /\ (alone # {} => Using(n, "read") = {})
    BY DEF Exclusive
  <2> DEFINE alone == UNION {Using(n, o) : o \in Uses \ {"read"}}
  <2>1. \A t \in alone : t \in Threads /\ node[t] = n /\ pc[t] = "using" /\ op(t) # "read"
    BY DEF Using
  <2>2. \A t, u \in alone : t = u
    BY <1>1, <2>1, UsersExclude
  <2>3. Cardinality(alone) <= 1
    BY <2>2, AtMostOne
  <2>4. ASSUME NEW t \in alone, NEW u \in Using(n, "read") PROVE FALSE
    <3>1. /\ u \in Threads /\ node[u] = n /\ pc[u] = "using" /\ op(u) = "read"
      BY <2>4 DEF Using
    <3> QED BY <1>1, <2>1, <3>1, UsersExclude
  <2> QED BY <2>3, <2>4
<1>2. ASSUME IInv PROVE OneStructuralChange
  <2>1. \A m, n \in {k \in Nodes : Is(counter[k], "create") \/ Is(counter[k], "delete")} :
            m = n
    BY <1>2 DEF IInv, ManagerOK, Structural
  <2>2. ASSUME NEW n \in Nodes, Is(counter[n], "delete") PROVE n \in listed
    <3>1. "delete" \in Uses
      BY DEF Uses
    <3>2. Using(n, "delete") # {}
      BY <1>2, <2>2, <3>1, UsingCounted, FS_EmptySet DEF Is
    <3>3. PICK t \in Threads : node[t] = n /\ pc[t] = "using" /\ op(t) = "delete"
      BY <3>2 DEF Using
    <3>4. t \in Deleters
      BY <3>3, Roles
    <3> QED BY <1>2, <3>3, <3>4 DEF IInv, ManagerOK, ContainerOK
  <2> QED BY <2>1, <2>2, AtMostOne DEF OneStructuralChange
<1> QED BY <1>1, <1>2, Invariant, PTL DEF AccessExclusive
=============================================================================
