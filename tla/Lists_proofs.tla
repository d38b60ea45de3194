---------------------------- MODULE Lists_proofs ----------------------------
(***************************************************************************)
(* Proofs about the two linked lists, for any nodes, data and keys and any *)
(* sequence of calls; and, before them, about what proofs on chains and    *)
(* queues keep needing: finite sets, numbers, sequences.                   *)
(***************************************************************************)
EXTENDS Lists, Integers, Sequences, FiniteSetTheorems, FunctionTheorems,
        SequenceTheorems, TLAPS

-----------------------------------------------------------------------------
(* Finite sets, numbers, and lists *)

LEMMA SubsetSize ==
    ASSUME NEW T, IsFiniteSet(T), NEW S \in SUBSET T
    PROVE  /\ IsFiniteSet(S)
           /\ Cardinality(S) \in 0..Cardinality(T)
           /\ Cardinality(S) \in Nat /\ Cardinality(T) \in Nat
           /\ S = {} <=> Cardinality(S) = 0
           /\ \A t \in T :
                  /\ t \notin S => Cardinality(S \cup {t}) = Cardinality(S) + 1
                  /\ t \in S => Cardinality(S \ {t}) = Cardinality(S) - 1
<1>1. IsFiniteSet(S) /\ Cardinality(S) <= Cardinality(T)
  BY FS_Subset
<1>2. Cardinality(S) \in Nat /\ Cardinality(T) \in Nat
  BY <1>1, FS_CardinalityType
<1>3. Cardinality(S) \in 0..Cardinality(T)
  BY <1>1, <1>2
<1>4. S = {} <=> Cardinality(S) = 0
  BY <1>1, FS_EmptySet
<1>5. ASSUME NEW t \in T
      PROVE  /\ t \notin S => Cardinality(S \cup {t}) = Cardinality(S) + 1
             /\ t \in S => Cardinality(S \ {t}) = Cardinality(S) - 1
  BY <1>1, FS_AddElement, FS_RemoveElement
<1> QED BY <1>1, <1>2, <1>3, <1>4, <1>5

\* The least-number principle.
LEMMA LeastNumber ==
    ASSUME NEW T, T \subseteq Nat, T # {}
    PROVE  \E x \in T : \A y \in T : x <= y
<1>1. PICK x \in T : \A y \in T : ~(<<y, x>> \in OpToRel(<, Nat))
  BY WFMin, NatLessThanWellFounded, Zenon
<1>2. \A y, z : <<y, z>> \in OpToRel(<, Nat) <=> (y \in Nat /\ z \in Nat /\ y < z)
  BY DEF OpToRel
<1>3. x \in Nat /\ \A y \in T : y \in Nat /\ ~(y < x)
  BY <1>1, <1>2
<1> QED BY <1>3

\* What holds of 1 and goes on from each number to the next, holds of all.
LEMMA UpTo ==
    ASSUME NEW n \in Nat, NEW G, 1 \in G, \A i \in 1..n : i \in G => i + 1 \in G
    PROVE  \A i \in 1..(n + 1) : i \in G
<1> SUFFICES ASSUME NEW k \in 1..(n + 1), k \notin G PROVE FALSE
  OBVIOUS
<1>1. PICK T : T = {i \in 1..(n + 1) : i \notin G}
  OBVIOUS
<1>2. T \subseteq Nat /\ T # {}
  BY <1>1
<1>3. PICK x \in T : \A y \in T : x <= y
  BY <1>2, LeastNumber
<1>4. x \in 1..(n + 1) /\ x \notin G /\ x # 1
  BY <1>1, <1>3
<1>5. x - 1 \in 1..n /\ (x - 1) + 1 = x /\ ~(x <= x - 1)
  BY <1>4
<1>6. x - 1 \in G
  BY <1>1, <1>3, <1>5
<1> QED BY <1>4, <1>5, <1>6

\* ... and the other way round.
LEMMA DownTo ==
    ASSUME NEW n \in Nat, NEW G, n + 1 \in G, \A i \in 1..n : i + 1 \in G => i \in G
    PROVE  \A i \in 1..(n + 1) : i \in G
<1>1. PICK H : H = {i \in 1..(n + 1) : (n + 2) - i \in G}
  OBVIOUS
<1>2. 1 \in H
  <2>1. (n + 2) - 1 = n + 1 /\ 1 \in 1..(n + 1)
    OBVIOUS
  <2> QED BY <1>1, <2>1
<1>3. ASSUME NEW i \in 1..n, i \in H PROVE i + 1 \in H
  <2>1. /\ (n + 2) - (i + 1) \in 1..n /\ i + 1 \in 1..(n + 1)
        /\ ((n + 2) - (i + 1)) + 1 = (n + 2) - i
    OBVIOUS
  <2>2. (n + 2) - (i + 1) \in G
    BY <1>1, <1>3, <2>1
  <2> QED BY <1>1, <2>1, <2>2
<1>4. \A i \in 1..(n + 1) : i \in H
  BY <1>2, <1>3, UpTo
<1>5. ASSUME NEW i \in 1..(n + 1) PROVE i \in G
  <2>1. (n + 2) - i \in 1..(n + 1) /\ (n + 2) - ((n + 2) - i) = i
    OBVIOUS
  <2>2. (n + 2) - i \in H
    BY <1>4, <2>1
  <2> QED BY <1>1, <2>1, <2>2
<1> QED BY <1>5

Listed(q) == {q[i] : i \in DOMAIN q}
OnceEach(q) == \A i, j \in DOMAIN q : q[i] = q[j] => i = j

\* A sequence with nothing twice is as long as there are things in it.
LEMMA ListSize ==
    ASSUME NEW S, NEW q \in Seq(S), OnceEach(q)
    PROVE  IsFiniteSet(Listed(q)) /\ Cardinality(Listed(q)) = Len(q) /\ Listed(q) \subseteq S
<1>1. Len(q) \in Nat /\ DOMAIN q = 1..Len(q) /\ q \in [1..Len(q) -> S]
  BY LenProperties
<1>2. q \in [1..Len(q) -> Listed(q)]
  BY <1>1 DEF Listed
<1>3. q \in Bijection(1..Len(q), Listed(q))
  BY <1>1, <1>2, Fun_IsBij DEF Listed, OnceEach
<1>4. ExistsBijection(1..Len(q), Listed(q))
  BY <1>3 DEF ExistsBijection
<1>5. Listed(q) \subseteq S
  BY <1>1 DEF Listed
<1> QED BY <1>1, <1>4, <1>5, FS_CountingElements, FS_NatBijection

\* One that joins the end of a list it is not on.
LEMMA JoinsList ==
    ASSUME NEW S, NEW q \in Seq(S), OnceEach(q), NEW t \in S, t \notin Listed(q)
    PROVE  \E w : /\ w = Append(q, t)
                  /\ w \in Seq(S) /\ Len(w) = Len(q) + 1
                  /\ OnceEach(w) /\ Listed(w) = Listed(q) \cup {t}
<1>0. PICK w : w = Append(q, t)
  OBVIOUS
<1>1. /\ w \in Seq(S) /\ Len(w) = Len(q) + 1
      /\ \A i \in 1..Len(q) : w[i] = q[i]
      /\ w[Len(q) + 1] = t
  BY <1>0, AppendProperties
<1>2. Len(q) \in Nat /\ DOMAIN q = 1..Len(q) /\ DOMAIN w = 1..(Len(q) + 1)
  BY <1>1, LenProperties
<1>3. OnceEach(w)
  BY <1>1, <1>2 DEF OnceEach, Listed
<1>4. Listed(w) = Listed(q) \cup {t}
  <2>1. \A i \in DOMAIN w : w[i] \in Listed(q) \cup {t}
    BY <1>1, <1>2 DEF Listed
  <2>2. \A i \in DOMAIN q : i \in DOMAIN w /\ w[i] = q[i]
    BY <1>1, <1>2
  <2>3. Len(q) + 1 \in DOMAIN w
    BY <1>2
  <2> QED BY <1>1, <2>1, <2>2, <2>3 DEF Listed
<1> QED BY <1>0, <1>1, <1>3, <1>4

-----------------------------------------------------------------------------
(* Queues that are joined and taken apart *)

\* By these names lemmas speak of the operations on queues.
Push(q, o) == Append(q, o)
Cat(x, q) == x \o q
First(w) == <<Head(w)>>

LEMMA CatAssociative ==
    ASSUME NEW S, NEW x \in Seq(S), NEW q \in Seq(S), NEW r \in Seq(S)
    PROVE  Cat(Cat(x, q), r) = Cat(x, Cat(q, r))
BY ConcatAssociative DEF Cat

\* w is x followed by q, given by its elements; r is q with o at its end.
IsCat(w, x, q) ==
    /\ w = x \o q /\ Len(w) = Len(x) + Len(q)
    /\ \A i \in 1..(Len(x) + Len(q)) :
           w[i] = IF i <= Len(x) THEN x[i] ELSE q[i - Len(x)]
IsPush(r, q, o) ==
    /\ r = Append(q, o) /\ Len(r) = Len(q) + 1
    /\ \A i \in 1..Len(q) : r[i] = q[i]
    /\ r[Len(q) + 1] = o

\* Concatenation as a sequence given by its elements.
LEMMA Joined ==
    ASSUME NEW S, NEW x \in Seq(S), NEW q \in Seq(S)
    PROVE  \E w \in Seq(S) : IsCat(w, x, q)
<1>1. PICK w : w = x \o q
  OBVIOUS
<1>2. /\ x \o q \in Seq(S) /\ Len(x \o q) = Len(x) + Len(q)
      /\ \A i \in 1..(Len(x) + Len(q)) :
             (x \o q)[i] = IF i <= Len(x) THEN x[i] ELSE q[i - Len(x)]
  BY ConcatProperties
<1>3. /\ w \in Seq(S) /\ Len(w) = Len(x) + Len(q)
      /\ \A i \in 1..(Len(x) + Len(q)) :
             w[i] = IF i <= Len(x) THEN x[i] ELSE q[i - Len(x)]
  BY <1>1, <1>2, Zenon
<1>4. IsCat(w, x, q)
  BY <1>1, <1>3, Zenon DEF IsCat
<1> QED BY <1>3, <1>4, Zenon

\* Appending as a sequence given by its elements.
LEMMA Pushed ==
    ASSUME NEW S, NEW q \in Seq(S), NEW o \in S
    PROVE  \E r \in Seq(S) : IsPush(r, q, o)
<1>1. PICK r : r = Append(q, o)
  OBVIOUS
<1>2. /\ Append(q, o) \in Seq(S) /\ Len(Append(q, o)) = Len(q) + 1
      /\ \A i \in 1..Len(q) : Append(q, o)[i] = q[i]
      /\ Append(q, o)[Len(q) + 1] = o
  BY AppendProperties
<1>3. r \in Seq(S) /\ IsPush(r, q, o)
  BY <1>1, <1>2, Zenon DEF IsPush
<1> QED BY <1>3, Zenon

\* An element appended to a concatenation.
LEMMA PushAtEnd ==
    ASSUME NEW S, NEW x \in Seq(S), NEW q \in Seq(S), NEW o \in S
    PROVE  Push(Cat(x, q), o) = Cat(x, Push(q, o))
<1>1. PICK w \in Seq(S) : IsCat(w, x, q)
  BY Joined, Zenon
<1>2. PICK r \in Seq(S) : IsPush(r, q, o)
  BY Pushed, Zenon
<1>3. PICK y \in Seq(S) : IsCat(y, x, r)
  BY Joined, Zenon
<1>4. PICK v \in Seq(S) : IsPush(v, w, o)
  BY Pushed, Zenon
<1> USE DEF IsCat, IsPush
<1>5. Len(x) \in Nat /\ Len(q) \in Nat
  BY LenProperties
<1>6. Len(v) = Len(y)
  BY <1>1, <1>2, <1>3, <1>4, <1>5
<1>7. ASSUME NEW i \in 1..Len(v) PROVE v[i] = y[i]
  <2>0. /\ Len(w) = Len(x) + Len(q) /\ Len(r) = Len(q) + 1
        /\ Len(y) = Len(x) + Len(r) /\ Len(v) = Len(w) + 1
    BY <1>1, <1>2, <1>3, <1>4
  <2>1. CASE i <= Len(x)
    <3>1. i \in 1..Len(w) /\ i \in 1..(Len(x) + Len(q)) /\ i \in 1..(Len(x) + Len(r))
      BY <1>5, <2>0, <2>1
    <3>2. v[i] = w[i] /\ w[i] = x[i]
      BY <1>1, <1>4, <2>1, <3>1
    <3>3. y[i] = x[i]
      BY <1>3, <2>1, <3>1
    <3> QED BY <3>2, <3>3
  <2>2. CASE i > Len(x) /\ i <= Len(w)
    <3>1. /\ i \in 1..Len(w) /\ i \in 1..(Len(x) + Len(q)) /\ i \in 1..(Len(x) + Len(r))
          /\ ~(i <= Len(x)) /\ i - Len(x) \in 1..Len(q)
      BY <1>5, <2>0, <2>2
    <3>2. v[i] = w[i] /\ w[i] = q[i - Len(x)]
      BY <1>1, <1>4, <3>1
    <3>3. y[i] = r[i - Len(x)]
      BY <1>3, <3>1
    <3>4. r[i - Len(x)] = q[i - Len(x)]
      BY <1>2, <3>1
    <3> QED BY <3>2, <3>3, <3>4
  <2>3. CASE i = Len(w) + 1
    <3>1. /\ i \in 1..(Len(x) + Len(r)) /\ ~(i <= Len(x)) /\ i - Len(x) = Len(q) + 1
      BY <1>5, <2>0, <2>3
    <3>2. v[i] = o
      BY <1>4, <2>3
    <3>3. y[i] = r[Len(q) + 1]
      BY <1>3, <3>1
    <3> QED BY <1>2, <3>2, <3>3
  <2> QED BY <1>1, <1>4, <1>5, <2>1, <2>2, <2>3
<1>8. v = y
  BY <1>6, <1>7, SeqEqual
<1> QED BY <1>1, <1>2, <1>3, <1>4, <1>8 DEF Push, Cat

\* A queue is its first element, then the rest.
LEMMA TakesFirst ==
    ASSUME NEW S, NEW w \in Seq(S), w # <<>>
    PROVE  /\ First(w) \in Seq(S) /\ First(w) # <<>> /\ Tail(w) \in Seq(S)
           /\ w = Cat(First(w), Tail(w))
<1>1. Head(w) \in S /\ Tail(w) \in Seq(S) /\ Len(Tail(w)) = Len(w) - 1
      /\ \A i \in 1..Len(Tail(w)) : Tail(w)[i] = w[i + 1]
  BY HeadTailProperties
<1>2. PICK q \in Seq(S) : q = Tail(w)
  BY <1>1
<1>9. PICK a \in S : a = Head(w) /\ a = w[1]
  BY <1>1
<1>10. <<a>> \in Seq(S) /\ Len(<<a>>) = 1 /\ <<a>>[1] = a /\ <<a>> # <<>>
  OBVIOUS
<1>3. PICK h \in Seq(S) : h = <<a>> /\ Len(h) = 1 /\ h[1] = a /\ h # <<>>
  BY <1>10, Zenon
<1>4. PICK y \in Seq(S) : IsCat(y, h, q)
  BY Joined, Zenon
<1> USE DEF IsCat
<1>5. Len(w) \in Nat /\ Len(q) \in Nat
  BY LenProperties
<1>6. Len(w) = Len(y)
  BY <1>1, <1>2, <1>3, <1>4, <1>5
<1>7. ASSUME NEW i \in 1..Len(w) PROVE w[i] = y[i]
  <2>1. CASE i = 1
    <3>1. i \in 1..(Len(h) + Len(q)) /\ i <= Len(h)
      BY <1>3, <1>5, <2>1
    <3>2. y[i] = h[1]
      BY <1>4, <2>1, <3>1
    <3> QED BY <1>3, <1>9, <2>1, <3>2
  <2>2. CASE i # 1
    <3>1. i - 1 \in 1..Len(q) /\ ~(i <= Len(h)) /\ i - Len(h) = i - 1 /\ (i - 1) + 1 = i
      BY <1>1, <1>2, <1>3, <1>5, <2>2
    <3>2. y[i] = q[i - 1]
      BY <1>4, <1>6, <3>1
    <3>3. q[i - 1] = w[(i - 1) + 1]
      BY <1>1, <1>2, <3>1
    <3> QED BY <3>1, <3>2, <3>3
  <2> QED BY <2>1, <2>2
<1>8. w = y
  BY <1>6, <1>7, SeqEqual
<1> QED BY <1>9, <1>2, <1>3, <1>4, <1>8, Zenon DEF First, Cat

-----------------------------------------------------------------------------
(* Chains of nodes *)

\* s is the n different nodes that hang on h by the links nx, NULL behind them.
Chain(s, n, h, nx) ==
    /\ \A i, j \in 1..n : s[i] = s[j] => i = j
    /\ h = IF n = 0 THEN NULL ELSE s[1]
    /\ \A i \in 1..n : nx[s[i]] = IF i = n THEN NULL ELSE s[i + 1]

\* t is s with x behind the first k nodes; t is s without its k-th node.
IsWith(t, s, n, k, x) ==
    \A i \in 1..(n + 1) : t[i] = IF i <= k THEN s[i] ELSE IF i = k + 1 THEN x ELSE s[i - 1]
IsWithout(t, s, n, k) ==
    \A i \in 1..(n - 1) : t[i] = IF i < k THEN s[i] ELSE s[i + 1]

\* The links ny lead from the k-th node to x and on, or past the k-th node.
LinkIn(ny, nx, s, n, k, x) ==
    /\ ny[x] = IF k = n THEN NULL ELSE s[k + 1]
    /\ \A i \in 1..n : ny[s[i]] = IF i = k THEN x ELSE nx[s[i]]
LinkOut(ny, nx, s, n, k) ==
    \A i \in 1..n : i # k => ny[s[i]] = IF i = k - 1 THEN nx[s[k]] ELSE nx[s[i]]

\* By these names lemmas speak of the first k elements of a sequence, of the
\* others, of the sequence without its k-th element, and with x behind it.
Front(c, k) == SubSeq(c, 1, k)
Rear(c, k) == SubSeq(c, k + 1, Len(c))
Removed(c, k) == Front(c, k - 1) \o Rear(c, k)
Inserted(c, k, x) == (Front(c, k) \o <<x>>) \o Rear(c, k)

IsParted(f, b, c, k) ==
    /\ f = Front(c, k) /\ Len(f) = k /\ \A j \in 1..k : f[j] = c[j]
    /\ b = Rear(c, k) /\ Len(b) = Len(c) - k
    /\ \A j \in 1..(Len(c) - k) : b[j] = c[k + j]

LEMMA Parted ==
    ASSUME NEW S, NEW c \in Seq(S), NEW k \in 0..Len(c)
    PROVE  \E f, b \in Seq(S) : IsParted(f, b, c, k)
<1>0. Len(c) \in Nat /\ k \in Nat /\ k <= Len(c) /\ \A j \in 1..Len(c) : c[j] \in S
  BY LenProperties, ElementOfSeq
<1>1. PICK f : f = SubSeq(c, 1, k)
  OBVIOUS
<1>2. f \in Seq(S) /\ Len(f) = k /\ \A j \in 1..k : f[j] = c[j]
  <2>1. \A j \in 1..k : c[j] \in S
    BY <1>0
  <2> QED BY <1>0, <1>1, <2>1, SubSeqProperties
<1>3. PICK b : b = SubSeq(c, k + 1, Len(c))
  OBVIOUS
<1>4. /\ b \in Seq(S)
      /\ Len(b) = IF k + 1 <= Len(c) THEN Len(c) - (k + 1) + 1 ELSE 0
      /\ \A j \in 1..(Len(c) - (k + 1) + 1) : b[j] = c[(k + 1) + j - 1]
  <2>1. \A j \in (k + 1)..Len(c) : c[j] \in S
    BY <1>0
  <2>2. k + 1 \in Int /\ Len(c) \in Int
    BY <1>0
  <2> QED BY <1>3, <2>1, <2>2, SubSeqProperties
<1>5. Len(b) = Len(c) - k
  <2>1. CASE k + 1 <= Len(c)
    BY <1>0, <1>4, <2>1
  <2>2. CASE ~(k + 1 <= Len(c))
    BY <1>0, <1>4, <2>2
  <2> QED BY <2>1, <2>2
<1>6. ASSUME NEW j \in 1..(Len(c) - k) PROVE b[j] = c[k + j]
  <2>1. j \in 1..(Len(c) - (k + 1) + 1) /\ (k + 1) + j - 1 = k + j
    BY <1>0
  <2>2. b[j] = c[(k + 1) + j - 1]
    BY <1>4, <2>1
  <2> QED BY <2>1, <2>2
<1>7. IsParted(f, b, c, k)
  BY <1>1, <1>2, <1>3, <1>5, <1>6 DEF IsParted, Front, Rear
<1> QED BY <1>2, <1>4, <1>7

LEMMA WithoutIsRemoved ==
    ASSUME NEW S, NEW c \in Seq(S), NEW d \in Seq(S), NEW k \in 1..Len(c),
           Len(d) = Len(c) - 1, IsWithout(d, c, Len(c), k)
    PROVE  d = Removed(c, k)
<1>0. Len(c) \in Nat /\ k \in Nat /\ k - 1 \in 0..Len(c) /\ k \in 0..Len(c)
  BY LenProperties
<1>1. PICK f, a \in Seq(S) : IsParted(f, a, c, k - 1)
  BY <1>0, Parted, Zenon
<1>2. PICK e, b \in Seq(S) : IsParted(e, b, c, k)
  BY <1>0, Parted, Zenon
<1>3. PICK w \in Seq(S) : IsCat(w, f, b)
  BY <1>1, <1>2, Joined, Zenon
<1>4. /\ Len(f) = k - 1 /\ \A j \in 1..(k - 1) : f[j] = c[j]
      /\ Len(b) = Len(c) - k /\ \A j \in 1..(Len(c) - k) : b[j] = c[k + j]
      /\ f = Front(c, k - 1) /\ b = Rear(c, k)
  BY <1>1, <1>2 DEF IsParted
<1>5. /\ w = f \o b /\ Len(w) = Len(f) + Len(b)
      /\ \A i \in 1..(Len(f) + Len(b)) : w[i] = IF i <= Len(f) THEN f[i] ELSE b[i - Len(f)]
  BY <1>3 DEF IsCat
<1>6. Len(w) = Len(d) /\ Len(w) = Len(c) - 1
  <2>1. PICK l, m : l = Len(c) /\ m = Len(w)
    OBVIOUS
  <2>2. m = (k - 1) + (l - k)
    BY <1>4, <1>5, <2>1, Zenon
  <2>3. m = l - 1
    BY <1>0, <2>1, <2>2
  <2> QED BY <2>1, <2>3
<1>7. ASSUME NEW i \in 1..Len(w) PROVE w[i] = d[i]
  <2>0. d[i] = IF i < k THEN c[i] ELSE c[i + 1]
    BY <1>6 DEF IsWithout
  <2>1. CASE i < k
    <3>1. i <= Len(f) /\ i \in 1..(k - 1) /\ i \in 1..(Len(f) + Len(b))
      BY <1>0, <1>4, <1>5, <2>1
    <3>2. w[i] = f[i] /\ f[i] = c[i]
      BY <1>4, <1>5, <3>1
    <3> QED BY <2>0, <2>1, <3>2
  <2>2. CASE ~(i < k)
    <3>0. PICK l, m : l = Len(c) /\ m = Len(f)
      OBVIOUS
    <3>1. /\ ~(i <= Len(f)) /\ i \in 1..(Len(f) + Len(b))
          /\ i - Len(f) \in 1..(Len(c) - k) /\ k + (i - Len(f)) = i + 1
      <4>1. /\ m = k - 1 /\ l \in Nat /\ k \in Nat /\ i \in 1..(l - 1)
            /\ i \in 1..(Len(f) + Len(b))
        BY <1>0, <1>4, <1>5, <1>6, <3>0
      <4>2. ~(i <= m) /\ i - m \in 1..(l - k) /\ k + (i - m) = i + 1
        BY <2>2, <4>1
      <4> QED BY <3>0, <4>1, <4>2
    <3>2. w[i] = b[i - Len(f)]
      BY <1>5, <3>1
    <3>3. b[i - Len(f)] = c[k + (i - Len(f))]
      BY <1>4, <3>1
    <3> QED BY <2>0, <2>2, <3>1, <3>2, <3>3
  <2> QED BY <2>1, <2>2
<1>8. w = d
  BY <1>6, <1>7, SeqEqual
<1> QED BY <1>4, <1>5, <1>8 DEF Removed

LEMMA WithIsInserted ==
    ASSUME NEW S, NEW c \in Seq(S), NEW d \in Seq(S), NEW k \in 0..Len(c), NEW x \in S,
           Len(d) = Len(c) + 1, IsWith(d, c, Len(c), k, x)
    PROVE  d = Inserted(c, k, x)
<1>0. Len(c) \in Nat /\ k \in Nat
  BY LenProperties
<1>1. PICK f, b \in Seq(S) : IsParted(f, b, c, k)
  BY Parted, Zenon
<1>2. PICK o \in Seq(S) : o = <<x>> /\ Len(o) = 1 /\ o[1] = x
  <2>1. <<x>> \in Seq(S) /\ Len(<<x>>) = 1 /\ <<x>>[1] = x
    OBVIOUS
  <2> QED BY <2>1, Zenon
<1>3. PICK v \in Seq(S) : IsCat(v, f, o)
  BY <1>1, <1>2, Joined, Zenon
<1>4. PICK w \in Seq(S) : IsCat(w, v, b)
  BY <1>1, <1>3, Joined, Zenon
<1>5. /\ Len(f) = k /\ \A j \in 1..k : f[j] = c[j]
      /\ Len(b) = Len(c) - k /\ \A j \in 1..(Len(c) - k) : b[j] = c[k + j]
      /\ f = Front(c, k) /\ b = Rear(c, k)
  BY <1>1 DEF IsParted
<1>6. /\ v = f \o o /\ Len(v) = k + 1
      /\ \A i \in 1..k : v[i] = c[i]
      /\ v[k + 1] = x
  <2>1. /\ v = f \o o /\ Len(v) = Len(f) + Len(o)
        /\ \A i \in 1..(Len(f) + Len(o)) : v[i] = IF i <= Len(f) THEN f[i] ELSE o[i - Len(f)]
    BY <1>3 DEF IsCat
  <2>2. Len(v) = k + 1
    BY <1>2, <1>5, <2>1
  <2>3. ASSUME NEW i \in 1..k PROVE v[i] = c[i]
    <3>1. i \in 1..(Len(f) + Len(o)) /\ i <= Len(f)
      BY <1>0, <1>2, <1>5
    <3> QED BY <1>5, <2>1, <3>1
  <2>4. v[k + 1] = x
    <3>1. k + 1 \in 1..(Len(f) + Len(o)) /\ ~(k + 1 <= Len(f)) /\ (k + 1) - Len(f) = 1
      BY <1>0, <1>2, <1>5
    <3> QED BY <1>2, <2>1, <3>1
  <2> QED BY <2>1, <2>2, <2>3, <2>4
<1>7. /\ w = v \o b /\ Len(w) = Len(v) + Len(b)
      /\ \A i \in 1..(Len(v) + Len(b)) : w[i] = IF i <= Len(v) THEN v[i] ELSE b[i - Len(v)]
  BY <1>4 DEF IsCat
<1>8. Len(w) = Len(d) /\ Len(w) = Len(c) + 1
  <2>1. PICK l, m : l = Len(c) /\ m = Len(w)
    OBVIOUS
  <2>2. m = (k + 1) + (l - k)
    BY <1>5, <1>6, <1>7, <2>1, Zenon
  <2>3. m = l + 1
    BY <1>0, <2>1, <2>2
  <2> QED BY <2>1, <2>3
<1>9. ASSUME NEW i \in 1..Len(w) PROVE w[i] = d[i]
  <2>0. /\ d[i] = IF i <= k THEN c[i] ELSE IF i = k + 1 THEN x ELSE c[i - 1]
        /\ i \in 1..(Len(v) + Len(b))
    BY <1>7, <1>8 DEF IsWith
  <2>1. CASE i <= k
    <3>1. i <= Len(v) /\ i \in 1..k
      BY <1>0, <1>6, <2>1
    <3> QED BY <1>6, <1>7, <2>0, <2>1, <3>1
  <2>2. CASE i = k + 1
    <3>1. i <= Len(v) /\ ~(i <= k)
      BY <1>0, <1>6, <2>2
    <3> QED BY <1>6, <1>7, <2>0, <2>2, <3>1
  <2>3. CASE ~(i <= k) /\ i # k + 1
    <3>0. PICK l, m : l = Len(c) /\ m = Len(v)
      OBVIOUS
    <3>1. /\ ~(i <= Len(v)) /\ i - Len(v) \in 1..(Len(c) - k) /\ k + (i - Len(v)) = i - 1
      <4>1. m = k + 1 /\ l \in Nat /\ k \in Nat /\ i \in 1..(l + 1)
        BY <1>0, <1>6, <1>8, <3>0
      <4>2. ~(i <= m) /\ i - m \in 1..(l - k) /\ k + (i - m) = i - 1
        BY <2>3, <4>1
      <4> QED BY <3>0, <4>2
    <3>2. w[i] = b[i - Len(v)]
      BY <1>7, <2>0, <3>1
    <3>3. b[i - Len(v)] = c[k + (i - Len(v))]
      BY <1>5, <3>1
    <3> QED BY <2>0, <2>3, <3>1, <3>2, <3>3
  <2> QED BY <2>1, <2>2, <2>3
<1>10. w = d
  BY <1>8, <1>9, SeqEqual
<1> QED BY <1>2, <1>5, <1>6, <1>7, <1>10 DEF Inserted

LEMMA WithFirst ==
    ASSUME NEW S, NEW c \in Seq(S), NEW d \in Seq(S), NEW x \in S,
           Len(d) = Len(c) + 1, IsWith(d, c, Len(c), 0, x)
    PROVE  d = <<x>> \o c
<1>0. Len(c) \in Nat
  BY LenProperties
<1>1. PICK o \in Seq(S) : o = <<x>> /\ Len(o) = 1 /\ o[1] = x
  <2>1. <<x>> \in Seq(S) /\ Len(<<x>>) = 1 /\ <<x>>[1] = x
    OBVIOUS
  <2> QED BY <2>1, Zenon
<1>2. PICK w \in Seq(S) : IsCat(w, o, c)
  BY <1>1, Joined, Zenon
<1>3. /\ w = o \o c /\ Len(w) = Len(o) + Len(c)
      /\ \A i \in 1..(Len(o) + Len(c)) : w[i] = IF i <= Len(o) THEN o[i] ELSE c[i - Len(o)]
  BY <1>2 DEF IsCat
<1>4. Len(w) = Len(d) /\ Len(w) = Len(c) + 1
  BY <1>0, <1>1, <1>3
<1>5. ASSUME NEW i \in 1..Len(w) PROVE w[i] = d[i]
  <2>0. /\ d[i] = IF i <= 0 THEN c[i] ELSE IF i = 0 + 1 THEN x ELSE c[i - 1]
        /\ i \in 1..(Len(o) + Len(c))
    BY <1>3, <1>4 DEF IsWith
  <2>1. CASE i = 1
    BY <1>1, <1>3, <2>0, <2>1
  <2>2. CASE i # 1
    <3>1. ~(i <= Len(o)) /\ i - Len(o) = i - 1 /\ ~(i <= 0) /\ i # 0 + 1
      BY <1>1, <2>2
    <3> QED BY <1>3, <2>0, <3>1
  <2> QED BY <2>1, <2>2
<1>6. w = d
  BY <1>4, <1>5, SeqEqual
<1> QED BY <1>1, <1>3, <1>6

LEMMA WithLast ==
    ASSUME NEW S, NEW c \in Seq(S), NEW d \in Seq(S), NEW x \in S,
           Len(d) = Len(c) + 1, IsWith(d, c, Len(c), Len(c), x)
    PROVE  d = Append(c, x)
<1>0. Len(c) \in Nat
  BY LenProperties
<1>1. PICK w \in Seq(S) : IsPush(w, c, x)
  BY Pushed, Zenon
<1>2. /\ w = Append(c, x) /\ Len(w) = Len(c) + 1
      /\ \A i \in 1..Len(c) : w[i] = c[i]
      /\ w[Len(c) + 1] = x
  BY <1>1 DEF IsPush
<1>3. ASSUME NEW i \in 1..Len(w) PROVE w[i] = d[i]
  <2>0. d[i] = IF i <= Len(c) THEN c[i] ELSE IF i = Len(c) + 1 THEN x ELSE c[i - 1]
    BY <1>2 DEF IsWith
  <2>1. CASE i <= Len(c)
    BY <1>2, <2>0, <2>1
  <2>2. CASE ~(i <= Len(c))
    <3>1. i = Len(c) + 1
      BY <1>0, <1>2, <2>2
    <3> QED BY <1>2, <2>0, <2>2, <3>1
  <2> QED BY <2>1, <2>2
<1>4. w = d
  BY <1>2, <1>3, SeqEqual
<1> QED BY <1>2, <1>4

LEMMA WithoutFirstIsTail ==
    ASSUME NEW S, NEW c \in Seq(S), NEW d \in Seq(S), c # <<>>,
           Len(d) = Len(c) - 1, IsWithout(d, c, Len(c), 1)
    PROVE  d = Tail(c)
<1>1. /\ Tail(c) \in Seq(S) /\ Len(Tail(c)) = Len(c) - 1
      /\ \A i \in 1..Len(Tail(c)) : Tail(c)[i] = c[i + 1]
  BY HeadTailProperties
<1>2. PICK w \in Seq(S) : w = Tail(c)
  BY <1>1
<1>3. ASSUME NEW i \in 1..Len(w) PROVE w[i] = d[i]
  <2>1. d[i] = IF i < 1 THEN c[i] ELSE c[i + 1]
    BY <1>1, <1>2 DEF IsWithout
  <2>2. w[i] = c[i + 1] /\ ~(i < 1)
    BY <1>1, <1>2
  <2> QED BY <2>1, <2>2
<1>4. w = d
  BY <1>1, <1>2, <1>3, SeqEqual
<1> QED BY <1>2, <1>4

\* What was put in is at its place, and without it the rest is left.
LEMMA WithAndWithout ==
    ASSUME NEW n \in Nat, NEW c, NEW d, NEW k \in 0..n, NEW x, IsWith(d, c, n, k, x)
    PROVE  IsWithout(c, d, n + 1, k + 1) /\ k + 1 \in 1..(n + 1) /\ d[k + 1] = x
<1>1. k + 1 \in 1..(n + 1) /\ ~(k + 1 <= k)
  OBVIOUS
<1>2. d[k + 1] = x
  BY <1>1 DEF IsWith
<1>3. ASSUME NEW i \in 1..n PROVE c[i] = IF i < k + 1 THEN d[i] ELSE d[i + 1]
  <2>1. CASE i < k + 1
    <3>1. i \in 1..(n + 1) /\ i <= k
      BY <2>1
    <3> QED BY <2>1, <3>1 DEF IsWith
  <2>2. CASE ~(i < k + 1)
    <3>1. i + 1 \in 1..(n + 1) /\ ~(i + 1 <= k) /\ i + 1 # k + 1 /\ (i + 1) - 1 = i
      BY <2>2
    <3>2. d[i + 1] = c[i]
      BY <3>1 DEF IsWith
    <3> QED BY <2>2, <3>2
  <2> QED BY <2>1, <2>2
<1>4. (n + 1) - 1 = n
  OBVIOUS
<1> QED BY <1>1, <1>2, <1>3, <1>4 DEF IsWithout

\* What is put in between the smaller and the greater leaves the order as it was.
Rises(f, n) == \A i, j \in 1..n : i < j => f[i] <= f[j]

LEMMA WithRises ==
    ASSUME NEW n \in Nat, NEW c \in [1..n -> Nat], NEW d, NEW k \in 0..n, NEW x \in Nat,
           IsWith(d, c, n, k, x), Rises(c, n),
           \A i \in 1..k : c[i] <= x, \A i \in (k + 1)..n : x <= c[i]
    PROVE  Rises(d, n + 1)
<1> SUFFICES ASSUME NEW i \in 1..(n + 1), NEW j \in 1..(n + 1), i < j PROVE d[i] <= d[j]
  BY DEF Rises
<1>1. ASSUME NEW l \in 1..(n + 1)
      PROVE  /\ l <= k => l \in 1..n /\ d[l] = c[l]
             /\ l = k + 1 => d[l] = x
             /\ l > k + 1 => l - 1 \in 1..n /\ l - 1 \in (k + 1)..n /\ d[l] = c[l - 1]
  <2>1. d[l] = IF l <= k THEN c[l] ELSE IF l = k + 1 THEN x ELSE c[l - 1]
    BY DEF IsWith
  <2> QED BY <2>1
<1>2. \A l, m \in 1..n : l < m => c[l] <= c[m]
  BY DEF Rises
<1>3. CASE j <= k
  <2>1. i <= k
    BY <1>3
  <2> QED BY <1>1, <1>2, <1>3, <2>1
<1>4. CASE j = k + 1
  <2>1. i <= k /\ i \in 1..k
    BY <1>4
  <2> QED BY <1>1, <1>4, <2>1
<1>5. CASE j > k + 1 /\ i <= k
  <2>1. i \in 1..n /\ j - 1 \in 1..n /\ i < j - 1 /\ d[i] = c[i] /\ d[j] = c[j - 1]
    BY <1>1, <1>5
  <2> QED BY <1>2, <2>1
<1>6. CASE j > k + 1 /\ i = k + 1
  <2>1. j - 1 \in (k + 1)..n /\ d[i] = x /\ d[j] = c[j - 1]
    BY <1>1, <1>6
  <2> QED BY <2>1
<1>7. CASE j > k + 1 /\ i > k + 1
  <2>1. i - 1 \in 1..n /\ j - 1 \in 1..n /\ i - 1 < j - 1 /\ d[i] = c[i - 1] /\ d[j] = c[j - 1]
    BY <1>1, <1>7
  <2> QED BY <1>2, <2>1
<1> QED BY <1>3, <1>4, <1>5, <1>6, <1>7

LEMMA ChainSize ==
    ASSUME NEW S, NEW n \in Nat, NEW s \in [1..n -> S],
           \A i, j \in 1..n : s[i] = s[j] => i = j
    PROVE  /\ IsFiniteSet({s[i] : i \in 1..n}) /\ Cardinality({s[i] : i \in 1..n}) = n
           /\ IsFiniteSet(S) => n <= Cardinality(S) /\ Cardinality(S) \in Nat
<1>1. PICK L : L = {s[i] : i \in 1..n}
  OBVIOUS
<1>2. s \in [1..n -> L]
  BY <1>1
<1>3. s \in Bijection(1..n, L)
  BY <1>1, <1>2, Fun_IsBij
<1>4. ExistsBijection(1..n, L)
  BY <1>3 DEF ExistsBijection
<1>5. IsFiniteSet(L) /\ Cardinality(L) = n
  BY <1>4, FS_CountingElements, FS_NatBijection
<1>6. L \subseteq S
  BY <1>1
<1>7. IsFiniteSet(S) => n <= Cardinality(S) /\ Cardinality(S) \in Nat
  BY <1>5, <1>6, FS_Subset, FS_CardinalityType
<1> QED BY <1>1, <1>5, <1>7

\* The nodes of s
Elements(s, n) == {s[i] : i \in 1..n}

LEMMA ChainElements ==
    ASSUME NEW S, NEW n \in Nat, NEW s \in [1..n -> S], NEW h, NEW nx, Chain(s, n, h, nx)
    PROVE  Cardinality(Elements(s, n)) = n
<1>1. PICK L : L = Elements(s, n)
  OBVIOUS
<1>2. s \in [1..n -> L]
  BY <1>1 DEF Elements
<1>3. s \in Bijection(1..n, L)
  BY <1>1, <1>2, Fun_IsBij DEF Elements, Chain
<1>4. ExistsBijection(1..n, L)
  BY <1>3 DEF ExistsBijection
<1> QED BY <1>1, <1>4, FS_CountingElements, FS_NatBijection

\* A node is linked in behind the k-th.
LEMMA ChainInsert ==
    ASSUME NEW S, NEW n \in Nat, NEW s \in [1..n -> S], NEW h, NEW nx, Chain(s, n, h, nx),
           NEW k \in 0..n, NEW x \in S, x \notin {s[i] : i \in 1..n},
           NEW g, g = (IF k = 0 THEN x ELSE h),
           NEW ny, LinkIn(ny, nx, s, n, k, x)
    PROVE  \E t \in [1..(n + 1) -> S] : IsWith(t, s, n, k, x) /\ Chain(t, n + 1, g, ny)
<1>1. PICK t : t = [i \in 1..(n + 1) |-> IF i <= k THEN s[i] ELSE IF i = k + 1 THEN x ELSE s[i - 1]]
  OBVIOUS
<1>2. t \in [1..(n + 1) -> S] /\ IsWith(t, s, n, k, x)
  <2>1. \A i \in 1..(n + 1) : (IF i <= k THEN s[i] ELSE IF i = k + 1 THEN x ELSE s[i - 1]) \in S
    OBVIOUS
  <2> QED BY <1>1, <2>1 DEF IsWith
<1>3. \A i \in 1..n : s[i] # x
  OBVIOUS
<1>4. \A i, j \in 1..(n + 1) : t[i] = t[j] => i = j
  <2>1. ASSUME NEW i \in 1..(n + 1)
        PROVE  /\ i <= k => i \in 1..n /\ t[i] = s[i]
               /\ i = k + 1 => t[i] = x
               /\ i > k + 1 => i - 1 \in 1..n /\ t[i] = s[i - 1]
    <3>1. t[i] = IF i <= k THEN s[i] ELSE IF i = k + 1 THEN x ELSE s[i - 1]
      BY <1>2 DEF IsWith
    <3> QED BY <3>1
  <2>2. \A i, j \in 1..n : s[i] = s[j] => i = j
    BY DEF Chain
  <2>3. ASSUME NEW i \in 1..(n + 1), NEW j \in 1..(n + 1), t[i] = t[j] PROVE i = j
    <3>1. CASE i = k + 1
      <4>1. t[j] = x
        BY <2>1, <2>3, <3>1
      <4>2. ~(j <= k)
        BY <1>3, <2>1, <4>1
      <4>3. ~(j > k + 1)
        BY <1>3, <2>1, <4>1
      <4> QED BY <3>1, <4>2, <4>3
    <3>2. CASE j = k + 1
      <4>1. t[i] = x
        BY <2>1, <2>3, <3>2
      <4>2. ~(i <= k)
        BY <1>3, <2>1, <4>1
      <4>3. ~(i > k + 1)
        BY <1>3, <2>1, <4>1
      <4> QED BY <3>2, <4>2, <4>3
    <3>3. CASE i <= k /\ j <= k
      BY <2>1, <2>2, <2>3, <3>3
    <3>4. CASE i <= k /\ j > k + 1
      <4>1. i \in 1..n /\ j - 1 \in 1..n /\ s[i] = s[j - 1]
        BY <2>1, <2>3, <3>4
      <4>2. i = j - 1
        BY <2>2, <4>1
      <4> QED BY <3>4, <4>2
    <3>5. CASE i > k + 1 /\ j <= k
      <4>1. j \in 1..n /\ i - 1 \in 1..n /\ s[i - 1] = s[j]
        BY <2>1, <2>3, <3>5
      <4>2. i - 1 = j
        BY <2>2, <4>1
      <4> QED BY <3>5, <4>2
    <3>6. CASE i > k + 1 /\ j > k + 1
      <4>1. i - 1 \in 1..n /\ j - 1 \in 1..n /\ s[i - 1] = s[j - 1]
        BY <2>1, <2>3, <3>6
      <4>2. i - 1 = j - 1
        BY <2>2, <4>1
      <4> QED BY <4>2
    <3> QED BY <3>1, <3>2, <3>3, <3>4, <3>5, <3>6
  <2> QED BY <2>3
<1>5. g = IF n + 1 = 0 THEN NULL ELSE t[1]
  BY <1>2 DEF Chain, IsWith
<1>6. ASSUME NEW i \in 1..(n + 1)
      PROVE  ny[t[i]] = IF i = n + 1 THEN NULL ELSE t[i + 1]
  <2>1. CASE i <= k
    BY <1>2, <2>1 DEF Chain, IsWith, LinkIn
  <2>2. CASE i = k + 1
    BY <1>2, <2>2 DEF IsWith, LinkIn
  <2>3. CASE i > k + 1
    <3>1. t[i] = s[i - 1] /\ (i # n + 1 => t[i + 1] = s[i])
      <4>1. ~(i <= k) /\ i # k + 1 /\ ~(i + 1 <= k) /\ i + 1 # k + 1 /\ (i + 1) - 1 = i
        BY <2>3
      <4> QED BY <1>2, <4>1 DEF IsWith
    <3>2. i - 1 \in 1..n /\ i - 1 # k /\ (i - 1 = n <=> i = n + 1) /\ (i - 1) + 1 = i
      BY <2>3
    <3>3. ny[s[i - 1]] = nx[s[i - 1]]
      BY <3>2 DEF LinkIn
    <3>4. nx[s[i - 1]] = IF i - 1 = n THEN NULL ELSE s[(i - 1) + 1]
      BY <3>2 DEF Chain
    <3> QED BY <3>1, <3>2, <3>3, <3>4
  <2> QED BY <2>1, <2>2, <2>3
<1>7. Chain(t, n + 1, g, ny)
  BY <1>4, <1>5, <1>6 DEF Chain
<1> QED BY <1>2, <1>7

\* The k-th node is taken out.
LEMMA ChainRemove ==
    ASSUME NEW S, NEW n \in Nat, NEW s \in [1..n -> S], NEW h, NEW nx, Chain(s, n, h, nx),
           NEW k \in 1..n,
           NEW g, g = (IF k = 1 THEN nx[h] ELSE h),
           NEW ny, LinkOut(ny, nx, s, n, k)
    PROVE  \E t \in [1..(n - 1) -> S] : IsWithout(t, s, n, k) /\ Chain(t, n - 1, g, ny)
<1>1. PICK t : t = [i \in 1..(n - 1) |-> IF i < k THEN s[i] ELSE s[i + 1]]
  OBVIOUS
<1>2. t \in [1..(n - 1) -> S] /\ IsWithout(t, s, n, k)
  <2>1. \A i \in 1..(n - 1) : (IF i < k THEN s[i] ELSE s[i + 1]) \in S
    OBVIOUS
  <2> QED BY <1>1, <2>1 DEF IsWithout
<1>3. \A i, j \in 1..(n - 1) : t[i] = t[j] => i = j
  BY <1>2 DEF Chain, IsWithout
<1>4. g = IF n - 1 = 0 THEN NULL ELSE t[1]
  BY <1>2 DEF Chain, IsWithout
<1>5. ASSUME NEW i \in 1..(n - 1)
      PROVE  ny[t[i]] = IF i = n - 1 THEN NULL ELSE t[i + 1]
  <2>1. CASE i < k - 1
    BY <1>2, <2>1 DEF Chain, IsWithout, LinkOut
  <2>2. CASE i = k - 1
    BY <1>2, <2>2 DEF Chain, IsWithout, LinkOut
  <2>3. CASE i > k - 1
    BY <1>2, <2>3 DEF Chain, IsWithout, LinkOut
  <2> QED BY <2>1, <2>2, <2>3
<1>6. Chain(t, n - 1, g, ny)
  BY <1>3, <1>4, <1>5 DEF Chain
<1> QED BY <1>2, <1>6

-----------------------------------------------------------------------------
(* The singly linked list *)

ListTyped ==
    /\ head \in Nodes \cup {NULL}
    /\ node_count \in Nat
    /\ next \in [Nodes -> Nodes \cup {NULL}]
    /\ data \in [Nodes -> Data \cup {NULL}]
    /\ allocated \subseteq Nodes
    /\ linked_list_call.name \in List!Calls

\* The list is these nodes, all allocated and filled.
ListIs(s) ==
    /\ Chain(s, node_count, head, next)
    /\ \A i \in 1..node_count : s[i] \in allocated
    /\ \A i \in 1..node_count : data[s[i]] \in Data

ListInv == ListTyped /\ \E s \in [1..node_count -> Nodes] : ListIs(s)

\* A function of 1 to n is a sequence.
LEMMA Sequence ==
    ASSUME NEW S, NEW n \in Nat, NEW f \in [1..n -> S]
    PROVE  f \in Seq(S) /\ Len(f) = n
<1>1. f \in Seq(S)
  BY SeqDef
<1>2. Len(f) \in Nat /\ DOMAIN f = 1..Len(f) /\ DOMAIN f = 1..n
  BY <1>1, LenProperties
<1> QED BY <1>1, <1>2

LEMMA ListSameCardinality == \A S : List!Cardinality(S) = Cardinality(S)
BY DEF List!Cardinality, Cardinality

LEMMA ListStarts == List!Init => ListInv
<1> SUFFICES ASSUME List!Init PROVE ListInv
  OBVIOUS
<1>1. ListTyped
  BY DEF List!Init, ListTyped, List!Calls
<1>2. PICK s : s = [i \in 1..0 |-> NULL]
  OBVIOUS
<1>3. s \in [1..node_count -> Nodes] /\ ListIs(s)
  BY <1>2 DEF List!Init, ListIs, Chain
<1> QED BY <1>1, <1>3 DEF ListInv

\* No list is longer than there are nodes.
LEMMA ListFits ==
    ASSUME ListTyped, NEW s \in [1..node_count -> Nodes], ListIs(s)
    PROVE  node_count <= List!Cardinality(Nodes) /\ List!Cardinality(Nodes) \in Nat
<1>1. node_count <= Cardinality(Nodes) /\ Cardinality(Nodes) \in Nat
  BY NodesAssumption, ChainSize DEF ListTyped, ListIs, Chain
<1>2. List!Cardinality(Nodes) = Cardinality(Nodes)
  BY ListSameCardinality
<1> QED BY <1>1, <1>2

\* A walk from the head comes to the nodes of the list, one after the other.
LEMMA ListWalks ==
    ASSUME ListTyped, NEW s \in [1..node_count -> Nodes], ListIs(s)
    PROVE  /\ \A i \in 1..node_count : List!Walk[i] = s[i]
           /\ List!Walk[node_count + 1] = NULL
           /\ List!InList = {s[i] : i \in 1..node_count}
<1> USE NodesAssumption
<1>1. PICK m \in Nat : m = List!Cardinality(Nodes) /\ node_count <= m
  BY ListFits
<1>2. PICK g : g = [i \in 1..(m + 1) |-> IF i <= node_count THEN s[i] ELSE NULL]
  OBVIOUS
<1>3. ASSUME NEW i \in 1..(m + 1)
      PROVE  g[i] = IF i = 1 THEN head ELSE IF g[i - 1] = NULL THEN NULL ELSE next[g[i - 1]]
  <2>1. CASE i = 1
    BY <1>1, <1>2, <2>1 DEF ListIs, Chain, ListTyped
  <2>2. CASE i # 1 /\ i - 1 <= node_count
    <3>1. i - 1 \in 1..node_count /\ i - 1 \in 1..(m + 1) /\ (i - 1) + 1 = i
      BY <1>1, <2>2 DEF ListTyped
    <3>2. g[i - 1] = s[i - 1] /\ s[i - 1] # NULL
      BY <1>2, <3>1
    <3>3. next[s[i - 1]] = IF i - 1 = node_count THEN NULL ELSE s[(i - 1) + 1]
      BY <3>1 DEF ListIs, Chain
    <3> QED BY <1>2, <2>2, <3>1, <3>2, <3>3 DEF ListTyped
  <2>3. CASE i # 1 /\ ~(i - 1 <= node_count)
    <3>1. i - 1 \in 1..(m + 1) /\ ~(i <= node_count)
      BY <1>1, <2>3 DEF ListTyped
    <3> QED BY <1>2, <2>3, <3>1
  <2> QED BY <2>1, <2>2, <2>3
<1>4. g = [i \in 1..(m + 1) |->
              IF i = 1 THEN head ELSE IF g[i - 1] = NULL THEN NULL ELSE next[g[i - 1]]]
  BY <1>2, <1>3
<1>5. PICK f : f = List!Walk
  OBVIOUS
<1>6. f = [i \in 1..(m + 1) |->
              IF i = 1 THEN head ELSE IF f[i - 1] = NULL THEN NULL ELSE next[f[i - 1]]]
  BY <1>1, <1>4, <1>5, Zenon DEF List!Walk
<1>7. \A i \in 1..(m + 1) : f[i] = g[i]
  <2>1. PICK G : G = {i \in 1..(m + 1) : f[i] = g[i]}
    OBVIOUS
  <2>2. 1 \in G
    BY <1>3, <1>6, <2>1
  <2>3. ASSUME NEW i \in 1..m, i \in G PROVE i + 1 \in G
    <3>1. i + 1 \in 1..(m + 1) /\ i + 1 # 1 /\ (i + 1) - 1 = i
      OBVIOUS
    <3>2. f[i] = g[i]
      BY <2>1, <2>3
    <3>3. f[i + 1] = IF f[i] = NULL THEN NULL ELSE next[f[i]]
      BY <1>6, <3>1
    <3>4. g[i + 1] = IF g[i] = NULL THEN NULL ELSE next[g[i]]
      BY <1>3, <3>1
    <3> QED BY <2>1, <3>1, <3>2, <3>3, <3>4
  <2>4. \A i \in 1..(m + 1) : i \in G
    BY <2>2, <2>3, UpTo
  <2> QED BY <2>1, <2>4
<1>8. (\A i \in 1..node_count : f[i] = s[i]) /\ f[node_count + 1] = NULL
  BY <1>1, <1>2, <1>7 DEF ListTyped
<1> QED BY <1>5, <1>8 DEF List!InList

\* The list holds the data of these nodes.
ContentIs(s) == List!content = [i \in 1..node_count |-> data[s[i]]]

LEMMA ListContent ==
    \A s \in [1..node_count -> Nodes] : ListTyped /\ ListIs(s) => ContentIs(s)
<1> SUFFICES ASSUME NEW s \in [1..node_count -> Nodes], ListTyped, ListIs(s) PROVE ContentIs(s)
  OBVIOUS
<1>1. \A i \in 1..node_count : List!Walk[i] = s[i]
  BY ListWalks
<1> QED BY <1>1 DEF ContentIs, List!content

\* It does so after a step as well.
LEMMA ListContentNext ==
    (\A s \in [1..node_count -> Nodes] : ListTyped /\ ListIs(s) => ContentIs(s))'
BY ListContent, PTL

\* What the list holds has a datum more, behind the k-th, or one less.
Grows(k, v) ==
    \E c, d \in Seq(Data) :
        /\ c = List!content /\ d = List!content' /\ k \in 0..Len(c)
        /\ Len(d) = Len(c) + 1 /\ IsWith(d, c, Len(c), k, v)
Shrinks(k) ==
    \E c, d \in Seq(Data) :
        /\ c = List!content /\ d = List!content' /\ k \in 1..Len(c)
        /\ Len(d) = Len(c) - 1 /\ IsWithout(d, c, Len(c), k)
Stays == List!content' = List!content
Takes(v) ==
    \E c, d \in Seq(Data) :
        c = List!content /\ d = List!content' /\ d = List!WithoutFirst(v, c)

\* The first node that holds a datum is found.
IsFirst(k, v, s) ==
    /\ k \in 1..node_count /\ data[s[k]] = v
    /\ \A i \in 1..(k - 1) : data[s[i]] # v

LEMMA ListFinds ==
    ASSUME ListTyped, NEW s \in [1..node_count -> Nodes], ListIs(s), NEW v, List!Find(v) # NULL
    PROVE  \E k \in 1..node_count : List!Find(v) = s[k] /\ IsFirst(k, v, s)
<1>1. PICK at : at = {i \in 1..node_count : data[List!Walk[i]] = v}
  OBVIOUS
<1>2. at # {} /\ List!Find(v) = List!Walk[CHOOSE i \in at : \A j \in at : i <= j]
  BY <1>1 DEF List!Find
<1>3. at \subseteq Nat /\ at \subseteq 1..node_count
  BY <1>1
<1>4. PICK k \in at : k = CHOOSE i \in at : \A j \in at : i <= j
  BY <1>2, <1>3, LeastNumber
<1>5. k \in 1..node_count /\ List!Find(v) = List!Walk[k]
  BY <1>2, <1>3, <1>4
<1>6. \A i \in 1..node_count : List!Walk[i] = s[i]
  BY ListWalks
<1>7. \A i \in at : k <= i
  BY <1>2, <1>3, <1>4, LeastNumber
<1>8. data[s[k]] = v
  BY <1>1, <1>5, <1>6
<1>9. ASSUME NEW i \in 1..(k - 1) PROVE data[s[i]] # v
  <2>1. i \in 1..node_count /\ ~(k <= i)
    BY <1>5 DEF ListTyped
  <2>2. i \notin at
    BY <1>7, <2>1
  <2> QED BY <1>1, <1>6, <2>1, <2>2
<1>10. IsFirst(k, v, s)
  BY <1>5, <1>8, <1>9 DEF IsFirst
<1> QED BY <1>5, <1>6, <1>10

LEMMA ListFindsNone ==
    ASSUME ListTyped, NEW s \in [1..node_count -> Nodes], ListIs(s), NEW v, List!Find(v) = NULL
    PROVE  \A i \in 1..node_count : data[s[i]] # v
<1> USE NodesAssumption
<1>1. PICK at : at = {i \in 1..node_count : data[List!Walk[i]] = v}
  OBVIOUS
<1>2. List!Find(v) = IF at = {} THEN NULL ELSE List!Walk[CHOOSE i \in at : \A j \in at : i <= j]
  BY <1>1, Zenon DEF List!Find
<1>3. at \subseteq Nat /\ at \subseteq 1..node_count
  BY <1>1
<1>4. \A i \in 1..node_count : List!Walk[i] = s[i]
  BY ListWalks
<1>5. at = {}
  <2> SUFFICES ASSUME at # {} PROVE FALSE
    OBVIOUS
  <2>1. PICK k \in at : k = CHOOSE i \in at : \A j \in at : i <= j
    BY <1>3, LeastNumber
  <2>2. List!Find(v) = s[k] /\ k \in 1..node_count
    BY <1>2, <1>3, <1>4, <2>1
  <2>3. s[k] \in Nodes
    BY <2>2
  <2> QED BY <2>2, <2>3
<1> QED BY <1>1, <1>4, <1>5

\* A new node is linked in behind the k-th.
LEMMA ListInserts ==
    ASSUME ListTyped, NEW s \in [1..node_count -> Nodes], ListIs(s),
           NEW k \in 0..node_count, NEW n \in Nodes \ allocated, NEW v \in Data,
           LinkIn(next', next, s, node_count, k, n),
           head' = (IF k = 0 THEN n ELSE head), node_count' = node_count + 1,
           allocated' = allocated \cup {n}, data' = [data EXCEPT ![n] = v], ListTyped'
    PROVE  ListInv' /\ Grows(k, v)
<1>1. n \in Nodes /\ n \notin {s[i] : i \in 1..node_count} /\ node_count \in Nat
  BY DEF ListIs, ListTyped
<1>2. PICK h, nx, g, ny : h = head /\ nx = next /\ g = head' /\ ny = next'
  OBVIOUS
<1>3. PICK t \in [1..(node_count + 1) -> Nodes] :
          IsWith(t, s, node_count, k, n) /\ Chain(t, node_count + 1, g, ny)
  BY <1>1, <1>2, ChainInsert DEF ListIs
<1>4. \A i \in 1..(node_count + 1) : t[i] \in allocated'
  BY <1>1, <1>3 DEF IsWith, ListIs
<1>5. data'[n] = v /\ \A i \in 1..node_count : data'[s[i]] = data[s[i]] /\ data[s[i]] \in Data
  <2>1. data \in [Nodes -> Data \cup {NULL}]
    BY DEF ListTyped
  <2>2. \A i \in 1..node_count : s[i] \in Nodes /\ s[i] # n
    BY <1>1
  <2> QED BY <1>1, <2>1, <2>2 DEF ListIs
<1>6. PICK c : c = [i \in 1..node_count |-> data[s[i]]]
  OBVIOUS
<1>7. PICK d : d = [i \in 1..(node_count + 1) |-> data'[t[i]]]
  OBVIOUS
<1>8. ASSUME NEW i \in 1..(node_count + 1)
      PROVE  d[i] \in Data /\ d[i] = IF i <= k THEN c[i] ELSE IF i = k + 1 THEN v ELSE c[i - 1]
  <2>0. t[i] = IF i <= k THEN s[i] ELSE IF i = k + 1 THEN n ELSE s[i - 1]
    BY <1>3 DEF IsWith
  <2>1. CASE i <= k
    <3>1. i \in 1..node_count /\ t[i] = s[i]
      BY <1>1, <2>0, <2>1
    <3> QED BY <1>5, <1>6, <1>7, <2>1, <3>1
  <2>2. CASE i = k + 1
    <3>1. t[i] = n /\ ~(i <= k)
      BY <1>1, <2>0, <2>2
    <3> QED BY <1>5, <1>7, <2>2, <3>1
  <2>3. CASE ~(i <= k) /\ i # k + 1
    <3>1. i - 1 \in 1..node_count /\ t[i] = s[i - 1]
      BY <1>1, <2>0, <2>3
    <3> QED BY <1>5, <1>6, <1>7, <2>3, <3>1
  <2> QED BY <2>1, <2>2, <2>3
<1>9. /\ c \in Seq(Data) /\ Len(c) = node_count
      /\ d \in Seq(Data) /\ Len(d) = node_count + 1
  <2>1. c \in [1..node_count -> Data]
    BY <1>5, <1>6
  <2>2. d \in [1..(node_count + 1) -> Data] /\ node_count + 1 \in Nat
    BY <1>1, <1>7, <1>8
  <2> QED BY <1>1, <2>1, <2>2, Sequence
<1>10. t \in [1..node_count' -> Nodes] /\ ListIs(t)'
  <2>1. \A i \in 1..(node_count + 1) : data'[t[i]] \in Data
    BY <1>7, <1>8
  <2> QED BY <1>2, <1>3, <1>4, <2>1 DEF ListIs
<1>11. c = List!content /\ d = List!content'
  <2>1. ContentIs(s)
    BY ListContent
  <2>2. ContentIs(t)'
    BY <1>10, ListContentNext
  <2> QED BY <1>6, <1>7, <2>1, <2>2 DEF ContentIs
<1>12. IsWith(d, c, Len(c), k, v)
  BY <1>8, <1>9 DEF IsWith
<1>13. Grows(k, v)
  BY <1>9, <1>11, <1>12 DEF Grows
<1> QED BY <1>10, <1>13 DEF ListInv

\* The k-th node is linked out, or its datum: what the others hold moves up.
LEMMA ListRemoves ==
    ASSUME ListTyped, NEW s \in [1..node_count -> Nodes], ListIs(s),
           NEW k \in 1..node_count, NEW l \in 1..node_count,
           LinkOut(next', next, s, node_count, k),
           head' = (IF k = 1 THEN next[head] ELSE head), node_count' = node_count - 1,
           \A i \in 1..node_count : i # k => s[i] \in allocated', ListTyped',
           \/ l = k /\ data' = data
           \/ l = k - 1 /\ data' = [data EXCEPT ![s[l]] = data[s[k]]]
    PROVE  ListInv' /\ Shrinks(l)
<1>1. node_count \in Nat
  BY DEF ListTyped
<1>2. PICK h, nx, g, ny : h = head /\ nx = next /\ g = head' /\ ny = next'
  OBVIOUS
<1>3. PICK t \in [1..(node_count - 1) -> Nodes] :
          IsWithout(t, s, node_count, k) /\ Chain(t, node_count - 1, g, ny)
  BY <1>1, <1>2, ChainRemove DEF ListIs
<1>4. \A i \in 1..(node_count - 1) : t[i] \in allocated'
  BY <1>1, <1>3 DEF IsWithout
<1>5. ASSUME NEW i \in 1..node_count
      PROVE  /\ data[s[i]] \in Data
             /\ data'[s[i]] = IF i = l /\ l # k THEN data[s[k]] ELSE data[s[i]]
  <2>1. data \in [Nodes -> Data \cup {NULL}] /\ s[i] \in Nodes /\ s[l] \in Nodes
    BY DEF ListTyped
  <2>2. data[s[i]] \in Data /\ (s[i] = s[l] <=> i = l)
    BY DEF ListIs, Chain
  <2>3. CASE l = k /\ data' = data
    BY <2>2, <2>3
  <2>4. CASE l = k - 1 /\ data' = [data EXCEPT ![s[l]] = data[s[k]]]
    <3>1. l # k
      BY <2>4
    <3> QED BY <2>1, <2>2, <2>4, <3>1
  <2> QED BY <2>3, <2>4
<1>6. PICK c : c = [i \in 1..node_count |-> data[s[i]]]
  OBVIOUS
<1>7. PICK d : d = [i \in 1..(node_count - 1) |-> data'[t[i]]]
  OBVIOUS
<1>8. ASSUME NEW i \in 1..(node_count - 1)
      PROVE  d[i] \in Data /\ d[i] = IF i < l THEN c[i] ELSE c[i + 1]
  <2>0. /\ t[i] = IF i < k THEN s[i] ELSE s[i + 1]
        /\ i \in 1..node_count /\ i + 1 \in 1..node_count
    BY <1>1, <1>3 DEF IsWithout
  <2>1. CASE i < l
    <3>1. i < k /\ i # l
      BY <1>1, <2>1
    <3> QED BY <1>5, <1>6, <1>7, <2>0, <2>1, <3>1
  <2>2. CASE i = l /\ l # k
    <3>1. i < k /\ ~(i < l) /\ k = i + 1
      BY <1>1, <2>2
    <3> QED BY <1>5, <1>6, <1>7, <2>0, <2>2, <3>1
  <2>3. CASE ~(i < l) /\ (i # l \/ l = k)
    <3>1. ~(i < k) /\ i + 1 # l
      BY <1>1, <2>3
    <3> QED BY <1>5, <1>6, <1>7, <2>0, <2>3, <3>1
  <2> QED BY <2>1, <2>2, <2>3
<1>9. /\ c \in Seq(Data) /\ Len(c) = node_count
      /\ d \in Seq(Data) /\ Len(d) = node_count - 1
  <2>1. c \in [1..node_count -> Data]
    BY <1>5, <1>6
  <2>2. d \in [1..(node_count - 1) -> Data] /\ node_count - 1 \in Nat
    BY <1>1, <1>7, <1>8
  <2> QED BY <1>1, <2>1, <2>2, Sequence
<1>10. t \in [1..node_count' -> Nodes] /\ ListIs(t)'
  <2>1. \A i \in 1..(node_count - 1) : data'[t[i]] \in Data
    BY <1>7, <1>8
  <2> QED BY <1>2, <1>3, <1>4, <2>1 DEF ListIs
<1>11. c = List!content /\ d = List!content'
  <2>1. ContentIs(s)
    BY ListContent
  <2>2. ContentIs(t)'
    BY <1>10, ListContentNext
  <2> QED BY <1>6, <1>7, <2>1, <2>2 DEF ContentIs
<1>12. IsWithout(d, c, Len(c), l)
  BY <1>8, <1>9 DEF IsWithout
<1>13. Shrinks(l)
  BY <1>9, <1>11, <1>12 DEF Shrinks
<1> QED BY <1>10, <1>13 DEF ListInv

\* What the ordered insertion is to do.
Orders(v) ==
    \E c, d \in Seq(Data) :
        /\ c = List!content /\ d = List!content'
        /\ \E i \in 1..Len(d) : d[i] = v /\ List!SX!RemoveAt(d, i) = c
        /\ List!Ascending(c) /\ ~(Len(c) = 1 /\ c[1] # v) => List!Ascending(d)

\* Behind the k-th node is where v goes in an ascending list, unless there is
\* a single node with another datum.
KeepsOrder(k, v, s) ==
    (/\ \A i, j \in 1..node_count : i < j => data[s[i]] <= data[s[j]]
     /\ ~(node_count = 1 /\ data[s[1]] # v))
    => /\ \A i \in 1..k : data[s[i]] <= v
       /\ \A i \in (k + 1)..node_count : v <= data[s[i]]

\* What the list holds is a sequence of data.
LEMMA ListSequence ==
    ASSUME ListTyped, NEW s \in [1..node_count -> Nodes], ListIs(s)
    PROVE  \E c \in Seq(Data) : /\ c = List!content
                                /\ c = [i \in 1..node_count |-> data[s[i]]]
                                /\ c \in [1..node_count -> Data]
                                /\ Len(c) = node_count
<1>1. PICK c : c = [i \in 1..node_count |-> data[s[i]]]
  OBVIOUS
<1>2. c = List!content
  BY <1>1, ListContent DEF ContentIs
<1>3. c \in [1..node_count -> Data] /\ node_count \in Nat
  BY <1>1 DEF ListIs, ListTyped
<1>4. c \in Seq(Data) /\ Len(c) = node_count
  BY <1>3, Sequence
<1> QED BY <1>1, <1>2, <1>3, <1>4

LEMMA ListInOrder ==
    ASSUME ListTyped, NEW s \in [1..node_count -> Nodes], ListIs(s), NEW v \in Data,
           NEW k \in 0..node_count, KeepsOrder(k, v, s), Grows(k, v)
    PROVE  Orders(v)
<1>0. node_count \in Nat /\ v \in Nat /\ Data \subseteq Nat
  BY NodesAssumption DEF ListTyped
<1>1. PICK c \in Seq(Data) : /\ c = List!content
                             /\ c = [i \in 1..node_count |-> data[s[i]]]
                             /\ c \in [1..node_count -> Data]
                             /\ Len(c) = node_count
  BY ListSequence
<1>2. PICK d \in Seq(Data) :
          /\ d = List!content' /\ Len(d) = node_count + 1 /\ IsWith(d, c, node_count, k, v)
  BY <1>1 DEF Grows
<1>3. IsWithout(c, d, node_count + 1, k + 1) /\ k + 1 \in 1..Len(d) /\ d[k + 1] = v
  BY <1>0, <1>2, WithAndWithout
<1>4. c = Removed(d, k + 1)
  <2>1. Len(c) = Len(d) - 1 /\ IsWithout(c, d, Len(d), k + 1)
    BY <1>0, <1>1, <1>2, <1>3
  <2> QED BY <1>3, <2>1, WithoutIsRemoved, Zenon
<1>5. List!SX!RemoveAt(d, k + 1) = Removed(d, k + 1)
  BY DEF List!SX!RemoveAt, Removed, Front, Rear
<1>6. ASSUME List!Ascending(c), ~(Len(c) = 1 /\ c[1] # v) PROVE List!Ascending(d)
  <2>1. \A i, j \in 1..node_count : i < j => c[i] <= c[j]
    BY <1>1, <1>6 DEF List!Ascending
  <2>2. \A i \in 1..node_count : c[i] = data[s[i]]
    BY <1>1
  <2>3. /\ \A i, j \in 1..node_count : i < j => data[s[i]] <= data[s[j]]
        /\ ~(node_count = 1 /\ data[s[1]] # v)
    <3>1. \A i, j \in 1..node_count : i < j => data[s[i]] <= data[s[j]]
      BY <2>1, <2>2
    <3>2. node_count = 1 => c[1] = data[s[1]]
      BY <2>2
    <3> QED BY <1>1, <1>6, <3>1, <3>2
  <2>4. /\ \A i \in 1..k : data[s[i]] <= v
        /\ \A i \in (k + 1)..node_count : v <= data[s[i]]
    BY <2>3 DEF KeepsOrder
  <2>5. /\ \A i \in 1..k : c[i] <= v
        /\ \A i \in (k + 1)..node_count : v <= c[i]
    BY <1>0, <2>2, <2>4
  <2>6. c \in [1..node_count -> Nat] /\ Rises(c, node_count)
    BY <1>0, <1>1, <2>1 DEF Rises
  <2>7. Rises(d, node_count + 1)
    BY <1>0, <1>2, <2>5, <2>6, WithRises
  <2> QED BY <1>2, <2>7 DEF Rises, List!Ascending
<1> QED BY <1>1, <1>2, <1>3, <1>4, <1>5, <1>6 DEF Orders

\* If the k-th is the first that holds v, the list is to be without it.
LEMMA ListTakesFirst ==
    ASSUME ListTyped, NEW s \in [1..node_count -> Nodes], ListIs(s), NEW v,
           NEW k \in 1..node_count, IsFirst(k, v, s), Shrinks(k)
    PROVE  Takes(v)
<1>1. PICK c, d \in Seq(Data) :
          /\ c = List!content /\ d = List!content' /\ k \in 1..Len(c)
          /\ Len(d) = Len(c) - 1 /\ IsWithout(d, c, Len(c), k)
  BY DEF Shrinks
<1>2. c = [i \in 1..node_count |-> data[s[i]]] /\ Len(c) = node_count
  <2>1. c = [i \in 1..node_count |-> data[s[i]]]
    BY <1>1, ListContent DEF ContentIs
  <2>2. c \in [1..node_count -> Data] /\ node_count \in Nat
    BY <2>1 DEF ListIs, ListTyped
  <2> QED BY <2>1, <2>2, Sequence
<1>3. c[k] = v /\ \A i \in 1..(k - 1) : c[i] # v
  <2>1. \A i \in 1..(k - 1) : i \in 1..node_count
    BY DEF ListTyped
  <2> QED BY <1>2, <2>1 DEF IsFirst
<1>4. List!First(v, c) = k
  <2>1. ASSUME NEW i \in 1..Len(c), c[i] = v, \A j \in 1..(i - 1) : c[j] # v PROVE i = k
    <3>1. ~(k < i)
      <4>1. k < i => k \in 1..(i - 1)
        BY <1>2 DEF ListTyped
      <4> QED BY <1>3, <2>1, <4>1
    <3>2. ~(i < k)
      <4>1. i < k => i \in 1..(k - 1)
        BY <1>2 DEF ListTyped
      <4> QED BY <1>3, <2>1, <4>1
    <3> QED BY <1>2, <3>1, <3>2 DEF ListTyped
  <2> QED BY <1>1, <1>3, <2>1 DEF List!First
<1>5. d = Removed(c, k)
  BY <1>1, WithoutIsRemoved, Zenon
<1>6. List!WithoutFirst(v, c) = List!SX!RemoveAt(c, k)
  BY <1>1, <1>3, <1>4 DEF List!WithoutFirst
<1>7. List!SX!RemoveAt(c, k) = Removed(c, k)
  BY DEF List!SX!RemoveAt, Removed, Front, Rear
<1> QED BY <1>1, <1>5, <1>6, <1>7 DEF Takes

\* A datum is on the list when a node that holds it is found.
LEMMA ListHolds ==
    ASSUME ListInv, NEW v
    PROVE  List!Find(v) # NULL <=> List!Holds(v, List!content)
<1>1. ListTyped /\ node_count \in Nat
  BY DEF ListInv, ListTyped
<1>2. PICK s \in [1..node_count -> Nodes] : ListIs(s)
  BY DEF ListInv
<1>3. PICK c : c = List!content
  OBVIOUS
<1>4. c = [i \in 1..node_count |-> data[s[i]]] /\ Len(c) = node_count
  <2>1. c = [i \in 1..node_count |-> data[s[i]]]
    BY <1>1, <1>2, <1>3, ListContent DEF ContentIs
  <2>2. c \in [1..node_count -> Data]
    BY <1>2, <2>1 DEF ListIs
  <2> QED BY <1>1, <2>1, <2>2, Sequence
<1>5. CASE List!Find(v) # NULL
  <2>1. PICK k \in 1..node_count : IsFirst(k, v, s)
    BY <1>1, <1>2, <1>5, ListFinds
  <2> QED BY <1>3, <1>4, <1>5, <2>1 DEF IsFirst, List!Holds
<1>6. CASE List!Find(v) = NULL
  <2>1. \A i \in 1..node_count : data[s[i]] # v
    BY <1>1, <1>2, <1>6, ListFindsNone
  <2> QED BY <1>3, <1>4, <1>6, <2>1 DEF List!Holds
<1> QED BY <1>5, <1>6

\* Adding: singly_ll_add_node, singly_ll_add_node_by_val
LEMMA ListAddsFirst ==
    ASSUME ListInv, NEW v \in Data, List!AddFirst(v), linked_list_call'.name \in List!Calls
    PROVE  ListInv' /\ Grows(0, v)
<1> USE NodesAssumption DEF ListInv
<1>1. PICK s \in [1..node_count -> Nodes] : ListIs(s)
  OBVIOUS
<1>2. PICK n \in Nodes : List!NewNode(n, v, head, next) /\ head' = n
  BY DEF List!AddFirst
<1>3. /\ n \in Nodes \ allocated /\ allocated' = allocated \cup {n}
      /\ node_count' = node_count + 1
      /\ next' \in [Nodes -> Nodes \cup {NULL}] /\ next'[n] = head
      /\ \A m \in Nodes \ {n} : next'[m] = next[m]
      /\ data' = [data EXCEPT ![n] = v]
  BY <1>2 DEF List!NewNode, ListTyped
<1>4. ListTyped'
  BY <1>2, <1>3 DEF ListTyped, List!NewNode
<1>5. LinkIn(next', next, s, node_count, 0, n)
  BY <1>1, <1>3 DEF LinkIn, ListIs, Chain, ListTyped
<1>6. 0 \in 0..node_count /\ head' = IF 0 = 0 THEN n ELSE head
  BY <1>2 DEF ListTyped
<1> QED BY <1>1, <1>3, <1>4, <1>5, <1>6, ListInserts

LEMMA ListUnchanged ==
    ASSUME ListInv, List!Unchanged, linked_list_call'.name \in List!Calls
    PROVE  ListInv' /\ Stays
<1>1. PICK s \in [1..node_count -> Nodes] : ListIs(s)
  BY DEF ListInv
<1>2. ListTyped' /\ ListIs(s)' /\ node_count' = node_count /\ data' = data
  BY <1>1 DEF ListInv, ListTyped, ListIs, List!Unchanged
<1>3. ContentIs(s)
  BY <1>1, ListContent DEF ListInv
<1>4. ContentIs(s)'
  BY <1>2, ListContentNext
<1>5. Stays
  BY <1>2, <1>3, <1>4 DEF ContentIs, Stays
<1> QED BY <1>2, <1>5 DEF ListInv

LEMMA ListAdds ==
    ASSUME ListInv, NEW v \in Data, List!AddByVal(v), linked_list_call'.name \in List!Calls
    PROVE  ListInv' /\ IF List!Holds(v, List!content) THEN Stays ELSE Grows(0, v)
<1>1. CASE List!Holds(v, List!content)
  <2>1. List!Unchanged
    BY <1>1, ListHolds DEF List!AddByVal
  <2> QED BY <1>1, <2>1, ListUnchanged
<1>2. CASE ~List!Holds(v, List!content)
  <2>1. List!AddFirst(v)
    BY <1>2, ListHolds DEF List!AddByVal
  <2> QED BY <1>2, <2>1, ListAddsFirst
<1> QED BY <1>1, <1>2

\* The predecessor of the k-th node
LEMMA ListPredecessor ==
    ASSUME ListTyped, NEW s \in [1..node_count -> Nodes], ListIs(s),
           NEW k \in 1..node_count, k # 1
    PROVE  List!Predecessor(s[k]) = s[k - 1] /\ k - 1 \in 1..node_count
<1> USE NodesAssumption DEF ListTyped
<1>1. k - 1 \in 1..node_count /\ k - 1 # node_count /\ (k - 1) + 1 = k
  OBVIOUS
<1>2. next[s[k - 1]] = s[k] /\ s[k - 1] \in List!InList
  <2>1. List!InList = {s[i] : i \in 1..node_count}
    BY ListWalks
  <2> QED BY <1>1, <2>1 DEF ListIs, Chain
<1>3. ASSUME NEW m \in List!InList, next[m] = s[k] PROVE m = s[k - 1]
  <2>1. PICK j \in 1..node_count : m = s[j]
    BY ListWalks
  <2>2. j # node_count
    BY <1>3, <2>1 DEF ListIs, Chain
  <2>3. s[j + 1] = s[k] /\ j + 1 \in 1..node_count
    BY <1>3, <2>1, <2>2 DEF ListIs, Chain
  <2>4. j + 1 = k
    BY <2>3 DEF ListIs, Chain
  <2>5. j = k - 1
    BY <2>4
  <2> QED BY <2>1, <2>5
<1> QED BY <1>1, <1>2, <1>3 DEF List!Predecessor

\* singly_ll_delete_node: the successor is freed, or the last node.
LEMMA ListDeletes ==
    ASSUME ListInv, NEW s \in [1..node_count -> Nodes], ListIs(s), NEW k \in 1..node_count,
           List!DeleteNode(s[k]), linked_list_call'.name \in List!Calls
    PROVE  ListInv' /\ Shrinks(k)
<1> USE NodesAssumption DEF ListInv
<1>1. /\ node_count \in Nat /\ node_count' = node_count - 1 /\ s[k] \in Nodes
      /\ node_count' \in Nat
  BY DEF List!DeleteNode, ListTyped
<1>2. CASE k # node_count
  <2>1. /\ k + 1 \in 1..node_count /\ next[s[k]] = s[k + 1] /\ s[k + 1] \in Nodes
        /\ (k + 1) - 1 = k /\ k + 1 # 1 /\ s[k + 1] # NULL
    BY <1>1, <1>2 DEF ListIs, Chain
  <2>2. /\ data' = [data EXCEPT ![s[k]] = data[s[k + 1]]]
        /\ next' = [next EXCEPT ![s[k]] = next[s[k + 1]]]
        /\ allocated' = allocated \ {s[k + 1]} /\ head' = head
    BY <2>1 DEF List!DeleteNode, List!Free
  <2>3. ListTyped'
    BY <1>1, <2>1, <2>2 DEF ListTyped
  <2>4. LinkOut(next', next, s, node_count, k + 1)
    <3>1. \A i \in 1..node_count : s[i] = s[k] <=> i = k
      BY DEF ListIs, Chain
    <3> QED BY <1>1, <2>1, <2>2, <3>1 DEF LinkOut, ListTyped
  <2>5. \A i \in 1..node_count : i # k + 1 => s[i] \in allocated'
    BY <2>1, <2>2 DEF ListIs, Chain
  <2>6. head' = IF k + 1 = 1 THEN next[head] ELSE head
    BY <2>1, <2>2
  <2> QED BY <1>1, <2>1, <2>2, <2>3, <2>4, <2>5, <2>6, ListRemoves
<1>3. CASE k = node_count
  <2>1. next[s[k]] = NULL /\ allocated' = allocated \ {s[k]} /\ data' = data
    BY <1>3 DEF List!DeleteNode, List!Free, ListIs, Chain
  <2>2. \A i \in 1..node_count : i # k => s[i] \in allocated'
    BY <2>1 DEF ListIs, Chain
  <2>3. CASE k = 1
    <3>1. head = s[k] /\ head' = NULL /\ next' = next
      BY <2>1, <2>3 DEF List!DeleteNode, ListIs, Chain
    <3>2. ListTyped'
      BY <1>1, <2>1, <3>1 DEF ListTyped
    <3>3. LinkOut(next', next, s, node_count, k)
      BY <1>3, <2>3, <3>1 DEF LinkOut
    <3>4. head' = IF k = 1 THEN next[head] ELSE head
      BY <2>1, <2>3, <3>1
    <3> QED BY <1>1, <2>1, <2>2, <3>2, <3>3, <3>4, ListRemoves
  <2>4. CASE k # 1
    <3>1. head # s[k] /\ List!Predecessor(s[k]) = s[k - 1] /\ k - 1 \in 1..node_count
      <4>1. head # s[k]
        BY <1>1, <2>4 DEF ListIs, Chain
      <4>2. List!Predecessor(s[k]) = s[k - 1] /\ k - 1 \in 1..node_count
        BY <2>4, ListPredecessor
      <4> QED BY <4>1, <4>2
    <3>2. head' = head /\ next' = [next EXCEPT ![s[k - 1]] = NULL]
      BY <2>1, <3>1 DEF List!DeleteNode
    <3>3. ListTyped'
      BY <1>1, <2>1, <3>2 DEF ListTyped
    <3>4. LinkOut(next', next, s, node_count, k)
      <4>1. \A i \in 1..node_count : s[i] = s[k - 1] <=> i = k - 1
        BY <3>1 DEF ListIs, Chain
      <4> QED BY <2>1, <3>1, <3>2, <4>1 DEF LinkOut, ListTyped
    <3>5. head' = IF k = 1 THEN next[head] ELSE head
      BY <2>4, <3>2
    <3> QED BY <1>1, <2>1, <2>2, <3>3, <3>4, <3>5, ListRemoves
  <2> QED BY <2>3, <2>4
<1> QED BY <1>2, <1>3

\* singly_ll_remove_node, freed or not
LEMMA ListUnlinks ==
    ASSUME ListInv, NEW s \in [1..node_count -> Nodes], ListIs(s), NEW k \in 1..node_count,
           List!RemoveNode(s[k]), allocated' = allocated \/ allocated' = allocated \ {s[k]},
           linked_list_call'.name \in List!Calls
    PROVE  ListInv' /\ Shrinks(k)
<1> USE NodesAssumption DEF ListInv
<1>1. /\ node_count \in Nat /\ node_count' = node_count - 1 /\ s[k] \in Nodes
      /\ node_count' \in Nat /\ data' = data
  BY DEF List!RemoveNode, ListTyped
<1>2. \A i \in 1..node_count : i # k => s[i] \in allocated'
  BY DEF ListIs, Chain
<1>3. CASE k = 1
  <2>1. head = s[k] /\ head' = next[head] /\ next' = [next EXCEPT ![s[k]] = NULL]
    BY <1>3 DEF List!RemoveNode, ListIs, Chain
  <2>2. ListTyped'
    BY <1>1, <2>1 DEF ListTyped
  <2>3. LinkOut(next', next, s, node_count, k)
    <3>1. \A i \in 1..node_count : s[i] = s[k] <=> i = k
      BY DEF ListIs, Chain
    <3> QED BY <1>3, <2>1, <3>1 DEF LinkOut, ListTyped
  <2>4. head' = IF k = 1 THEN next[head] ELSE head
    BY <1>3, <2>1
  <2> QED BY <1>1, <1>2, <2>2, <2>3, <2>4, ListRemoves
<1>4. CASE k # 1
  <2>1. head # s[k] /\ List!Predecessor(s[k]) = s[k - 1] /\ k - 1 \in 1..node_count
    <3>1. head # s[k]
      BY <1>1, <1>4 DEF ListIs, Chain
    <3>2. List!Predecessor(s[k]) = s[k - 1] /\ k - 1 \in 1..node_count
      BY <1>4, ListPredecessor
    <3> QED BY <3>1, <3>2
  <2>2. head' = head /\ next' = [next EXCEPT ![s[k - 1]] = next[s[k]], ![s[k]] = NULL]
    BY <2>1 DEF List!RemoveNode
  <2>3. ListTyped'
    BY <1>1, <2>2 DEF ListTyped
  <2>4. LinkOut(next', next, s, node_count, k)
    <3>1. \A i, j \in 1..node_count : s[i] = s[j] <=> i = j
      BY DEF ListIs, Chain
    <3>2. /\ next'[s[k - 1]] = next[s[k]]
          /\ \A m \in Nodes \ {s[k], s[k - 1]} : next'[m] = next[m]
      BY <1>1, <1>4, <2>1, <2>2, <3>1 DEF ListTyped
    <3> QED BY <2>1, <3>1, <3>2 DEF LinkOut
  <2>5. head' = IF k = 1 THEN next[head] ELSE head
    BY <1>4, <2>2
  <2> QED BY <1>1, <1>2, <2>3, <2>4, <2>5, ListRemoves
<1> QED BY <1>3, <1>4

LEMMA ListTakesOut ==
    ASSUME ListInv, NEW v \in Data,
           List!DeleteByValue(v) \/ List!RemoveByValue(v) \/ List!DeleteByPtr(v),
           linked_list_call'.name \in List!Calls
    PROVE  ListInv' /\ Takes(v)
<1>0. PICK s \in [1..node_count -> Nodes] : ListIs(s) /\ ListTyped
  BY DEF ListInv
<1>1. CASE List!Find(v) = NULL
  <2>1. List!Unchanged
    BY <1>1 DEF List!DeleteByValue, List!RemoveByValue, List!DeleteByPtr
  <2>2. ListInv' /\ Stays
    BY <2>1, ListUnchanged
  <2>3. PICK c : c = List!content
    OBVIOUS
  <2>4. ~List!Holds(v, c)
    BY <1>1, <2>3, ListHolds
  <2>5. c \in Seq(Data)
    <3>1. c = [i \in 1..node_count |-> data[s[i]]]
      BY <1>0, <2>3, ListContent DEF ContentIs
    <3>2. c \in [1..node_count -> Data] /\ node_count \in Nat
      BY <1>0, <3>1 DEF ListIs, ListTyped
    <3> QED BY <3>2, Sequence
  <2>6. List!WithoutFirst(v, c) = c
    BY <2>4 DEF List!WithoutFirst, List!Holds
  <2> QED BY <2>2, <2>3, <2>5, <2>6 DEF Stays, Takes
<1>2. CASE List!Find(v) # NULL
  <2>2. PICK k \in 1..node_count : List!Find(v) = s[k] /\ IsFirst(k, v, s)
    BY <1>0, <1>2, ListFinds
  <2>3. \/ List!DeleteNode(s[k])
        \/ List!RemoveNode(s[k]) /\ allocated' = allocated
        \/ List!RemoveNode(s[k]) /\ allocated' = allocated \ {s[k]}
    BY <1>2, <2>2 DEF List!DeleteByValue, List!RemoveByValue, List!DeleteByPtr, List!Free
  <2>4. ListInv' /\ Shrinks(k)
    BY <1>0, <2>3, ListDeletes, ListUnlinks
  <2> QED BY <1>0, <2>2, <2>4, ListTakesFirst
<1> QED BY <1>1, <1>2

\* delete_singly_ll
LEMMA ListEmpties ==
    ASSUME ListInv, List!DeleteAll, linked_list_call'.name \in List!Calls
    PROVE  ListInv' /\ List!content' = <<>>
<1>1. ListTyped'
  BY DEF ListInv, ListTyped, List!DeleteAll
<1>2. PICK s : s = [i \in 1..0 |-> NULL]
  OBVIOUS
<1>3. s \in [1..node_count' -> Nodes] /\ ListIs(s)'
  BY <1>2 DEF List!DeleteAll, ListIs, Chain
<1>4. PICK c : c = List!content'
  OBVIOUS
<1>5. c = <<>>
  <2>1. ContentIs(s)'
    BY <1>1, <1>3, ListContentNext
  <2>2. c = [i \in 1..0 |-> data'[s[i]]]
    BY <1>4, <2>1 DEF ContentIs, List!DeleteAll
  <2>3. c \in [1..0 -> Data]
    BY <2>2
  <2>4. c \in Seq(Data) /\ Len(c) = 0
    BY <2>3, Sequence
  <2> QED BY <2>4, EmptySeq
<1> QED BY <1>1, <1>3, <1>4, <1>5 DEF ListInv

\* The node that a new one goes behind, when those of greater are the ones that
\* hold a greater value.
Behind(greater) ==
    IF greater = {} THEN node_count
    ELSE (CHOOSE i \in greater : \A j \in greater : i <= j) - 1

\* singly_ll_add_ordered_data: a list of one node, or the greater value that
\* it finds, decide behind which node the new one goes.
LEMMA ListAddsOrdered ==
    ASSUME ListInv, NEW v \in Data, List!AddOrdered(v), linked_list_call'.name \in List!Calls
    PROVE  ListInv' /\ Orders(v)
<1> USE NodesAssumption
<1>1. PICK s \in [1..node_count -> Nodes] : ListIs(s)
  BY DEF ListInv
<1>2. ListTyped /\ node_count \in Nat /\ v \in Nat
  BY DEF ListInv, ListTyped
<1>0. \A i \in 1..node_count : data[s[i]] \in Nat
  BY <1>1 DEF ListIs
<1>3. PICK greater : greater = {i \in 1..node_count : v < data[List!Walk[i]]}
  OBVIOUS
<1>4. PICK after : after = Behind(greater)
  OBVIOUS
<1>5. CASE node_count = 0 \/ (node_count = 1 /\ data[head] < v)
  <2>1. List!AddByVal(v)
    BY <1>5 DEF List!AddOrdered
  <2>2. node_count # 0 => head = s[1] /\ s[1] \in Nodes
    BY <1>1, <1>2 DEF ListIs, Chain
  <2>3. PICK c \in Seq(Data) : /\ c = List!content /\ Len(c) = node_count
                               /\ c = [i \in 1..node_count |-> data[s[i]]]
    BY <1>1, <1>2, ListSequence
  <2>4. ~List!Holds(v, c)
    <3>1. \A i \in 1..node_count : data[s[i]] # v
      BY <1>0, <1>2, <1>5, <2>2
    <3> QED BY <2>3, <3>1 DEF List!Holds
  <2>5. ListInv' /\ Grows(0, v)
    BY <2>1, <2>3, <2>4, ListAdds
  <2>6. KeepsOrder(0, v, s) /\ 0 \in 0..node_count
    BY <1>0, <1>2, <1>5, <2>2 DEF KeepsOrder
  <2> QED BY <1>1, <1>2, <2>5, <2>6, ListInOrder
<1>6. CASE node_count # 1 /\ v < data[head] /\ node_count # 0
  <2>1. List!AddFirst(v)
    BY <1>6 DEF List!AddOrdered
  <2>2. ListInv' /\ Grows(0, v)
    BY <2>1, ListAddsFirst
  <2>3. head = s[1] /\ s[1] \in Nodes /\ 1 \in 1..node_count
    BY <1>1, <1>2, <1>6 DEF ListIs, Chain
  <2>4. KeepsOrder(0, v, s) /\ 0 \in 0..node_count
    <3>1. ASSUME \A i, j \in 1..node_count : i < j => data[s[i]] <= data[s[j]]
          PROVE  \A i \in (0 + 1)..node_count : v <= data[s[i]]
      <4>1. ASSUME NEW i \in 1..node_count PROVE v <= data[s[i]]
        <5>1. i = 1 \/ 1 < i
          OBVIOUS
        <5>2. v < data[s[1]] /\ data[s[1]] \in Nat /\ data[s[i]] \in Nat
          BY <1>0, <1>6, <2>3
        <5>3. 1 < i => data[s[1]] <= data[s[i]]
          BY <2>3, <3>1
        <5> QED BY <1>2, <5>1, <5>2, <5>3
      <4> QED BY <4>1
    <3> QED BY <1>2, <3>1 DEF KeepsOrder
  <2> QED BY <1>1, <1>2, <2>2, <2>4, ListInOrder
<1>7. CASE /\ ~(node_count = 0 \/ (node_count = 1 /\ data[head] < v))
           /\ ~(node_count # 1 /\ v < data[head])
  <2>1. PICK p : p = (IF node_count = 1 THEN head ELSE List!Walk[after])
    OBVIOUS
  <2>2. PICK n \in Nodes \ allocated :
            List!NewNode(n, v, next[p], [next EXCEPT ![p] = n]) /\ UNCHANGED head
    BY <1>3, <1>4, <1>7, <2>1, Zenon DEF List!AddOrdered, Behind
  <2>3. PICK k \in 1..node_count : p = s[k] /\ KeepsOrder(k, v, s)
    <3>1. CASE node_count = 1
      <4>1. head = s[1] /\ p = s[1] /\ 1 \in 1..node_count
        BY <1>1, <2>1, <3>1 DEF ListIs, Chain
      <4>2. KeepsOrder(1, v, s)
        BY <1>0, <1>2, <3>1, <4>1 DEF KeepsOrder
      <4> QED BY <4>1, <4>2
    <3>2. CASE node_count # 1 /\ greater = {}
      <4>1. after \in 1..node_count
        BY <1>2, <1>4, <1>7, <3>2 DEF Behind
      <4>2. after = node_count /\ \A i \in 1..node_count : List!Walk[i] = s[i]
        BY <1>1, <1>2, <1>4, <3>2, ListWalks DEF Behind
      <4>3. ASSUME NEW i \in 1..node_count PROVE data[s[i]] <= v
        <5>1. ~(v < data[s[i]])
          BY <1>3, <3>2, <4>2
        <5> QED BY <1>0, <1>2, <5>1
      <4>4. KeepsOrder(after, v, s)
        BY <1>2, <4>2, <4>3 DEF KeepsOrder
      <4> QED BY <2>1, <3>2, <4>1, <4>2, <4>4
    <3>3. CASE node_count # 1 /\ greater # {}
      <4>1. greater \subseteq Nat /\ greater \subseteq 1..node_count
        BY <1>3
      <4>2. PICK j \in greater : j = CHOOSE i \in greater : \A l \in greater : i <= l
        BY <3>3, <4>1, LeastNumber
      <4>3. List!Walk[1] = head
        <5>1. List!Walk[1] = s[1]
          BY <1>1, <1>2, <1>7, ListWalks
        <5> QED BY <1>1, <1>2, <1>7, <5>1 DEF ListIs, Chain
      <4>4. j # 1
        <5>1. v < data[List!Walk[j]]
          BY <1>3, <4>2
        <5> QED BY <1>7, <3>3, <4>3, <5>1
      <4>5. after \in 1..node_count /\ after = j - 1 /\ j \in 1..node_count
        <5>1. after = j - 1
          BY <1>4, <3>3, <4>2 DEF Behind
        <5> QED BY <1>2, <4>1, <4>4, <5>1
      <4>6. \A i \in 1..node_count : List!Walk[i] = s[i]
        BY <1>1, <1>2, ListWalks
      <4>7. ASSUME NEW i \in 1..after PROVE data[s[i]] <= v
        <5>1. i \in 1..node_count /\ ~(j <= i)
          BY <1>2, <4>5
        <5>2. i \notin greater
          BY <3>3, <4>1, <4>2, <5>1, LeastNumber
        <5>3. ~(v < data[s[i]])
          BY <1>3, <4>6, <5>1, <5>2
        <5> QED BY <1>0, <1>2, <5>1, <5>3
      <4>8. ASSUME \A i, l \in 1..node_count : i < l => data[s[i]] <= data[s[l]],
                   NEW i \in (after + 1)..node_count
            PROVE  v <= data[s[i]]
        <5>1. i \in 1..node_count /\ (i = j \/ j < i)
          BY <1>2, <4>5
        <5>2. v < data[s[j]]
          BY <1>3, <4>2, <4>5, <4>6
        <5>3. j < i => data[s[j]] <= data[s[i]]
          BY <4>5, <4>8, <5>1
        <5>4. data[s[j]] \in Nat /\ data[s[i]] \in Nat
          BY <1>0, <4>5, <5>1
        <5> QED BY <1>2, <5>1, <5>2, <5>3, <5>4
      <4>9. KeepsOrder(after, v, s)
        BY <4>7, <4>8 DEF KeepsOrder
      <4> QED BY <2>1, <3>3, <4>5, <4>6, <4>9
    <3> QED BY <3>1, <3>2, <3>3
  <2>4. /\ n \in Nodes /\ s[k] \in Nodes /\ s[k] # n
        /\ next' = [next EXCEPT ![s[k]] = n, ![n] = next[s[k]]]
        /\ allocated' = allocated \cup {n} /\ node_count' = node_count + 1 /\ head' = head
        /\ data' = [data EXCEPT ![n] = v]
    BY <1>1, <2>2, <2>3 DEF List!NewNode, ListIs
  <2>5. ListTyped'
    BY <1>2, <2>4 DEF ListTyped
  <2>6. LinkIn(next', next, s, node_count, k, n)
    <3>1. \A i \in 1..node_count : s[i] # n /\ (s[i] = s[k] <=> i = k)
      BY <1>1 DEF ListIs, Chain
    <3>2. next'[n] = next[s[k]] /\ next'[s[k]] = n
      BY <1>2, <2>4 DEF ListTyped
    <3>3. next[s[k]] = IF k = node_count THEN NULL ELSE s[k + 1]
      BY <1>1 DEF ListIs, Chain
    <3>4. \A i \in 1..node_count : i # k => next'[s[i]] = next[s[i]]
      BY <1>2, <2>4, <3>1 DEF ListTyped
    <3> QED BY <3>1, <3>2, <3>3, <3>4 DEF LinkIn
  <2>7. k \in 0..node_count /\ k # 0
    BY <1>2
  <2>8. head' = IF k = 0 THEN n ELSE head
    BY <2>4, <2>7
  <2>9. ListInv' /\ Grows(k, v)
    BY <1>1, <1>2, <2>4, <2>5, <2>6, <2>7, <2>8, ListInserts
  <2> QED BY <1>1, <1>2, <2>3, <2>7, <2>9, ListInOrder
<1> QED BY <1>2, <1>5, <1>6, <1>7

\* What the loop of reverse_singly_ll has turned round when it is at the i-th
\* node: the links of the first i nodes.
Turned(s, i) ==
    [x \in Nodes |-> IF \E j \in 1..i : s[j] = x
                     THEN IF x = s[1] THEN NULL ELSE s[(CHOOSE j \in 1..i : s[j] = x) - 1]
                     ELSE next[x]]

\* r turns round the links of the first i nodes of s, and no other.
TurnsBack(r, s, i) ==
    /\ r \in [Nodes -> Nodes \cup {NULL}]
    /\ \A j \in 1..i : r[s[j]] = IF j = 1 THEN NULL ELSE s[j - 1]
    /\ \A x \in Nodes : (\A j \in 1..i : s[j] # x) => r[x] = next[x]

LEMMA TurnedLinks ==
    ASSUME ListTyped, NEW s \in [1..node_count -> Nodes], ListIs(s), NEW i \in 1..node_count
    PROVE  TurnsBack(Turned(s, i), s, i)
<1>1. \A j, l \in 1..i : s[j] = s[l] => j = l
  BY DEF ListIs, Chain, ListTyped
<1>2. \A j \in 1..i : s[j] \in Nodes
  BY DEF ListTyped
<1>3. ASSUME NEW j \in 1..i
      PROVE  (CHOOSE l \in 1..i : s[l] = s[j]) = j
  BY <1>1
<1>4. ASSUME NEW x \in Nodes
      PROVE  /\ Turned(s, i)[x] \in Nodes \cup {NULL}
             /\ (\A j \in 1..i : s[j] # x) => Turned(s, i)[x] = next[x]
             /\ \A j \in 1..i : s[j] = x => Turned(s, i)[x] = IF j = 1 THEN NULL ELSE s[j - 1]
  <2>1. CASE \A j \in 1..i : s[j] # x
    BY <2>1 DEF Turned, ListTyped
  <2>2. ASSUME NEW j \in 1..i, s[j] = x
        PROVE  Turned(s, i)[x] = IF j = 1 THEN NULL ELSE s[j - 1]
    <3>1. Turned(s, i)[x] = IF x = s[1] THEN NULL ELSE s[(CHOOSE l \in 1..i : s[l] = x) - 1]
      BY <2>2 DEF Turned
    <3>2. (CHOOSE l \in 1..i : s[l] = x) = j
      BY <1>3, <2>2
    <3>3. x = s[1] <=> j = 1
      BY <1>1, <2>2
    <3> QED BY <3>1, <3>2, <3>3
  <2>3. ASSUME NEW j \in 1..i, j # 1 PROVE s[j - 1] \in Nodes
    BY <2>3 DEF ListTyped
  <2> QED BY <2>1, <2>2, <2>3
<1>5. Turned(s, i) = [x \in Nodes |-> Turned(s, i)[x]]
  BY DEF Turned
<1> QED BY <1>2, <1>4, <1>5 DEF TurnsBack

\* What the i-th turn of the loop makes of p1, p2 and the links.
TurnNext(f, i) ==
    IF i = 1 THEN [p1 |-> head, p2 |-> next[head], links |-> [next EXCEPT ![head] = NULL]]
    ELSE IF f[i - 1].p2 = NULL THEN f[i - 1]
    ELSE [p1 |-> f[i - 1].p2, p2 |-> f[i - 1].links[f[i - 1].p2],
          links |-> [f[i - 1].links EXCEPT ![f[i - 1].p2] = f[i - 1].p1]]

\* The nodes of t are those of s, from the last to the first.
TurnedRound(t, s) == \A i \in 1..node_count : t[i] = s[(node_count + 1) - i]
Reverses == List!content' = List!SX!Reverse(List!content)

LEMMA ListTurnedRound ==
    ASSUME ListTyped, NEW s \in [1..node_count -> Nodes], ListIs(s),
           ListTyped', NEW t \in [1..node_count' -> Nodes], ListIs(t)',
           node_count' = node_count, data' = data, TurnedRound(t, s)
    PROVE  Reverses
<1>0. node_count \in Nat
  BY DEF ListTyped
<1>1. PICK c : c = List!content
  OBVIOUS
<1>2. c = [i \in 1..node_count |-> data[s[i]]] /\ Len(c) = node_count
  BY <1>1, ListSequence
<1>3. PICK d : d = List!content'
  OBVIOUS
<1>4. d = [i \in 1..node_count |-> data[t[i]]]
  <2>1. ContentIs(t)'
    BY ListContentNext
  <2> QED BY <1>3, <2>1 DEF ContentIs
<1>5. ASSUME NEW i \in 1..node_count PROVE d[i] = c[(node_count - i) + 1]
  <2>1. (node_count - i) + 1 \in 1..node_count /\ (node_count + 1) - i = (node_count - i) + 1
    BY <1>0
  <2>2. t[i] = s[(node_count - i) + 1]
    BY <2>1 DEF TurnedRound
  <2> QED BY <1>2, <1>4, <2>1, <2>2
<1>6. d = [i \in 1..node_count |-> c[(node_count - i) + 1]]
  BY <1>4, <1>5
<1>7. List!SX!Reverse(c) = [i \in 1..node_count |-> c[(node_count - i) + 1]]
  <2>1. List!SX!Reverse(c) = [i \in 1..Len(c) |-> c[(Len(c) - i) + 1]]
    BY Zenon DEF List!SX!Reverse
  <2>2. PICK l : l = Len(c)
    OBVIOUS
  <2>3. List!SX!Reverse(c) = [i \in 1..l |-> c[(l - i) + 1]]
    BY <2>1, <2>2, Zenon
  <2>4. l = node_count
    BY <1>2, <2>2, Zenon
  <2> QED BY <2>3, <2>4, Zenon
<1> QED BY <1>1, <1>3, <1>6, <1>7 DEF Reverses

\* reverse_singly_ll
LEMMA ListReverses ==
    ASSUME ListInv, List!Reverse, linked_list_call'.name \in List!Calls
    PROVE  ListInv' /\ Reverses
<1> USE NodesAssumption
<1>1. PICK s \in [1..node_count -> Nodes] : ListIs(s)
  BY DEF ListInv
<1>2. ListTyped /\ node_count \in Nat
  BY DEF ListInv, ListTyped
<1>3. CASE node_count <= 1
  <2>1. List!Unchanged
    BY <1>3 DEF List!Reverse
  <2>2. ListInv' /\ Stays
    BY <2>1, ListUnchanged
  <2>3. PICK c \in Seq(Data) : c = List!content /\ Len(c) = node_count
    BY <1>1, <1>2, ListSequence
  <2>4. List!SX!Reverse(c) = c
    <3>1. ASSUME NEW i \in 1..Len(c) PROVE c[i] = c[(Len(c) - i) + 1]
      <4>1. (Len(c) - i) + 1 = i
        BY <1>2, <1>3, <2>3
      <4> QED BY <4>1
    <3>2. c = [i \in 1..Len(c) |-> c[(Len(c) - i) + 1]]
      BY <2>3, <3>1
    <3> QED BY <3>2 DEF List!SX!Reverse
  <2> QED BY <2>2, <2>3, <2>4 DEF Stays, Reverses
<1>4. CASE ~(node_count <= 1)
  <2>1. PICK m \in Nat : m = List!Cardinality(Nodes) /\ node_count <= m
    BY <1>1, <1>2, ListFits
  <2>2. /\ 1 \in 1..node_count /\ 1 \in 1..m /\ node_count \in 1..m /\ m - 1 \in Nat
        /\ (m - 1) + 1 = m /\ node_count # 0 /\ node_count # 1
    BY <1>2, <1>4, <2>1
  <2>3. PICK at : at = [i \in 1..m |-> IF i <= node_count THEN i ELSE node_count]
    OBVIOUS
  <2>4. \A i \in 1..m : at[i] \in 1..node_count
    BY <2>2, <2>3
  <2>5. PICK g : g = [i \in 1..m |->
            [p1 |-> s[at[i]],
             p2 |-> IF at[i] = node_count THEN NULL ELSE s[at[i] + 1],
             links |-> Turned(s, at[i])]]
    OBVIOUS
  <2>6. ASSUME NEW i \in 1..m
        PROVE  g[i] = TurnNext(g, i)
    <3>1. CASE i = 1
      <4>1. at[i] = 1 /\ 1 # node_count /\ head = s[1] /\ next[s[1]] = s[1 + 1] /\ s[1] \in Nodes
        BY <1>1, <2>2, <2>3, <3>1 DEF ListIs, Chain
      <4>2. Turned(s, 1) = [next EXCEPT ![s[1]] = NULL]
        <5>1. TurnsBack(Turned(s, 1), s, 1)
          BY <1>1, <1>2, <2>2, TurnedLinks
        <5>2. PICK r : r = Turned(s, 1)
          OBVIOUS
        <5>3. TurnsBack(r, s, 1)
          BY <5>1, <5>2
        <5>4. /\ r \in [Nodes -> Nodes \cup {NULL}]
              /\ r[s[1]] = NULL
              /\ \A x \in Nodes : x # s[1] => r[x] = next[x]
          BY <5>3 DEF TurnsBack
        <5>5. r = [next EXCEPT ![s[1]] = NULL]
          BY <1>2, <4>1, <5>4 DEF ListTyped
        <5> QED BY <5>2, <5>5
      <4>3. g[i] = [p1 |-> s[1], p2 |-> s[1 + 1], links |-> Turned(s, 1)]
        BY <2>5, <4>1
      <4> QED BY <3>1, <4>1, <4>2, <4>3 DEF TurnNext
    <3>2. CASE i # 1 /\ i - 1 >= node_count
      <4>1. i - 1 \in 1..m /\ at[i - 1] = node_count /\ at[i] = node_count
        BY <1>2, <2>1, <2>3, <3>2
      <4>2. g[i - 1] = [p1 |-> s[node_count], p2 |-> NULL, links |-> Turned(s, node_count)]
        BY <2>5, <4>1
      <4>3. g[i] = [p1 |-> s[node_count], p2 |-> NULL, links |-> Turned(s, node_count)]
        BY <2>5, <4>1
      <4>4. g[i - 1].p2 = NULL /\ g[i] = g[i - 1]
        BY <4>2, <4>3
      <4> QED BY <3>2, <4>4 DEF TurnNext
    <3>3. CASE i # 1 /\ ~(i - 1 >= node_count)
      <4>1. PICK j \in 1..node_count : j = i - 1
        BY <1>2, <2>1, <3>3
      <4>2. /\ j \in 1..m /\ i = j + 1 /\ i - 1 = j /\ at[j] = j /\ at[i] = i
            /\ j # node_count /\ i \in 1..node_count
        BY <1>2, <2>1, <2>3, <3>3, <4>1
      <4>3. PICK r : r = Turned(s, j) /\ TurnsBack(r, s, j)
        BY <1>1, <1>2, TurnedLinks
      <4>4. g[j] = [p1 |-> s[j], p2 |-> s[i], links |-> r]
        BY <2>5, <4>2, <4>3
      <4>5. s[i] \in Nodes /\ s[i] # NULL /\ s[j] \in Nodes
        BY <4>2
      <4>6. \A l \in 1..j : s[l] # s[i]
        BY <1>1, <1>2, <4>2 DEF ListIs, Chain
      <4>7. r[s[i]] = IF i = node_count THEN NULL ELSE s[i + 1]
        <5>1. r[s[i]] = next[s[i]]
          BY <4>3, <4>5, <4>6 DEF TurnsBack
        <5> QED BY <1>1, <4>2, <5>1 DEF ListIs, Chain
      <4>8. Turned(s, i) = [r EXCEPT ![s[i]] = s[j]]
        <5>1. PICK q : q = Turned(s, i) /\ TurnsBack(q, s, i)
          BY <1>1, <1>2, <4>2, TurnedLinks
        <5>2. /\ q \in [Nodes -> Nodes \cup {NULL}]
              /\ \A l \in 1..i : q[s[l]] = IF l = 1 THEN NULL ELSE s[l - 1]
          BY <5>1 DEF TurnsBack
        <5>3. \A x \in Nodes : (\A l \in 1..i : s[l] # x) => q[x] = next[x]
          BY <5>1 DEF TurnsBack
        <5>4. /\ r \in [Nodes -> Nodes \cup {NULL}]
              /\ \A l \in 1..j : r[s[l]] = IF l = 1 THEN NULL ELSE s[l - 1]
          BY <4>3 DEF TurnsBack
        <5>5. \A x \in Nodes : (\A l \in 1..j : s[l] # x) => r[x] = next[x]
          BY <4>3 DEF TurnsBack
        <5>6. ASSUME NEW x \in Nodes PROVE q[x] = IF x = s[i] THEN s[j] ELSE r[x]
          <6>1. CASE x = s[i]
            <7>1. i \in 1..i /\ i # 1
              BY <3>3, <4>2
            <7> QED BY <4>2, <5>2, <6>1, <7>1
          <6>2. CASE x # s[i] /\ \E l \in 1..j : s[l] = x
            BY <4>2, <5>2, <5>4, <6>2
          <6>3. CASE x # s[i] /\ ~\E l \in 1..j : s[l] = x
            BY <4>2, <5>3, <5>5, <6>3
          <6> QED BY <6>1, <6>2, <6>3
        <5>7. q = [r EXCEPT ![s[i]] = s[j]]
          BY <5>2, <5>4, <5>6
        <5> QED BY <5>1, <5>7
      <4>9. g[i] = [p1 |-> s[i], p2 |-> r[s[i]], links |-> [r EXCEPT ![s[i]] = s[j]]]
        BY <2>5, <4>2, <4>7, <4>8
      <4> QED BY <3>3, <4>2, <4>4, <4>5, <4>9 DEF TurnNext
    <3> QED BY <3>1, <3>2, <3>3
  <2>7. g = [i \in 1..m |-> TurnNext(g, i)]
    BY <2>5, <2>6
  <2>8. PICK f :
            /\ f = [i \in 1..m |-> TurnNext(f, i)]
            /\ head' = f[m].p1 /\ next' = f[m].links
            /\ UNCHANGED <<node_count, data, allocated>>
    BY <1>4, <2>1, <2>7, Zenon DEF List!Reverse, TurnNext
  <2>9. \A i \in 1..m : f[i] = g[i]
    <3>1. PICK G : G = {i \in 1..m : f[i] = g[i]}
      OBVIOUS
    <3>2. 1 \in G
      BY <2>2, <2>6, <2>8, <3>1 DEF TurnNext
    <3>3. ASSUME NEW i \in 1..(m - 1), i \in G PROVE i + 1 \in G
      <4>1. i + 1 \in 1..m /\ i + 1 # 1 /\ (i + 1) - 1 = i /\ i \in 1..m
        BY <2>1
      <4>2. f[i] = g[i]
        BY <3>1, <3>3
      <4>3. f[i + 1] = IF f[i].p2 = NULL THEN f[i]
                       ELSE [p1 |-> f[i].p2, p2 |-> f[i].links[f[i].p2],
                             links |-> [f[i].links EXCEPT ![f[i].p2] = f[i].p1]]
        <5>1. f[i + 1] = TurnNext(f, i + 1)
          BY <2>8, <4>1
        <5>2. TurnNext(f, i + 1) = IF f[i].p2 = NULL THEN f[i]
                       ELSE [p1 |-> f[i].p2, p2 |-> f[i].links[f[i].p2],
                             links |-> [f[i].links EXCEPT ![f[i].p2] = f[i].p1]]
          BY <4>1, Zenon DEF TurnNext
        <5> QED BY <5>1, <5>2, Zenon
      <4>4. g[i + 1] = IF g[i].p2 = NULL THEN g[i]
                       ELSE [p1 |-> g[i].p2, p2 |-> g[i].links[g[i].p2],
                             links |-> [g[i].links EXCEPT ![g[i].p2] = g[i].p1]]
        <5>1. g[i + 1] = TurnNext(g, i + 1)
          BY <2>6, <4>1
        <5>2. TurnNext(g, i + 1) = IF g[i].p2 = NULL THEN g[i]
                       ELSE [p1 |-> g[i].p2, p2 |-> g[i].links[g[i].p2],
                             links |-> [g[i].links EXCEPT ![g[i].p2] = g[i].p1]]
          BY <4>1, Zenon DEF TurnNext
        <5> QED BY <5>1, <5>2, Zenon
      <4>5. f[i + 1] = g[i + 1]
        BY <4>2, <4>3, <4>4, Zenon
      <4> QED BY <3>1, <4>1, <4>5
    <3>4. \A i \in 1..((m - 1) + 1) : i \in G
      BY <2>2, <3>2, <3>3, UpTo
    <3> QED BY <2>2, <3>1, <3>4
  <2>10. PICK r : r = Turned(s, node_count) /\ TurnsBack(r, s, node_count)
    BY <1>1, <1>2, <2>2, TurnedLinks
  <2>11. head' = s[node_count] /\ next' = r /\ node_count' = node_count
    <3>1. m \in 1..m /\ at[m] = node_count
      BY <2>1, <2>2, <2>3
    <3>2. g[m].p1 = s[node_count] /\ g[m].links = r
      BY <2>5, <2>10, <3>1
    <3>3. f[m] = g[m]
      BY <2>9, <3>1
    <3> QED BY <2>8, <3>2, <3>3
  <2>12. PICK t : t = [i \in 1..node_count |-> s[(node_count + 1) - i]]
    OBVIOUS
  <2>13. ASSUME NEW i \in 1..node_count
         PROVE  /\ (node_count + 1) - i \in 1..node_count /\ t[i] = s[(node_count + 1) - i]
                /\ t[i] \in Nodes /\ t[i] \in allocated
    <3>1. (node_count + 1) - i \in 1..node_count
      BY <1>2
    <3> QED BY <1>1, <2>12, <3>1 DEF ListIs
  <2>14. \A i, j \in 1..node_count : t[i] = t[j] => i = j
    BY <1>1, <1>2, <2>13 DEF ListIs, Chain
  <2>15. ASSUME NEW i \in 1..node_count
         PROVE  r[t[i]] = IF i = node_count THEN NULL ELSE t[i + 1]
    <3>1. PICK j \in 1..node_count : j = (node_count + 1) - i /\ t[i] = s[j]
      BY <2>13
    <3>2. r[s[j]] = IF j = 1 THEN NULL ELSE s[j - 1]
      BY <2>10 DEF TurnsBack
    <3>3. j = 1 <=> i = node_count
      BY <1>2, <3>1
    <3>4. i # node_count => t[i + 1] = s[j - 1]
      BY <1>2, <2>13, <3>1
    <3> QED BY <3>1, <3>2, <3>3, <3>4
  <2>16. ListTyped'
    BY <1>2, <2>2, <2>8, <2>10, <2>11 DEF ListTyped, TurnsBack
  <2>17. t \in [1..node_count' -> Nodes] /\ ListIs(t)'
    <3>1. t \in [1..node_count -> Nodes]
      BY <2>12, <2>13
    <3>2. head' = t[1] /\ node_count # 0
      BY <1>2, <2>2, <2>11, <2>13
    <3>3. \A i \in 1..node_count : data'[t[i]] \in Data
      BY <1>1, <2>8, <2>13 DEF ListIs
    <3>4. Chain(t, node_count, head', next')
      BY <2>11, <2>14, <2>15, <3>1, <3>2 DEF Chain
    <3> QED BY <2>8, <2>11, <2>13, <3>1, <3>3, <3>4 DEF ListIs
  <2>18. TurnedRound(t, s)
    BY <2>13 DEF TurnedRound
  <2>19. Reverses
    BY <1>1, <1>2, <2>8, <2>16, <2>17, <2>18, ListTurnedRound
  <2> QED BY <2>16, <2>17, <2>19 DEF ListInv
<1> QED BY <1>3, <1>4

\* Every call does to the sequence of data what it is to do.
LEMMA ListKeeps ==
    ListInv /\ [List!Next]_List!vars
    => ListInv' /\ [List!CallDoes(linked_list_call'.arg)]_List!vars
<1> SUFFICES ASSUME ListInv, [List!Next]_List!vars
             PROVE  ListInv' /\ [List!CallDoes(linked_list_call'.arg)]_List!vars
  OBVIOUS
<1>1. CASE UNCHANGED List!vars
  BY <1>1 DEF List!vars, ListInv, ListTyped, ListIs
<1>2. CASE List!Next
  <2>0. linked_list_call'.name \in List!Calls
    BY <1>2 DEF List!Next, List!Called, List!Calls
  <2>1. CASE \E v \in Data : List!AddByVal(v) /\ List!Called("add", v)
    <3>1. PICK v \in Data : List!AddByVal(v) /\ List!Called("add", v)
      BY <2>1
    <3>2. linked_list_call'.name = "add" /\ linked_list_call'.arg = v
      BY <3>1 DEF List!Called
    <3>3. ListInv' /\ IF List!Holds(v, List!content) THEN Stays ELSE Grows(0, v)
      BY <2>0, <3>1, ListAdds
    <3>4. List!content' = IF List!Holds(v, List!content) THEN List!content ELSE <<v>> \o List!content
      <4>1. CASE List!Holds(v, List!content)
        BY <3>3, <4>1 DEF Stays
      <4>2. CASE ~List!Holds(v, List!content)
        <5>1. PICK c, d \in Seq(Data) :
                  /\ c = List!content /\ d = List!content'
                  /\ Len(d) = Len(c) + 1 /\ IsWith(d, c, Len(c), 0, v)
          BY <3>3, <4>2 DEF Grows
        <5>2. d = <<v>> \o c
          BY <5>1, WithFirst, Zenon
        <5> QED BY <4>2, <5>1, <5>2
      <4> QED BY <4>1, <4>2
    <3> QED BY <3>2, <3>3, <3>4 DEF List!CallDoes
  <2>2. CASE \E v \in Data :
                \/ List!DeleteByValue(v) /\ List!Called("delete_by_value", v)
                \/ List!RemoveByValue(v) /\ List!Called("remove_by_value", v)
                \/ List!DeleteByPtr(v) /\ List!Called("delete_by_ptr", v)
    <3>1. PICK v \in Data :
              /\ List!DeleteByValue(v) \/ List!RemoveByValue(v) \/ List!DeleteByPtr(v)
              /\ linked_list_call'.name \in {"delete_by_value", "remove_by_value", "delete_by_ptr"}
              /\ linked_list_call'.arg = v
      BY <2>2 DEF List!Called
    <3>2. ListInv' /\ Takes(v)
      BY <2>0, <3>1, ListTakesOut
    <3>3. List!content' = List!WithoutFirst(v, List!content)
      BY <3>2 DEF Takes
    <3> QED BY <3>1, <3>2, <3>3 DEF List!CallDoes
  <2>3. CASE \E v \in Data : List!AddOrdered(v) /\ List!Called("add_ordered", v)
    <3>1. PICK v \in Data : List!AddOrdered(v) /\ List!Called("add_ordered", v)
      BY <2>3
    <3>2. linked_list_call'.name = "add_ordered" /\ linked_list_call'.arg = v
      BY <3>1 DEF List!Called
    <3>3. ListInv' /\ Orders(v)
      BY <2>0, <3>1, ListAddsOrdered
    <3> QED BY <3>2, <3>3 DEF Orders, List!CallDoes
  <2>4. CASE List!Reverse /\ List!Called("reverse", NULL)
    <3>1. linked_list_call'.name = "reverse"
      BY <2>4 DEF List!Called
    <3> QED BY <2>0, <2>4, <3>1, ListReverses DEF Reverses, List!CallDoes
  <2>5. CASE List!DeleteAll /\ List!Called("delete_all", NULL)
    <3>1. linked_list_call'.name = "delete_all"
      BY <2>5 DEF List!Called
    <3> QED BY <2>0, <2>5, <3>1, ListEmpties DEF List!CallDoes
  <2> QED BY <1>2, <2>1, <2>2, <2>3, <2>4, <2>5 DEF List!Next
<1> QED BY <1>1, <1>2

\* The singly linked list keeps its invariant in every behaviour.
LEMMA ListAlways == List!Spec => []ListInv
BY ListStarts, ListKeeps, PTL DEF List!Spec

\* node_count different allocated nodes hang on the head, then comes NULL.
LEMMA ListIsFormed == ListInv => List!TypeOK /\ List!WellFormed
<1> SUFFICES ASSUME ListInv PROVE List!TypeOK /\ List!WellFormed
  OBVIOUS
<1>1. PICK s \in [1..node_count -> Nodes] : ListIs(s)
  BY DEF ListInv
<1>2. node_count \in 0..List!Cardinality(Nodes)
  BY <1>1, ListFits DEF ListInv, ListTyped
<1>3. List!InList = {s[i] : i \in 1..node_count} /\ List!Walk[node_count + 1] = NULL
  BY <1>1, ListWalks DEF ListInv
<1>4. List!Cardinality(List!InList) = node_count
  <2>1. Cardinality(Elements(s, node_count)) = node_count
    <3>1. node_count \in Nat
      BY DEF ListInv, ListTyped
    <3>2. Chain(s, node_count, head, next)
      BY <1>1 DEF ListIs
    <3> QED BY <1>1, <3>1, <3>2, ChainElements
  <2>2. List!Cardinality(List!InList) = Cardinality(List!InList)
    BY ListSameCardinality
  <2> QED BY <1>3, <2>1, <2>2 DEF Elements
<1>5. List!InList \subseteq allocated
  BY <1>1, <1>3 DEF ListIs
<1> QED BY <1>2, <1>3, <1>4, <1>5 DEF ListInv, ListTyped, List!TypeOK, List!WellFormed
-----------------------------------------------------------------------------
(* The doubly linked glue *)

GlueAll == Nodes \cup {"head"}

\* The links lf and rt make the n nodes of s a list behind the head, and every
\* other node is on none.
Linked(n, s, lf, rt) ==
    /\ Chain(s, n, rt["head"], rt)
    /\ \A i \in 1..n : lf[s[i]] = IF i = 1 THEN "head" ELSE s[i - 1]
    /\ lf["head"] = NULL
    /\ \A x \in Nodes : (\A i \in 1..n : s[i] # x) => lf[x] = NULL /\ rt[x] = NULL

GlueTyped ==
    /\ left \in [GlueAll -> GlueAll \cup {NULL}]
    /\ right \in [GlueAll -> GlueAll \cup {NULL}]
    /\ key \in [Nodes -> Keys]
    /\ glthread_call.node \in Nodes \cup {NULL}

IsGlued == \E n \in Nat : \E s \in [1..n -> Nodes] : Linked(n, s, left, right)

GlueInv == GlueTyped /\ IsGlued

LEMMA GlueStarts == Glue!Init => GlueInv
<1> SUFFICES ASSUME Glue!Init PROVE GlueInv
  OBVIOUS
<1>1. GlueTyped
  BY DEF Glue!Init, Glue!All, Glue!HEAD, GlueTyped, GlueAll
<1>2. PICK s : s = [i \in 1..0 |-> NULL]
  OBVIOUS
<1>3. s \in [1..0 -> Nodes] /\ Linked(0, s, left, right)
  BY <1>2 DEF Glue!Init, Glue!All, Glue!HEAD, Linked, Chain
<1> QED BY <1>1, <1>3 DEF GlueInv, IsGlued

\* The place of the k-th node, the head before the first.
GluePlace(s, k) == IF k = 0 THEN "head" ELSE s[k]

\* The new links lead to x behind the k-th node, and back.
GlueIn(lg, rg, lf, rt, s, n, k, x) ==
    /\ LinkIn(rg, rt, s, n, k, x)
    /\ rg["head"] = IF k = 0 THEN x ELSE rt["head"]
    /\ lg[x] = GluePlace(s, k) /\ lg["head"] = NULL
    /\ \A i \in 1..n : lg[s[i]] = IF i = k + 1 THEN x ELSE lf[s[i]]
    /\ \A y \in Nodes \ {x} : (\A i \in 1..n : s[i] # y) => lg[y] = NULL /\ rg[y] = NULL

LEMMA GlueInserts ==
    ASSUME NEW n \in Nat, NEW s \in [1..n -> Nodes], NEW lf, NEW rt, Linked(n, s, lf, rt),
           NEW k \in 0..n, NEW x \in Nodes, \A i \in 1..n : s[i] # x,
           NEW lg, NEW rg, GlueIn(lg, rg, lf, rt, s, n, k, x)
    PROVE  \E t \in [1..(n + 1) -> Nodes] : IsWith(t, s, n, k, x) /\ Linked(n + 1, t, lg, rg)
<1>1. PICK h, g : h = rt["head"] /\ g = rg["head"]
  OBVIOUS
<1>2. Chain(s, n, h, rt) /\ LinkIn(rg, rt, s, n, k, x) /\ g = (IF k = 0 THEN x ELSE h)
  BY <1>1 DEF Linked, GlueIn
<1>3. x \notin {s[i] : i \in 1..n}
  OBVIOUS
<1>4. PICK t \in [1..(n + 1) -> Nodes] : IsWith(t, s, n, k, x) /\ Chain(t, n + 1, g, rg)
  BY <1>2, <1>3, ChainInsert
<1>5. ASSUME NEW i \in 1..(n + 1)
      PROVE  lg[t[i]] = IF i = 1 THEN "head" ELSE t[i - 1]
  <2>1. CASE i <= k
    <3>1. t[i] = s[i] /\ (i # 1 => t[i - 1] = s[i - 1]) /\ i \in 1..n /\ i # k + 1
      BY <1>4, <2>1 DEF IsWith
    <3> QED BY <3>1 DEF GlueIn, Linked
  <2>2. CASE i = k + 1
    <3>1. t[i] = x /\ (k # 0 => t[i - 1] = s[k])
      BY <1>4, <2>2 DEF IsWith
    <3> QED BY <2>2, <3>1 DEF GlueIn, GluePlace
  <2>3. CASE i = k + 2
    <3>1. t[i] = s[k + 1] /\ t[i - 1] = x /\ k + 1 \in 1..n /\ i # 1
      BY <1>4, <2>3 DEF IsWith
    <3> QED BY <3>1 DEF GlueIn
  <2>4. CASE i > k + 2
    <3>1. t[i] = s[i - 1] /\ t[i - 1] = s[i - 2] /\ i - 1 \in 1..n /\ i # 1 /\ i - 1 # k + 1
      BY <1>4, <2>4 DEF IsWith
    <3>2. i - 1 # 1 /\ (i - 1) - 1 = i - 2
      BY <2>4
    <3> QED BY <3>1, <3>2 DEF GlueIn, Linked
  <2> QED BY <2>1, <2>2, <2>3, <2>4
<1>6. ASSUME NEW y \in Nodes, \A i \in 1..(n + 1) : t[i] # y
      PROVE  lg[y] = NULL /\ rg[y] = NULL
  <2>1. y # x
    <3>1. k + 1 \in 1..(n + 1) /\ ~(k + 1 <= k)
      OBVIOUS
    <3> QED BY <1>4, <1>6, <3>1 DEF IsWith
  <2>2. ASSUME NEW i \in 1..n PROVE s[i] # y
    <3>1. CASE i <= k
      BY <1>4, <1>6, <3>1 DEF IsWith
    <3>2. CASE ~(i <= k)
      <4>1. i + 1 \in 1..(n + 1) /\ t[i + 1] = s[(i + 1) - 1] /\ (i + 1) - 1 = i
        BY <1>4, <3>2 DEF IsWith
      <4> QED BY <1>6, <4>1
    <3> QED BY <3>1, <3>2
  <2> QED BY <2>1, <2>2 DEF GlueIn
<1>7. lg["head"] = NULL
  BY DEF GlueIn
<1>8. Linked(n + 1, t, lg, rg)
  BY <1>1, <1>4, <1>5, <1>6, <1>7 DEF Linked
<1> QED BY <1>4, <1>8

\* The new links lead past the k-th node, both ways.
GlueOut(lg, rg, lf, rt, s, n, k) ==
    /\ LinkOut(rg, rt, s, n, k)
    /\ rg["head"] = IF k = 1 THEN rt[s[k]] ELSE rt["head"]
    /\ lg["head"] = NULL /\ lg[s[k]] = NULL /\ rg[s[k]] = NULL
    /\ \A i \in 1..n : i # k => lg[s[i]] = IF i = k + 1 THEN lf[s[k]] ELSE lf[s[i]]
    /\ \A y \in Nodes : (\A i \in 1..n : s[i] # y) => lg[y] = NULL /\ rg[y] = NULL

LEMMA GlueRemoves ==
    ASSUME NEW n \in Nat, NEW s \in [1..n -> Nodes], NEW lf, NEW rt, Linked(n, s, lf, rt),
           NEW k \in 1..n,
           NEW lg, NEW rg, GlueOut(lg, rg, lf, rt, s, n, k)
    PROVE  \E t \in [1..(n - 1) -> Nodes] : IsWithout(t, s, n, k) /\ Linked(n - 1, t, lg, rg)
<1>1. PICK h, g : h = rt["head"] /\ g = rg["head"]
  OBVIOUS
<1>2. Chain(s, n, h, rt) /\ LinkOut(rg, rt, s, n, k)
  BY <1>1 DEF Linked, GlueOut
<1>3. g = (IF k = 1 THEN rt[h] ELSE h)
  <2>1. k = 1 => h = s[k]
    BY <1>2 DEF Chain
  <2> QED BY <1>1, <2>1 DEF GlueOut
<1>4. PICK t \in [1..(n - 1) -> Nodes] : IsWithout(t, s, n, k) /\ Chain(t, n - 1, g, rg)
  BY <1>2, <1>3, ChainRemove
<1>5. ASSUME NEW i \in 1..(n - 1)
      PROVE  lg[t[i]] = IF i = 1 THEN "head" ELSE t[i - 1]
  <2>1. CASE i < k
    <3>1. t[i] = s[i] /\ (i # 1 => t[i - 1] = s[i - 1]) /\ i \in 1..n /\ i # k /\ i # k + 1
      BY <1>4, <2>1 DEF IsWithout
    <3> QED BY <3>1 DEF GlueOut, Linked
  <2>2. CASE i = k
    <3>1. t[i] = s[k + 1] /\ (k # 1 => t[i - 1] = s[k - 1]) /\ k + 1 \in 1..n /\ k + 1 # k
      BY <1>4, <2>2 DEF IsWithout
    <3>2. lg[s[k + 1]] = lf[s[k]]
      BY <3>1 DEF GlueOut
    <3> QED BY <2>2, <3>1, <3>2 DEF Linked
  <2>3. CASE i > k
    <3>1. /\ t[i] = s[i + 1] /\ t[i - 1] = s[i] /\ i + 1 \in 1..n /\ i # 1 /\ i + 1 # k
          /\ i + 1 # k + 1 /\ i + 1 # 1 /\ (i + 1) - 1 = i
      BY <1>4, <2>3 DEF IsWithout
    <3> QED BY <3>1 DEF GlueOut, Linked
  <2> QED BY <2>1, <2>2, <2>3
<1>6. ASSUME NEW y \in Nodes, \A i \in 1..(n - 1) : t[i] # y
      PROVE  lg[y] = NULL /\ rg[y] = NULL
  <2>1. CASE y = s[k]
    BY <2>1 DEF GlueOut
  <2>2. CASE y # s[k]
    <3>1. ASSUME NEW i \in 1..n PROVE s[i] # y
      <4>1. CASE i < k
        <5>1. i \in 1..(n - 1) /\ t[i] = s[i]
          BY <1>4, <4>1 DEF IsWithout
        <5> QED BY <1>6, <5>1
      <4>2. CASE i > k
        <5>1. i - 1 \in 1..(n - 1) /\ t[i - 1] = s[(i - 1) + 1] /\ (i - 1) + 1 = i
          BY <1>4, <4>2 DEF IsWithout
        <5> QED BY <1>6, <5>1
      <4>3. CASE i = k
        BY <2>2, <4>3
      <4> QED BY <4>1, <4>2, <4>3
    <3> QED BY <3>1 DEF GlueOut
  <2> QED BY <2>1, <2>2
<1>7. lg["head"] = NULL
  BY DEF GlueOut
<1>8. Linked(n - 1, t, lg, rg)
  BY <1>1, <1>4, <1>5, <1>6, <1>7 DEF Linked
<1> QED BY <1>4, <1>8

LEMMA GlueSameCardinality == \A S : Glue!Cardinality(S) = Cardinality(S)
BY DEF Glue!Cardinality, Cardinality

\* What hangs on the head by the right links is s.
LEMMA GlueContent ==
    ASSUME NEW n \in Nat, NEW s \in [1..n -> Nodes], Linked(n, s, left, right)
    PROVE  Glue!content = s /\ Len(s) = n
<1> USE NodesAssumption
<1>1. PICK m \in Nat : m = Glue!Cardinality(Nodes) /\ n <= m
  <2>1. n <= Cardinality(Nodes) /\ Cardinality(Nodes) \in Nat
    BY ChainSize DEF Linked, Chain
  <2> QED BY <2>1, GlueSameCardinality
<1>2. PICK g : g = [i \in 0..m |-> IF i = 0 THEN "head" ELSE IF i <= n THEN s[i] ELSE NULL]
  OBVIOUS
<1>3. ASSUME NEW i \in 0..m
      PROVE  g[i] = IF i = 0 THEN "head" ELSE IF g[i - 1] = NULL THEN NULL ELSE right[g[i - 1]]
  <2>1. CASE i = 0
    BY <1>2, <2>1
  <2>2. CASE i = 1
    <3>1. g[0] = "head" /\ i - 1 = 0 /\ g[i] = IF 1 <= n THEN s[1] ELSE NULL
      BY <1>1, <1>2, <2>2
    <3>2. right["head"] = IF n = 0 THEN NULL ELSE s[1]
      BY DEF Linked, Chain
    <3> QED BY <2>2, <3>1, <3>2
  <2>3. CASE i > 1 /\ i - 1 <= n
    <3>1. i - 1 \in 1..n /\ i - 1 \in 0..m /\ (i - 1) + 1 = i
      BY <1>1, <2>3
    <3>2. g[i - 1] = s[i - 1] /\ s[i - 1] # NULL
      BY <1>2, <3>1
    <3>3. right[s[i - 1]] = IF i - 1 = n THEN NULL ELSE s[(i - 1) + 1]
      BY <3>1 DEF Linked, Chain
    <3> QED BY <1>2, <2>3, <3>1, <3>2, <3>3
  <2>4. CASE i > 1 /\ ~(i - 1 <= n)
    <3>1. i - 1 \in 0..m /\ ~(i <= n) /\ i - 1 # 0
      BY <1>1, <2>4
    <3> QED BY <1>2, <2>4, <3>1
  <2> QED BY <2>1, <2>2, <2>3, <2>4
<1>4. g = [i \in 0..m |->
              IF i = 0 THEN "head" ELSE IF g[i - 1] = NULL THEN NULL ELSE right[g[i - 1]]]
  BY <1>2, <1>3
<1>5. PICK f, c, D :
          /\ f = [i \in 0..m |->
              IF i = 0 THEN "head" ELSE IF f[i - 1] = NULL THEN NULL ELSE right[f[i - 1]]]
          /\ D = {i \in 1..m : f[i] # NULL} /\ c = Glue!Cardinality(D)
          /\ Glue!content = [i \in 1..c |-> f[i]]
  BY <1>1, <1>4, Zenon DEF Glue!content, Glue!HEAD
<1>6. \A i \in 0..m : f[i] = g[i]
  <2>1. PICK G : G = {i \in 1..(m + 1) : f[i - 1] = g[i - 1]}
    OBVIOUS
  <2>2. 1 \in G
    BY <1>3, <1>5, <2>1
  <2>3. ASSUME NEW i \in 1..m, i \in G PROVE i + 1 \in G
    <3>1. /\ i + 1 \in 1..(m + 1) /\ i # 0 /\ (i + 1) - 1 = i /\ i \in 0..m
      OBVIOUS
    <3>2. f[i - 1] = g[i - 1]
      BY <2>1, <2>3
    <3>3. f[i] = IF f[i - 1] = NULL THEN NULL ELSE right[f[i - 1]]
      BY <1>5, <3>1
    <3>4. g[i] = IF g[i - 1] = NULL THEN NULL ELSE right[g[i - 1]]
      BY <1>3, <3>1
    <3> QED BY <2>1, <3>1, <3>2, <3>3, <3>4
  <2>4. \A i \in 1..(m + 1) : i \in G
    BY <2>2, <2>3, UpTo
  <2>5. ASSUME NEW i \in 0..m PROVE f[i] = g[i]
    <3>1. i + 1 \in 1..(m + 1) /\ (i + 1) - 1 = i
      OBVIOUS
    <3> QED BY <2>1, <2>4, <3>1
  <2> QED BY <2>5
<1>7. \A i \in 1..m : f[i] = IF i <= n THEN s[i] ELSE NULL
  BY <1>2, <1>6
<1>8. D = 1..n
  <2>1. \A i : i \in D <=> i \in 1..m /\ f[i] # NULL
    BY <1>5
  <2>2. \A i \in 1..n : s[i] # NULL
    OBVIOUS
  <2>3. ASSUME NEW i PROVE i \in D <=> i \in 1..n
    <3>1. CASE i \in 1..m
      <4>1. (i <= n => f[i] = s[i]) /\ (~(i <= n) => f[i] = NULL)
        BY <1>7, <3>1
      <4>2. i \in 1..n <=> i <= n
        BY <1>1, <3>1
      <4> QED BY <2>1, <2>2, <3>1, <4>1, <4>2
    <3>2. CASE i \notin 1..m
      BY <1>1, <2>1, <3>2
    <3> QED BY <3>1, <3>2
  <2> QED BY <2>3
<1>9. c = n
  <2>1. Cardinality(1..n) = n
    BY FS_Interval
  <2> QED BY <1>5, <1>8, <2>1, GlueSameCardinality
<1>10. Glue!content = s
  <2>1. Glue!content = [i \in 1..n |-> f[i]]
    BY <1>5, <1>9
  <2>2. \A i \in 1..n : f[i] = s[i]
    BY <1>1, <1>7
  <2> QED BY <2>1, <2>2
<1> QED BY <1>10

LEMMA GlueInList ==
    ASSUME GlueTyped, NEW n \in Nat, NEW s \in [1..n -> Nodes], Linked(n, s, left, right),
           NEW x
    PROVE  x \in Glue!InList <=> \E i \in 1..n : s[i] = x
BY GlueContent DEF Glue!InList

\* It does so after a step as well.
HangsBehind(s) == Glue!content = s

LEMMA GlueContentNext ==
    (\A n \in Nat : \A s \in [1..n -> Nodes] : Linked(n, s, left, right) => HangsBehind(s))'
<1>1. \A n \in Nat : \A s \in [1..n -> Nodes] : Linked(n, s, left, right) => HangsBehind(s)
  BY GlueContent DEF HangsBehind
<1> QED BY <1>1, PTL

\* A node more hangs on the head, behind the k-th, or the k-th is gone.
GlueGrows(k, x) ==
    \E c, d \in Seq(Nodes) :
        /\ c = Glue!content /\ d = Glue!content' /\ k \in 0..Len(c)
        /\ Len(d) = Len(c) + 1 /\ IsWith(d, c, Len(c), k, x)
GlueShrinks(k) ==
    \E c, d \in Seq(Nodes) :
        /\ c = Glue!content /\ d = Glue!content' /\ k \in 1..Len(c)
        /\ Len(d) = Len(c) - 1 /\ IsWithout(d, c, Len(c), k)
GlueStays == Glue!content' = Glue!content

LEMMA GlueGrown ==
    ASSUME NEW n \in Nat, NEW s \in [1..n -> Nodes], Linked(n, s, left, right),
           NEW k \in 0..n, NEW x,
           NEW t \in [1..(n + 1) -> Nodes], IsWith(t, s, n, k, x), Linked(n + 1, t, left', right')
    PROVE  GlueGrows(k, x)
<1>1. Glue!content = s /\ s \in Seq(Nodes) /\ Len(s) = n
  BY GlueContent, Sequence
<1>2. n + 1 \in Nat
  OBVIOUS
<1>3. HangsBehind(t)'
  BY <1>2, GlueContentNext
<1>4. Glue!content' = t /\ t \in Seq(Nodes) /\ Len(t) = n + 1
  BY <1>2, <1>3, Sequence DEF HangsBehind
<1> QED BY <1>1, <1>4 DEF GlueGrows

LEMMA GlueShrunk ==
    ASSUME NEW n \in Nat, NEW s \in [1..n -> Nodes], Linked(n, s, left, right),
           NEW k \in 1..n,
           NEW t \in [1..(n - 1) -> Nodes], IsWithout(t, s, n, k), Linked(n - 1, t, left', right')
    PROVE  GlueShrinks(k)
<1>1. Glue!content = s /\ s \in Seq(Nodes) /\ Len(s) = n
  BY GlueContent, Sequence
<1>2. n - 1 \in Nat
  OBVIOUS
<1>3. HangsBehind(t)'
  BY <1>2, GlueContentNext
<1>4. Glue!content' = t /\ t \in Seq(Nodes) /\ Len(t) = n - 1
  BY <1>2, <1>3, Sequence DEF HangsBehind
<1> QED BY <1>1, <1>4 DEF GlueShrinks

\* A node is found at its place.
LEMMA GlueIndex ==
    ASSUME NEW n \in Nat, NEW s \in [1..n -> Nodes], Linked(n, s, left, right), NEW k \in 0..n
    PROVE  Glue!Index(GluePlace(s, k)) = k
<1> USE NodesAssumption
<1>1. CASE k = 0
  BY <1>1 DEF GluePlace, Glue!Index, Glue!HEAD
<1>2. CASE k # 0
  <2>1. Glue!content = s /\ Len(s) = n
    BY GlueContent
  <2>2. k \in 1..n /\ GluePlace(s, k) = s[k] /\ s[k] # "head"
    BY <1>2 DEF GluePlace
  <2>3. Glue!Index(s[k]) = CHOOSE i \in 1..n : s[i] = s[k]
    BY <2>1, <2>2 DEF Glue!Index, Glue!HEAD
  <2>4. \A i \in 1..n : s[i] = s[k] => i = k
    BY <2>2 DEF Linked, Chain
  <2>5. (CHOOSE i \in 1..n : s[i] = s[k]) = k
    BY <2>2, <2>4
  <2> QED BY <2>2, <2>3, <2>5
<1> QED BY <1>1, <1>2

\* What is to be shown of each call
GlueDone ==
    /\ IsGlued'
    /\ left' \in [GlueAll -> GlueAll \cup {NULL}]
    /\ right' \in [GlueAll -> GlueAll \cup {NULL}]

\* glthread_add_next: behind the k-th node, or the head.
LEMMA GlueAddsNext ==
    ASSUME GlueTyped, NEW n \in Nat, NEW s \in [1..n -> Nodes], Linked(n, s, left, right),
           NEW k \in 0..n, NEW x \in Nodes, \A i \in 1..n : s[i] # x,
           Glue!AddNext(GluePlace(s, k), x)
    PROVE  GlueDone /\ GlueGrows(k, x)
<1> USE NodesAssumption DEF GlueTyped
<1>1. PICK c : c = GluePlace(s, k)
  OBVIOUS
<1>2. c \in GlueAll /\ x \in GlueAll /\ c # x /\ c # NULL /\ x # NULL /\ x # "head"
  BY <1>1 DEF GluePlace, GlueAll
<1>3. right[c] = (IF k = n THEN NULL ELSE s[k + 1])
  BY <1>1 DEF GluePlace, Linked, Chain
<1>4. /\ left[x] = NULL /\ right[x] = NULL /\ left["head"] = NULL
  BY DEF Linked
<1>5. \A i \in 1..n : /\ s[i] # x /\ s[i] # "head" /\ s[i] \in GlueAll /\ s[i] # NULL
                      /\ (s[i] = c <=> i = k)
                      /\ \A j \in 1..n : s[i] = s[j] => i = j
  BY <1>1 DEF GluePlace, Linked, Chain, GlueAll
<1>6. /\ right' \in [GlueAll -> GlueAll \cup {NULL}]
      /\ right'[x] = right[c] /\ right'[c] = x
      /\ \A y \in GlueAll : y # x /\ y # c => right'[y] = right[y]
  BY <1>1, <1>2, <1>4 DEF Glue!AddNext
<1>7. /\ left' \in [GlueAll -> GlueAll \cup {NULL}] /\ left'[x] = c
      /\ \A y \in GlueAll : y # x => left'[y] = IF y = right[c] THEN x ELSE left[y]
  <2>1. CASE k = n
    <3>1. left' = [left EXCEPT ![x] = c] /\ right[c] = NULL
      BY <1>1, <1>3, <2>1 DEF Glue!AddNext
    <3> QED BY <1>2, <3>1 DEF GlueAll
  <2>2. CASE k # n
    <3>1. k + 1 \in 1..n /\ right[c] = s[k + 1]
      BY <1>3, <2>2
    <3>2. left' = [left EXCEPT ![x] = c, ![right[c]] = x] /\ right[c] # x
      BY <1>1, <1>5, <3>1 DEF Glue!AddNext
    <3> QED BY <1>2, <1>5, <3>1, <3>2 DEF GlueAll
  <2> QED BY <2>1, <2>2
<1>8. PICK lg, rg : lg = left' /\ rg = right'
  OBVIOUS
<1>9. GlueIn(lg, rg, left, right, s, n, k, x)
  <2>1. LinkIn(rg, right, s, n, k, x)
    BY <1>3, <1>5, <1>6, <1>8 DEF LinkIn
  <2>2. rg["head"] = IF k = 0 THEN x ELSE right["head"]
    <3>1. "head" \in GlueAll /\ (c = "head" <=> k = 0)
      BY <1>1, <1>5 DEF GluePlace, GlueAll
    <3> QED BY <1>2, <1>6, <1>8, <3>1
  <2>3. lg[x] = GluePlace(s, k)
    BY <1>1, <1>7, <1>8
  <2>4. lg["head"] = NULL
    <3>1. "head" \in GlueAll /\ right[c] # "head"
      BY <1>3 DEF GlueAll
    <3> QED BY <1>2, <1>4, <1>7, <1>8, <3>1
  <2>5. \A i \in 1..n : lg[s[i]] = IF i = k + 1 THEN x ELSE left[s[i]]
    <3>1. \A i \in 1..n : s[i] = right[c] <=> i = k + 1
      BY <1>3, <1>5
    <3> QED BY <1>5, <1>7, <1>8, <3>1
  <2>6. ASSUME NEW y \in Nodes \ {x}, \A i \in 1..n : s[i] # y
        PROVE  lg[y] = NULL /\ rg[y] = NULL
    <3>1. left[y] = NULL /\ right[y] = NULL /\ y \in GlueAll
      BY <2>6 DEF Linked, GlueAll
    <3>2. y # c /\ y # right[c]
      BY <1>1, <1>3, <2>6 DEF GluePlace
    <3> QED BY <1>6, <1>7, <1>8, <3>1, <3>2
  <2> QED BY <2>1, <2>2, <2>3, <2>4, <2>5, <2>6 DEF GlueIn
<1>10. PICK t \in [1..(n + 1) -> Nodes] : IsWith(t, s, n, k, x) /\ Linked(n + 1, t, lg, rg)
  BY <1>9, GlueInserts
<1>11. GlueGrows(k, x)
  BY <1>8, <1>10, GlueGrown
<1> QED BY <1>6, <1>7, <1>8, <1>10, <1>11 DEF IsGlued, GlueDone

\* glthread_add_before: before the k-th node is behind the one before it.
LEMMA GlueAddsBefore ==
    ASSUME GlueTyped, NEW n \in Nat, NEW s \in [1..n -> Nodes], Linked(n, s, left, right),
           NEW k \in 1..n, NEW x, Glue!AddBefore(s[k], x)
    PROVE  Glue!AddNext(GluePlace(s, k - 1), x)
<1> USE NodesAssumption
<1>1. PICK c : c = GluePlace(s, k - 1)
  OBVIOUS
<1>2. left[s[k]] = c
  BY <1>1 DEF Linked, GluePlace
<1>3. right[c] = s[k]
  <2>1. CASE k = 1
    BY <1>1, <2>1 DEF Linked, Chain, GluePlace
  <2>2. CASE k # 1
    <3>1. k - 1 \in 1..n /\ k - 1 # n /\ (k - 1) + 1 = k
      BY <2>2
    <3> QED BY <1>1, <3>1 DEF Linked, Chain, GluePlace
  <2> QED BY <2>1, <2>2
<1>4. /\ right[c] # NULL
      /\ right' = [right EXCEPT ![c] = x, ![x] = right[c]]
      /\ left' = [left EXCEPT ![x] = c, ![right[c]] = x]
  BY <1>2, <1>3 DEF Glue!AddBefore
<1>5. Glue!AddNext(c, x)
  BY <1>4 DEF Glue!AddNext
<1> QED BY <1>1, <1>5

\* The places of the greater nodes, and the first of them
GreaterThan(x) == {i \in 1..Len(Glue!content) : Glue!Before(x, Glue!content[i])}
LeastOf(S) == CHOOSE i \in S : \A j \in S : i <= j

\* glthread_add_last: behind the last node, or the head.
LEMMA GlueLastPlace ==
    ASSUME NEW n \in Nat, NEW s \in [1..n -> Nodes], Linked(n, s, left, right),
           NEW x, Glue!AddLast(x)
    PROVE  Glue!AddNext(GluePlace(s, n), x)
<1>1. Glue!content = s /\ Len(s) = n /\ (Glue!content = <<>> <=> n = 0)
  <2>1. Glue!content = s /\ Len(s) = n
    BY GlueContent
  <2>2. s = <<>> <=> n = 0
    BY <2>1
  <2> QED BY <2>1, <2>2
<1>2. Glue!LastNode = GluePlace(s, n)
  BY <1>1 DEF Glue!LastNode, Glue!HEAD, GluePlace
<1> QED BY <1>2 DEF Glue!AddLast

\* Behind the k-th node is where x goes in a sorted list: the nodes up to there
\* are not greater, the others are.
KeepsKeys(k, n, s, x) ==
    (\A i, j \in 1..n : i < j => key[s[i]] <= key[s[j]])
    => /\ \A i \in 1..k : key[s[i]] <= key[x]
       /\ \A i \in (k + 1)..n : key[x] < key[s[i]]

\* glthread_priority_insert: behind the nodes that are not greater.
LEMMA GluePriorityPlace ==
    ASSUME GlueTyped, NEW n \in Nat, NEW s \in [1..n -> Nodes], Linked(n, s, left, right),
           NEW x \in Nodes, Glue!PriorityInsert(x)
    PROVE  \E k \in 0..n : Glue!AddNext(GluePlace(s, k), x) /\ KeepsKeys(k, n, s, x)
<1>1. Glue!content = s /\ Len(s) = n /\ (Glue!content = <<>> <=> n = 0)
  <2>1. Glue!content = s /\ Len(s) = n
    BY GlueContent
  <2>2. s = <<>> <=> n = 0
    BY <2>1
  <2> QED BY <2>1, <2>2
<1>2. PICK greater : greater = GreaterThan(x)
  OBVIOUS
<1>3. PICK first : first = LeastOf(greater)
  OBVIOUS
<1>4. Glue!InsertAfter(x) = IF n = 0 THEN "head"
          ELSE IF n = 1 THEN IF Glue!Before(x, s[1]) THEN "head" ELSE s[1]
          ELSE IF greater = {} THEN s[n]
          ELSE IF first = 1 THEN "head" ELSE s[first - 1]
  <2>1. Glue!InsertAfter(x) = IF Glue!content = <<>> THEN "head"
          ELSE IF Len(Glue!content) = 1
          THEN IF Glue!Before(x, Glue!content[1]) THEN "head" ELSE Glue!content[1]
          ELSE IF greater = {} THEN Glue!content[Len(Glue!content)]
          ELSE IF first = 1 THEN "head" ELSE Glue!content[first - 1]
    <3>1. Glue!InsertAfter(x) = IF Glue!content = <<>> THEN "head"
            ELSE IF Len(Glue!content) = 1
            THEN IF Glue!Before(x, Glue!content[1]) THEN "head" ELSE Glue!content[1]
            ELSE IF GreaterThan(x) = {} THEN Glue!content[Len(Glue!content)]
            ELSE IF LeastOf(GreaterThan(x)) = 1 THEN "head"
            ELSE Glue!content[LeastOf(GreaterThan(x)) - 1]
      BY Zenon DEF Glue!InsertAfter, Glue!HEAD, GreaterThan, LeastOf
    <3> QED BY <1>2, <1>3, <3>1
  <2> QED BY <1>1, <2>1
<1>5. greater # {} => first \in greater /\ \A i \in greater : first <= i
  <2>1. greater \subseteq Nat
    BY <1>1, <1>2 DEF GreaterThan
  <2>2. first = CHOOSE i \in greater : \A j \in greater : i <= j
    BY <1>3, Zenon DEF LeastOf
  <2>3. ASSUME greater # {} PROVE first \in greater /\ \A i \in greater : first <= i
    <3>1. PICK l \in greater : /\ l = CHOOSE i \in greater : \A j \in greater : i <= j
                              /\ \A i \in greater : l <= i
      BY <2>1, <2>3, LeastNumber
    <3> QED BY <2>2, <3>1
  <2> QED BY <2>3
<1>6. \A i \in 1..n : i \in greater <=> key[x] < key[s[i]]
  BY <1>1, <1>2 DEF GreaterThan, Glue!Before
<1>7. greater \subseteq 1..n
  BY <1>1, <1>2 DEF GreaterThan
<1>8. key[x] \in Nat /\ \A i \in 1..n : key[s[i]] \in Nat
  BY NodesAssumption DEF GlueTyped
<1>9. PICK k \in 0..n : k = IF n = 0 THEN 0
          ELSE IF n = 1 THEN IF Glue!Before(x, s[1]) THEN 0 ELSE 1
          ELSE IF greater = {} THEN n
          ELSE first - 1
  <2>1. PICK k : k = IF n = 0 THEN 0
          ELSE IF n = 1 THEN IF Glue!Before(x, s[1]) THEN 0 ELSE 1
          ELSE IF greater = {} THEN n
          ELSE first - 1
    OBVIOUS
  <2>2. greater # {} => first \in 1..n
    BY <1>5, <1>7
  <2>3. CASE n = 0 \/ n = 1
    BY <2>1, <2>3
  <2>4. CASE n # 0 /\ n # 1
    BY <2>1, <2>2, <2>4
  <2> QED BY <2>3, <2>4
<1>10. Glue!InsertAfter(x) = GluePlace(s, k)
  BY <1>4, <1>5, <1>7, <1>9 DEF GluePlace
<1>11. KeepsKeys(k, n, s, x)
  <2>1. CASE n = 0
    BY <1>9, <2>1 DEF KeepsKeys
  <2>2. CASE n = 1
    <3>1. k = IF key[x] < key[s[1]] THEN 0 ELSE 1
      BY <1>9, <2>2 DEF Glue!Before
    <3> QED BY <1>8, <2>2, <3>1 DEF KeepsKeys
  <2>3. CASE n # 0 /\ n # 1 /\ greater = {}
    <3>1. k = n
      BY <1>9, <2>3
    <3>2. \A i \in 1..n : key[s[i]] <= key[x]
      BY <1>6, <1>8, <2>3
    <3> QED BY <3>1, <3>2 DEF KeepsKeys
  <2>4. CASE n # 0 /\ n # 1 /\ greater # {}
    <3>1. k = first - 1 /\ first \in 1..n /\ key[x] < key[s[first]]
      BY <1>5, <1>6, <1>7, <1>9, <2>4
    <3>2. ASSUME NEW i \in 1..k PROVE key[s[i]] <= key[x]
      <4>1. i \in 1..n /\ ~(first <= i)
        BY <3>1
      <4>2. ~(key[x] < key[s[i]])
        BY <1>5, <1>6, <2>4, <4>1
      <4> QED BY <1>8, <4>1, <4>2
    <3>3. ASSUME \A i, j \in 1..n : i < j => key[s[i]] <= key[s[j]],
                 NEW i \in (k + 1)..n
          PROVE  key[x] < key[s[i]]
      <4>1. i \in 1..n /\ (i = first \/ first < i)
        BY <3>1
      <4>2. first < i => key[s[first]] <= key[s[i]]
        BY <3>1, <3>3, <4>1
      <4> QED BY <1>8, <3>1, <4>1, <4>2
    <3> QED BY <3>2, <3>3 DEF KeepsKeys
  <2> QED BY <2>1, <2>2, <2>3, <2>4
<1> QED BY <1>10, <1>11 DEF Glue!PriorityInsert

\* What the insertion by priority is to do.
GlueSorts(x) ==
    \E c, d \in Seq(Nodes) :
        /\ c = Glue!content /\ d = Glue!content'
        /\ \E i \in 1..Len(d) : d[i] = x /\ Glue!SX!RemoveAt(d, i) = c
        /\ Glue!Sorted(c) =>
            /\ Glue!Sorted(d)
            /\ \A i, j \in 1..Len(d) : d[j] = x /\ key[d[i]] = key[x] => i <= j

LEMMA GlueInOrder ==
    ASSUME GlueTyped, NEW n \in Nat, NEW s \in [1..n -> Nodes], Linked(n, s, left, right),
           NEW x \in Nodes, \A i \in 1..n : s[i] # x,
           NEW k \in 0..n, KeepsKeys(k, n, s, x), GlueGrows(k, x)
    PROVE  GlueSorts(x)
<1>1. PICK c \in Seq(Nodes) : c = Glue!content /\ c = s /\ Len(c) = n
  BY GlueContent, Sequence
<1>2. PICK d \in Seq(Nodes) : d = Glue!content' /\ Len(d) = n + 1 /\ IsWith(d, c, n, k, x)
  BY <1>1 DEF GlueGrows
<1>3. IsWithout(c, d, n + 1, k + 1) /\ k + 1 \in 1..Len(d) /\ d[k + 1] = x
  BY <1>2, WithAndWithout
<1>4. c = Removed(d, k + 1)
  <2>1. Len(c) = Len(d) - 1 /\ IsWithout(c, d, Len(d), k + 1)
    BY <1>1, <1>2, <1>3
  <2> QED BY <1>3, <2>1, WithoutIsRemoved, Zenon
<1>5. Glue!SX!RemoveAt(d, k + 1) = Removed(d, k + 1)
  BY DEF Glue!SX!RemoveAt, Removed, Front, Rear
<1>6. key[x] \in Nat /\ \A i \in 1..n : c[i] \in Nodes /\ key[c[i]] \in Nat
  BY <1>1, NodesAssumption DEF GlueTyped
<1>7. ASSUME Glue!Sorted(c)
      PROVE  /\ Glue!Sorted(d)
             /\ \A i, j \in 1..Len(d) : d[j] = x /\ key[d[i]] = key[x] => i <= j
  <2>1. \A i, j \in 1..n : i < j => key[c[i]] <= key[c[j]]
    BY <1>1, <1>7 DEF Glue!Sorted
  <2>2. /\ \A i \in 1..k : key[c[i]] <= key[x]
        /\ \A i \in (k + 1)..n : key[x] < key[c[i]]
    BY <1>1, <2>1 DEF KeepsKeys
  <2>3. ASSUME NEW i \in 1..(n + 1)
        PROVE  /\ i <= k => i \in 1..n /\ d[i] = c[i]
               /\ i = k + 1 => d[i] = x
               /\ i > k + 1 => i - 1 \in (k + 1)..n /\ i - 1 \in 1..n /\ d[i] = c[i - 1]
    <3>1. d[i] = IF i <= k THEN c[i] ELSE IF i = k + 1 THEN x ELSE c[i - 1]
      BY <1>2 DEF IsWith
    <3> QED BY <3>1
  <2>4. PICK f : f = [i \in 1..n |-> key[c[i]]]
    OBVIOUS
  <2>5. PICK g : g = [i \in 1..(n + 1) |-> key[d[i]]]
    OBVIOUS
  <2>6. f \in [1..n -> Nat] /\ Rises(f, n)
    BY <1>6, <2>1, <2>4 DEF Rises
  <2>7. IsWith(g, f, n, k, key[x])
    <3>1. ASSUME NEW i \in 1..(n + 1)
          PROVE  g[i] = IF i <= k THEN f[i] ELSE IF i = k + 1 THEN key[x] ELSE f[i - 1]
      <4>1. CASE i <= k
        BY <2>3, <2>4, <2>5, <4>1
      <4>2. CASE i = k + 1
        BY <2>3, <2>5, <4>2
      <4>3. CASE i > k + 1
        BY <2>3, <2>4, <2>5, <4>3
      <4> QED BY <4>1, <4>2, <4>3
    <3> QED BY <3>1 DEF IsWith
  <2>8. /\ \A i \in 1..k : f[i] <= key[x]
        /\ \A i \in (k + 1)..n : key[x] <= f[i]
    BY <1>6, <2>2, <2>4
  <2>9. PICK kx \in Nat : kx = key[x]
    BY <1>6
  <2>10. Rises(g, n + 1)
    BY <2>6, <2>7, <2>8, <2>9, WithRises
  <2>11. Glue!Sorted(d)
    BY <1>2, <2>5, <2>10 DEF Rises, Glue!Sorted
  <2>12. ASSUME NEW i \in 1..(n + 1), NEW j \in 1..(n + 1), d[j] = x, key[d[i]] = key[x]
         PROVE  i <= j
    <3>1. j = k + 1
      <4>1. \A l \in 1..n : c[l] # x
        BY <1>1
      <4>2. ~(j <= k)
        BY <2>3, <2>12, <4>1
      <4>3. ~(j > k + 1)
        BY <2>3, <2>12, <4>1
      <4> QED BY <4>2, <4>3
    <3>2. ~(i > k + 1)
      <4>1. ASSUME i > k + 1 PROVE FALSE
        <5>1. key[x] < key[c[i - 1]] /\ key[c[i - 1]] = key[x]
          BY <2>2, <2>3, <2>12, <4>1
        <5> QED BY <1>6, <5>1
      <4> QED BY <4>1
    <3> QED BY <3>1, <3>2
  <2> QED BY <1>2, <2>11, <2>12
<1> QED BY <1>1, <1>2, <1>3, <1>4, <1>5, <1>7 DEF GlueSorts

\* remove_glthread, of the k-th node
LEMMA GlueUnlinks ==
    ASSUME GlueTyped, NEW n \in Nat, NEW s \in [1..n -> Nodes], Linked(n, s, left, right),
           NEW k \in 1..n, Glue!Remove(s[k])
    PROVE  GlueDone /\ GlueShrinks(k)
<1> USE NodesAssumption DEF GlueTyped
<1>1. PICK c : c = GluePlace(s, k - 1)
  OBVIOUS
<1>2. PICK x : x = s[k]
  OBVIOUS
<1>3. /\ x \in GlueAll /\ x # NULL /\ x # "head" /\ "head" \in GlueAll
      /\ c \in GlueAll /\ c # NULL /\ c # x
  <2>1. k # 1 => k - 1 \in 1..n /\ k - 1 # k
    OBVIOUS
  <2>2. x \in Nodes /\ (k # 1 => s[k - 1] \in Nodes /\ s[k - 1] # x)
    BY <1>2, <2>1 DEF Linked, Chain
  <2> QED BY <1>1, <2>2 DEF GluePlace, GlueAll
<1>4. left[x] = c /\ right[x] = IF k = n THEN NULL ELSE s[k + 1]
  BY <1>1, <1>2 DEF GluePlace, Linked, Chain
<1>5. \A i \in 1..n : /\ s[i] # "head" /\ s[i] \in GlueAll /\ s[i] # NULL
                      /\ (s[i] = c <=> i = k - 1) /\ (s[i] = x <=> i = k)
                      /\ \A j \in 1..n : s[i] = s[j] => i = j
  BY <1>1, <1>2 DEF GluePlace, Linked, Chain, GlueAll
<1>6. k # n => right[x] # x /\ right[x] \in GlueAll /\ right[x] # NULL /\ right[x] # "head"
  <2>1. k # n => k + 1 \in 1..n /\ k + 1 # k
    OBVIOUS
  <2> QED BY <1>4, <1>5, <2>1
<1>7. /\ right' \in [GlueAll -> GlueAll \cup {NULL}]
      /\ right'[x] = NULL /\ right'[c] = right[x]
      /\ \A y \in GlueAll : y # x /\ y # c => right'[y] = right[y]
  <2>1. CASE k = n
    <3>1. right' = [right EXCEPT ![c] = NULL] /\ right[x] = NULL
      BY <1>2, <1>3, <1>4, <2>1 DEF Glue!Remove
    <3> QED BY <1>3, <3>1
  <2>2. CASE k # n
    <3>1. right' = [right EXCEPT ![c] = right[x], ![x] = NULL]
      BY <1>2, <1>3, <1>4, <1>6, <2>2 DEF Glue!Remove
    <3> QED BY <1>3, <3>1
  <2> QED BY <2>1, <2>2
<1>8. /\ left' \in [GlueAll -> GlueAll \cup {NULL}] /\ left'[x] = NULL
      /\ \A y \in GlueAll : y # x => left'[y] = IF y = right[x] THEN c ELSE left[y]
  <2>1. CASE k = n
    <3>1. left' = [left EXCEPT ![x] = NULL] /\ right[x] = NULL
      BY <1>2, <1>3, <1>4, <2>1 DEF Glue!Remove
    <3> QED BY <1>3, <3>1 DEF GlueAll
  <2>2. CASE k # n
    <3>1. left' = [left EXCEPT ![right[x]] = left[x], ![x] = NULL]
      BY <1>2, <1>3, <1>4, <1>6, <2>2 DEF Glue!Remove
    <3> QED BY <1>3, <1>4, <1>6, <2>2, <3>1
  <2> QED BY <2>1, <2>2
<1>9. PICK lg, rg : lg = left' /\ rg = right'
  OBVIOUS
<1>10. GlueOut(lg, rg, left, right, s, n, k)
  <2>1. LinkOut(rg, right, s, n, k)
    BY <1>2, <1>5, <1>7, <1>9 DEF LinkOut
  <2>2. rg["head"] = IF k = 1 THEN right[s[k]] ELSE right["head"]
    <3>1. c = "head" <=> k = 1
      BY <1>1, <1>5 DEF GluePlace
    <3> QED BY <1>2, <1>3, <1>7, <1>9, <3>1
  <2>3. lg["head"] = NULL
    <3>1. left["head"] = NULL /\ right[x] # "head"
      <4>1. CASE k = n
        BY <1>4, <4>1 DEF Linked
      <4>2. CASE k # n
        BY <1>6, <4>2 DEF Linked
      <4> QED BY <4>1, <4>2
    <3> QED BY <1>3, <1>8, <1>9, <3>1
  <2>4. lg[s[k]] = NULL /\ rg[s[k]] = NULL
    BY <1>2, <1>7, <1>8, <1>9
  <2>5. \A i \in 1..n : i # k => lg[s[i]] = IF i = k + 1 THEN left[s[k]] ELSE left[s[i]]
    <3>1. \A i \in 1..n : s[i] = right[x] <=> i = k + 1
      BY <1>4, <1>5
    <3> QED BY <1>2, <1>4, <1>5, <1>8, <1>9, <3>1
  <2>6. ASSUME NEW y \in Nodes, \A i \in 1..n : s[i] # y
        PROVE  lg[y] = NULL /\ rg[y] = NULL
    <3>1. left[y] = NULL /\ right[y] = NULL /\ y \in GlueAll
      BY <2>6 DEF Linked, GlueAll
    <3>2. y # c /\ y # x /\ y # right[x]
      <4>1. y # x
        BY <1>2, <2>6
      <4>2. y # c
        BY <1>1, <2>6 DEF GluePlace
      <4>3. y # right[x]
        BY <1>4, <2>6
      <4> QED BY <4>1, <4>2, <4>3
    <3> QED BY <1>7, <1>8, <1>9, <3>1, <3>2
  <2> QED BY <2>1, <2>2, <2>3, <2>4, <2>5, <2>6 DEF GlueOut
<1>11. PICK t \in [1..(n - 1) -> Nodes] : IsWithout(t, s, n, k) /\ Linked(n - 1, t, lg, rg)
  BY <1>10, GlueRemoves
<1>12. n - 1 \in Nat
  OBVIOUS
<1>13. GlueShrinks(k)
  BY <1>9, <1>11, GlueShrunk
<1> QED BY <1>7, <1>8, <1>9, <1>11, <1>12, <1>13 DEF IsGlued, GlueDone

LEMMA GlueUnchanged ==
    ASSUME GlueInv, left' = left, right' = right
    PROVE  GlueDone /\ GlueStays
<1>1. GlueDone
  BY DEF GlueInv, GlueTyped, IsGlued, GlueDone
<1>2. PICK n \in Nat : \E s \in [1..n -> Nodes] : Linked(n, s, left, right)
  BY DEF GlueInv, IsGlued
<1>3. PICK s \in [1..n -> Nodes] : Linked(n, s, left, right)
  BY <1>2
<1>4. HangsBehind(s)'
  BY <1>3, GlueContentNext
<1>5. Glue!content = s
  BY <1>3, GlueContent
<1> QED BY <1>1, <1>4, <1>5 DEF HangsBehind, GlueStays

\* remove_glthread, of any node: one on no list has no links.
LEMMA GlueTakesOut ==
    ASSUME GlueInv, NEW x \in Nodes, Glue!Remove(x)
    PROVE  /\ GlueDone
           /\ IF x \in Glue!InList THEN GlueShrinks(Glue!Index(x)) ELSE GlueStays
<1>0. PICK n \in Nat : \E s \in [1..n -> Nodes] : Linked(n, s, left, right)
  BY DEF GlueInv, IsGlued
<1>1. PICK s \in [1..n -> Nodes] : Linked(n, s, left, right)
  BY <1>0
<1>2. CASE \E k \in 1..n : s[k] = x
  <2>1. PICK k \in 1..n : s[k] = x
    BY <1>2
  <2>2. GlueDone /\ GlueShrinks(k)
    BY <1>1, <2>1, GlueUnlinks DEF GlueInv
  <2>3. x \in Glue!InList
    BY <1>1, <1>2, GlueInList DEF GlueInv
  <2>4. k \in 0..n /\ GluePlace(s, k) = x
    BY <2>1 DEF GluePlace
  <2>5. Glue!Index(x) = k
    BY <1>1, <2>4, GlueIndex
  <2> QED BY <2>2, <2>3, <2>5
<1>3. CASE \A k \in 1..n : s[k] # x
  <2>1. left[x] = NULL /\ right[x] = NULL
    BY <1>1, <1>3 DEF Linked
  <2>2. left' = left /\ right' = right
    BY <2>1 DEF Glue!Remove
  <2>3. x \notin Glue!InList
    BY <1>1, <1>3, GlueInList DEF GlueInv
  <2> QED BY <2>2, <2>3, GlueUnchanged
<1> QED BY <1>2, <1>3

\* delete_glthread_list
LEMMA GlueEmpties ==
    ASSUME GlueInv, Glue!DeleteList
    PROVE  GlueDone /\ Glue!content' = <<>>
<1> USE NodesAssumption
<1>0. PICK n \in Nat : \E s \in [1..n -> Nodes] : Linked(n, s, left, right)
  BY DEF GlueInv, IsGlued
<1>1. PICK s \in [1..n -> Nodes] : Linked(n, s, left, right)
  BY <1>0
<1>2. \A x : x \in Glue!InList <=> \E i \in 1..n : s[i] = x
  BY <1>1, GlueInList DEF GlueInv
<1>3. PICK lg, rg : lg = left' /\ rg = right'
  OBVIOUS
<1>4. /\ lg = [y \in GlueAll |-> IF y \in Glue!InList THEN NULL ELSE left[y]]
      /\ rg = [y \in GlueAll |-> IF y \in Glue!InList \cup {"head"} THEN NULL ELSE right[y]]
  BY <1>3 DEF Glue!DeleteList, Glue!All, Glue!HEAD, GlueAll
<1>5. ASSUME NEW y \in GlueAll PROVE lg[y] = NULL /\ rg[y] = NULL
  <2>1. CASE y \in Glue!InList
    BY <1>4, <2>1
  <2>2. CASE y \notin Glue!InList
    <3>1. left[y] = NULL /\ (y # "head" => right[y] = NULL)
      BY <1>1, <1>2, <2>2 DEF Linked, GlueAll
    <3> QED BY <1>4, <2>2, <3>1
  <2> QED BY <2>1, <2>2
<1>6. lg \in [GlueAll -> GlueAll \cup {NULL}] /\ rg \in [GlueAll -> GlueAll \cup {NULL}]
  BY <1>4, <1>5
<1>7. PICK t : t = [i \in 1..0 |-> NULL]
  OBVIOUS
<1>8. t \in [1..0 -> Nodes] /\ Linked(0, t, lg, rg)
  BY <1>5, <1>7 DEF Linked, Chain, GlueAll
<1>9. HangsBehind(t)'
  BY <1>3, <1>8, GlueContentNext
<1>10. t = <<>>
  <2>1. t \in Seq(Nodes) /\ Len(t) = 0
    BY <1>8, Sequence
  <2> QED BY <2>1, EmptySeq
<1> QED BY <1>3, <1>6, <1>8, <1>9, <1>10 DEF IsGlued, GlueDone, HangsBehind

\* Every call does to the sequence of nodes what it is to do.
LEMMA GlueKeeps ==
    GlueInv /\ [Glue!Next]_Glue!vars
    => /\ GlueInv'
       /\ [Glue!CallDoes(glthread_call'.name, glthread_call'.node, glthread_call'.at)]_Glue!vars
<1> SUFFICES ASSUME GlueInv, [Glue!Next]_Glue!vars
             PROVE  /\ GlueInv'
                    /\ [Glue!CallDoes(glthread_call'.name, glthread_call'.node,
                                      glthread_call'.at)]_Glue!vars
  OBVIOUS
<1>1. CASE UNCHANGED Glue!vars
  BY <1>1 DEF Glue!vars, GlueInv, GlueTyped, IsGlued
<1>2. CASE Glue!Next
  <2>0. PICK n \in Nat : \E s \in [1..n -> Nodes] : Linked(n, s, left, right)
    BY DEF GlueInv, IsGlued
  <2>1. PICK s \in [1..n -> Nodes] : Linked(n, s, left, right)
    BY <2>0
  <2>2. \A x : x \in Glue!InList <=> \E i \in 1..n : s[i] = x
    BY <2>1, GlueInList DEF GlueInv
  <2>3. key' = key /\ glthread_call'.node \in Nodes \cup {NULL}
    BY <1>2 DEF Glue!Next, Glue!Called, GlueInv, GlueTyped
  <2>4. PICK nm, nd, at :
            nm = glthread_call'.name /\ nd = glthread_call'.node /\ at = glthread_call'.at
    OBVIOUS
  <2>5. ASSUME NEW x \in Nodes \ Glue!InList, NEW k \in 0..n, Glue!AddNext(GluePlace(s, k), x)
        PROVE  GlueDone /\ GlueGrows(k, x)
    BY <2>1, <2>2, <2>5, GlueAddsNext DEF GlueInv
  <2>6. ASSUME NEW k \in 0..n, NEW x \in Nodes, GlueGrows(k, x)
        PROVE  /\ Glue!content' = Inserted(Glue!content, k, x)
               /\ k = n => Glue!content' = Append(Glue!content, x)
    <3>1. PICK c, d \in Seq(Nodes) :
              /\ c = Glue!content /\ d = Glue!content' /\ k \in 0..Len(c)
              /\ Len(d) = Len(c) + 1 /\ IsWith(d, c, Len(c), k, x)
      BY <2>6 DEF GlueGrows
    <3>2. d = Inserted(c, k, x)
      BY <3>1, WithIsInserted, Zenon
    <3>3. Len(c) = n
      BY <2>1, <3>1, GlueContent
    <3>4. ASSUME k = n PROVE d = Append(c, x)
      <4>1. IsWith(d, c, Len(c), Len(c), x)
        BY <3>1, <3>3, <3>4, Zenon
      <4> QED BY <3>1, <4>1, WithLast, Zenon
    <3> QED BY <3>1, <3>2, <3>4
  <2>7. ASSUME NEW x \in Nodes \ Glue!InList, NEW c \in Glue!InList \cup {Glue!HEAD},
               Glue!AddNext(c, x), nm = "add_next", nd = x, at = c
        PROVE  GlueDone /\ Glue!CallDoes(nm, nd, at)
    <3>1. PICK k \in 0..n : c = GluePlace(s, k)
      BY <2>2 DEF GluePlace, Glue!HEAD
    <3>2. GlueDone /\ GlueGrows(k, x)
      BY <2>5, <2>7, <3>1
    <3>3. Glue!Index(c) = k
      BY <2>1, <3>1, GlueIndex
    <3>4. Glue!content' = Inserted(Glue!content, k, x)
      BY <2>6, <3>2
    <3>5. Glue!SX!InsertAt(Glue!content, k + 1, x) = Inserted(Glue!content, k, x)
      <4>1. (k + 1) - 1 = k
        OBVIOUS
      <4> QED BY <4>1, Zenon DEF Glue!SX!InsertAt, Inserted, Front, Rear
    <3> QED BY <2>7, <3>2, <3>3, <3>4, <3>5 DEF Glue!CallDoes
  <2>8. ASSUME NEW x \in Nodes \ Glue!InList, NEW c \in Glue!InList,
               Glue!AddBefore(c, x), nm = "add_before", nd = x, at = c
        PROVE  GlueDone /\ Glue!CallDoes(nm, nd, at)
    <3>1. PICK k \in 1..n : c = s[k]
      BY <2>2
    <3>2. Glue!AddNext(GluePlace(s, k - 1), x)
      BY <2>1, <2>8, <3>1, GlueAddsBefore DEF GlueInv
    <3>3. k - 1 \in 0..n /\ k \in 0..n /\ GluePlace(s, k) = c /\ (k - 1) + 1 = k
      BY <3>1 DEF GluePlace
    <3>4. GlueDone /\ GlueGrows(k - 1, x)
      BY <2>5, <3>2, <3>3
    <3>5. Glue!Index(c) = k
      BY <2>1, <3>3, GlueIndex
    <3>6. Glue!content' = Inserted(Glue!content, k - 1, x)
      BY <2>6, <3>3, <3>4
    <3>7. Glue!SX!InsertAt(Glue!content, k, x) = Inserted(Glue!content, k - 1, x)
      BY <3>3, Zenon DEF Glue!SX!InsertAt, Inserted, Front, Rear
    <3> QED BY <2>8, <3>4, <3>5, <3>6, <3>7 DEF Glue!CallDoes
  <2>9. ASSUME NEW x \in Nodes \ Glue!InList, Glue!AddLast(x), nm = "add_last", nd = x
        PROVE  GlueDone /\ Glue!CallDoes(nm, nd, at)
    <3>1. Glue!AddNext(GluePlace(s, n), x) /\ n \in 0..n
      BY <2>1, <2>9, GlueLastPlace
    <3>2. GlueDone /\ GlueGrows(n, x)
      BY <2>5, <3>1
    <3>3. Glue!content' = Append(Glue!content, x)
      BY <2>6, <3>1, <3>2
    <3> QED BY <2>9, <3>2, <3>3 DEF Glue!CallDoes
  <2>10. ASSUME NEW x \in Nodes \ Glue!InList, Glue!PriorityInsert(x),
                nm = "priority_insert", nd = x
         PROVE  GlueDone /\ Glue!CallDoes(nm, nd, at)
    <3>1. PICK k \in 0..n : Glue!AddNext(GluePlace(s, k), x) /\ KeepsKeys(k, n, s, x)
      BY <2>1, <2>10, GluePriorityPlace DEF GlueInv
    <3>2. GlueDone /\ GlueGrows(k, x)
      BY <2>5, <3>1
    <3>3. GlueSorts(x)
      BY <2>1, <2>2, <3>1, <3>2, GlueInOrder DEF GlueInv
    <3> QED BY <2>10, <3>2, <3>3 DEF GlueSorts, Glue!CallDoes
  <2>11. ASSUME NEW x \in Nodes, Glue!Remove(x), nm = "remove", nd = x
         PROVE  GlueDone /\ Glue!CallDoes(nm, nd, at)
    <3>1. GlueDone /\ IF x \in Glue!InList THEN GlueShrinks(Glue!Index(x)) ELSE GlueStays
      BY <2>11, GlueTakesOut
    <3>2. Glue!content' = IF x \in Glue!InList
                          THEN Glue!SX!RemoveAt(Glue!content, Glue!Index(x)) ELSE Glue!content
      <4>1. CASE x \in Glue!InList
        <5>1. PICK k : k = Glue!Index(x)
          OBVIOUS
        <5>2. PICK c, d \in Seq(Nodes) :
                  /\ c = Glue!content /\ d = Glue!content' /\ k \in 1..Len(c)
                  /\ Len(d) = Len(c) - 1 /\ IsWithout(d, c, Len(c), k)
          BY <3>1, <4>1, <5>1 DEF GlueShrinks
        <5>3. d = Removed(c, k)
          BY <5>2, WithoutIsRemoved, Zenon
        <5>4. Glue!SX!RemoveAt(c, k) = Removed(c, k)
          BY DEF Glue!SX!RemoveAt, Removed, Front, Rear
        <5> QED BY <4>1, <5>1, <5>2, <5>3, <5>4
      <4>2. CASE x \notin Glue!InList
        BY <3>1, <4>2 DEF GlueStays
      <4> QED BY <4>1, <4>2
    <3> QED BY <2>11, <3>1, <3>2 DEF Glue!CallDoes
  <2>12. ASSUME Glue!DequeueFirst, nm = "dequeue"
         PROVE  GlueDone /\ Glue!CallDoes(nm, nd, at)
    <3>0. Glue!content = s /\ Len(s) = n
      BY <2>1, GlueContent
    <3>1. CASE n = 0
      <4>1. right["head"] = NULL
        BY <2>1, <3>1 DEF Linked, Chain
      <4>2. left' = left /\ right' = right
        BY <2>12, <4>1 DEF Glue!DequeueFirst, Glue!HEAD
      <4>3. GlueDone /\ GlueStays
        BY <4>2, GlueUnchanged
      <4>4. Glue!content = <<>>
        BY <3>0, <3>1
      <4> QED BY <2>12, <4>3, <4>4 DEF GlueStays, Glue!CallDoes
    <3>2. CASE n # 0
      <4>1. right["head"] = s[1] /\ s[1] \in Nodes /\ 1 \in 1..n
        BY <2>1, <3>2 DEF Linked, Chain
      <4>2. Glue!Remove(s[1])
        BY <2>12, <4>1, NodesAssumption DEF Glue!DequeueFirst, Glue!HEAD
      <4>3. GlueDone /\ GlueShrinks(1)
        BY <2>1, <4>1, <4>2, GlueUnlinks DEF GlueInv
      <4>4. PICK c, d \in Seq(Nodes) :
                /\ c = Glue!content /\ d = Glue!content'
                /\ Len(d) = Len(c) - 1 /\ IsWithout(d, c, Len(c), 1)
        BY <4>3 DEF GlueShrinks
      <4>5. c # <<>>
        BY <3>0, <3>2, <4>4
      <4>6. d = Tail(c)
        BY <4>4, <4>5, WithoutFirstIsTail, Zenon
      <4> QED BY <2>12, <4>3, <4>4, <4>5, <4>6 DEF Glue!CallDoes
    <3> QED BY <3>1, <3>2
  <2>13. ASSUME Glue!DeleteList, nm = "delete_list"
         PROVE  GlueDone /\ Glue!CallDoes(nm, nd, at)
    BY <2>13, GlueEmpties DEF Glue!CallDoes
  <2>14. GlueDone /\ Glue!CallDoes(nm, nd, at)
    BY <1>2, <2>4, <2>7, <2>8, <2>9, <2>10, <2>11, <2>12, <2>13 DEF Glue!Next, Glue!Called
  <2>15. GlueInv'
    BY <2>3, <2>14 DEF GlueInv, GlueTyped, GlueDone
  <2>16. Glue!CallDoes(glthread_call'.name, glthread_call'.node, glthread_call'.at)
    BY <2>4, <2>14, Zenon
  <2> QED BY <2>15, <2>16
<1> QED BY <1>1, <1>2

\* The doubly linked glue keeps its invariant in every behaviour.
LEMMA GlueAlways == Glue!Spec => []GlueInv
BY GlueStarts, GlueKeeps, PTL DEF Glue!Spec

\* The links agree in both directions, and a node off the list has none.
LEMMA GlueIsLinked == GlueInv => Glue!TypeOK /\ Glue!WellLinked
<1> SUFFICES ASSUME GlueInv PROVE Glue!TypeOK /\ Glue!WellLinked
  OBVIOUS
<1> USE NodesAssumption
<1>0. PICK n \in Nat : \E s \in [1..n -> Nodes] : Linked(n, s, left, right)
  BY DEF GlueInv, IsGlued
<1>1. PICK s \in [1..n -> Nodes] : Linked(n, s, left, right)
  BY <1>0
<1>2. \A x : x \in Glue!InList <=> \E i \in 1..n : s[i] = x
  BY <1>1, GlueInList DEF GlueInv
<1>3. Glue!TypeOK
  BY DEF GlueInv, GlueTyped, Glue!TypeOK, Glue!All, Glue!HEAD, GlueAll
<1>4. left[Glue!HEAD] = NULL
  BY <1>1 DEF Linked, Glue!HEAD
<1>5. ASSUME NEW x \in Nodes \ Glue!InList PROVE left[x] = NULL /\ right[x] = NULL
  BY <1>1, <1>2 DEF Linked
<1>6. ASSUME NEW x \in Glue!InList
      PROVE  right[left[x]] = x /\ (right[x] # NULL => left[right[x]] = x)
  <2>1. PICK i \in 1..n : s[i] = x
    BY <1>2
  <2>2. right[left[x]] = x
    <3>1. CASE i = 1
      BY <1>1, <2>1, <3>1 DEF Linked, Chain
    <3>2. CASE i # 1
      <4>1. i - 1 \in 1..n /\ i - 1 # n /\ (i - 1) + 1 = i /\ left[x] = s[i - 1]
        BY <1>1, <2>1, <3>2 DEF Linked
      <4> QED BY <1>1, <2>1, <4>1 DEF Linked, Chain
    <3> QED BY <3>1, <3>2
  <2>3. ASSUME right[x] # NULL PROVE left[right[x]] = x
    <3>1. i # n /\ right[x] = s[i + 1]
      BY <1>1, <2>1, <2>3 DEF Linked, Chain
    <3>2. i + 1 \in 1..n /\ i + 1 # 1 /\ (i + 1) - 1 = i
      BY <3>1
    <3> QED BY <1>1, <2>1, <3>1, <3>2 DEF Linked
  <2> QED BY <2>2, <2>3
<1>7. Glue!WellLinked
  BY <1>4, <1>5, <1>6 DEF Glue!WellLinked
<1> QED BY <1>3, <1>7
=============================================================================
