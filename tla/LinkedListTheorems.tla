------------------------- MODULE LinkedListTheorems -------------------------
(***************************************************************************)
(* What a linked list is, node by node, and what the queues of both        *)
(* programs do to it, for any number of nodes and packets: the sequence of *)
(* its nodes is the one Chain finds, and remains a list when a node is     *)
(* inserted, when the first one is removed, and when all are freed.        *)
(***************************************************************************)
EXTENDS LinkedList, Integers, FiniteSetTheorems, SequenceTheorems,
        WellFoundedInduction, TLAPS

(* The pointer to the node at index k, NULL past the last.                 *)
Pointer(c, k) == IF k \in 1 .. Len(c) THEN c[k] ELSE NULL

(* The nodes of c, from head on, are the list: each points to the next and *)
(* has a packet of its own, and nothing else is allocated.                 *)
IsList(head, size, node, pkt, c) ==
  /\ c \in Seq(Nodes) /\ Len(c) = size /\ head = Pointer(c, 1)
  /\ \A k \in 1 .. Len(c) :
       node[c[k]] \in Cells /\ node[c[k]].next = Pointer(c, k + 1)
  /\ \A i, j \in 1 .. Len(c) : c[i] = c[j] => i = j
  /\ \A i, j \in 1 .. Len(c) : node[c[i]].pkt = node[c[j]].pkt => i = j
  /\ \A a \in Nodes : node[a] # FREE <=> \E k \in 1 .. Len(c) : c[k] = a
  /\ \A a \in Packets :
       pkt[a] # FREE <=> \E k \in 1 .. Len(c) : node[c[k]].pkt = a

ListOf(q, c) == IsList(q.head, q.size, q.node, q.pkt, c)

-----------------------------------------------------------------------------
(* A nonempty set of natural numbers has a smallest element. *)
LEMMA Smallest ==
  ASSUME NEW S, S \subseteq Nat, S # {}
  PROVE  \E x \in S : \A y \in S : x <= y
<1> DEFINE R == {ss \in Nat \X Nat : ss[1] < ss[2]}
<1>1. IsWellFoundedOn(R, Nat)
  BY NatLessThanWellFounded, Zenon DEF OpToRel
<1>2. \E x \in S : \A y \in S : ~ (<<y, x>> \in R)
  <2> HIDE DEF R
  <2> QED  BY <1>1, WFMin
<1>3. PICK x \in S : \A y \in S : ~ (<<y, x>> \in R)
  BY <1>2
<1>4. \A y \in S : x =< y
  <2> SUFFICES ASSUME NEW y \in S  PROVE x =< y  OBVIOUS
  <2>1. ~ (y < x)  BY <1>3
  <2> QED  BY <2>1
<1> QED  BY <1>4

(* There are no more nodes in a list than there are addresses. *)
LEMMA Short ==
  ASSUME NEW c \in Seq(Nodes),
         \A i, j \in 1 .. Len(c) : c[i] = c[j] => i = j
  PROVE  /\ Cardinality(Nodes) \in Nat /\ Len(c) \in Nat
         /\ Len(c) <= Cardinality(Nodes)
<1>1. IsFiniteSet(Nodes)  BY LinkedListAssumption
<1>2. Cardinality(Nodes) \in Nat  BY <1>1, FS_CardinalityType
<1>3. Len(c) \in Nat /\ c \in [1 .. Len(c) -> Nodes]  BY LenProperties
<1>4. c \in Injection(1 .. Len(c), Nodes)
  BY <1>3 DEF Injection, IsInjective
<1>5. Cardinality(1 .. Len(c)) <= Cardinality(Nodes)
  BY <1>1, <1>4, FS_Injection
<1>6. Cardinality(1 .. Len(c)) = Len(c)
  <2>1. 1 \in Int /\ Len(c) \in Int  BY <1>3
  <2>2. Cardinality(1 .. Len(c)) = IF 1 > Len(c) THEN 0 ELSE Len(c) - 1 + 1
    BY <2>1, FS_Interval
  <2> QED  BY <1>3, <2>2
<1> QED  BY <1>2, <1>3, <1>5, <1>6

(* The walk from head on meets the nodes of the list, then NULL. *)
LEMMA WalkIs ==
  ASSUME NEW q, NEW c, ListOf(q, c)
  PROVE  Walk(q) = [k \in 1 .. Cardinality(Nodes) + 1 |-> Pointer(c, k)]
<1> DEFINE N == Cardinality(Nodes)
           g == [k \in 1 .. N + 1 |-> Pointer(c, k)]
           Eq(at) == at = [k \in 1 .. N + 1 |->
                             IF k = 1 THEN q.head ELSE After(q)[at[k - 1]]]
<1>1. c \in Seq(Nodes) /\ \A i, j \in 1 .. Len(c) : c[i] = c[j] => i = j
  BY DEF ListOf, IsList
<1>2. N \in Nat /\ Len(c) \in Nat /\ Len(c) <= N  BY <1>1, Short
<1>3. \A k \in 2 .. N + 1 : Pointer(c, k) = After(q)[Pointer(c, k - 1)]
  <2> SUFFICES ASSUME NEW k \in 2 .. N + 1
               PROVE  Pointer(c, k) = After(q)[Pointer(c, k - 1)]
    OBVIOUS
  <2>1. k \in Nat /\ k - 1 \in Nat /\ k - 1 >= 1 /\ (k - 1) + 1 = k  BY <1>2
  <2>2. CASE k - 1 <= Len(c)
    <3>1. k - 1 \in 1 .. Len(c)  BY <1>2, <2>1, <2>2
    <3>2. Pointer(c, k - 1) = c[k - 1] /\ c[k - 1] \in Nodes
      BY <1>1, <3>1, ElementOfSeq DEF Pointer
    <3>3. /\ q.node[c[k - 1]] \in Cells
          /\ q.node[c[k - 1]].next = Pointer(c, k)
      BY <2>1, <3>1 DEF ListOf, IsList
    <3>4. q.node[c[k - 1]] # FREE /\ c[k - 1] # NULL
      BY <3>2, <3>3, LinkedListAssumption
    <3> QED  BY <3>2, <3>3, <3>4 DEF After
  <2>3. CASE k - 1 > Len(c)
    <3>1. ~ (k - 1 \in 1 .. Len(c)) /\ ~ (k \in 1 .. Len(c))
      BY <1>2, <2>1, <2>3
    <3> QED  BY <3>1 DEF Pointer, After
  <2> QED  BY <1>2, <2>1, <2>2, <2>3
<1>4. Eq(g)
  <2> DEFINE h == [k \in 1 .. N + 1 |->
                     IF k = 1 THEN q.head ELSE After(q)[g[k - 1]]]
  <2>1. \A k \in 1 .. N + 1 : g[k] = h[k]
    <3> SUFFICES ASSUME NEW k \in 1 .. N + 1  PROVE g[k] = h[k]  OBVIOUS
    <3>1. CASE k = 1
      <4>1. q.head = Pointer(c, 1)  BY DEF ListOf, IsList
      <4> QED  BY <3>1, <4>1
    <3>2. CASE k # 1
      <4>1. k \in 2 .. N + 1 /\ k - 1 \in 1 .. N + 1  BY <1>2, <3>2
      <4>2. g[k - 1] = Pointer(c, k - 1)  BY <4>1
      <4> QED  BY <1>3, <3>2, <4>1, <4>2
    <3> QED  BY <3>1, <3>2
  <2>2. g = h  BY <2>1
  <2> QED  BY <2>2
<1>5. Walk(q) = CHOOSE at : Eq(at)  BY DEF Walk
<1>6. Eq(Walk(q))
  <2> HIDE DEF Eq, g
  <2> QED  BY <1>4, <1>5
<1> DEFINE w == Walk(q)
           bad == {k \in 1 .. N + 1 : w[k] # g[k]}
<1>7. bad = {}
  <2> SUFFICES ASSUME bad # {}  PROVE FALSE  OBVIOUS
  <2>1. bad \subseteq Nat  BY <1>2
  <2>2. PICK k \in bad : \A y \in bad : k <= y
    <3> HIDE DEF bad
    <3> QED  BY <2>1, Smallest
  <2>3. k \in 1 .. N + 1 /\ w[k] # g[k]  BY <2>2
  <2>4. /\ w[k] = IF k = 1 THEN q.head ELSE After(q)[w[k - 1]]
        /\ g[k] = IF k = 1 THEN q.head ELSE After(q)[g[k - 1]]
    <3> HIDE DEF w, g
    <3> QED  BY <1>4, <1>6, <2>3 DEF Eq, w
  <2>5. k # 1  BY <2>3, <2>4
  <2>6. k - 1 \in 1 .. N + 1 /\ ~ (k <= k - 1)  BY <1>2, <2>3, <2>5
  <2>7. ~ (k - 1 \in bad)  BY <2>2, <2>6
  <2>8. w[k - 1] = g[k - 1]
    <3> HIDE DEF w, g
    <3> QED  BY <2>6, <2>7
  <2> HIDE DEF w, g
  <2> QED  BY <2>3, <2>4, <2>5, <2>8
<1>8. w = g
  <2>1. /\ w = [k \in 1 .. N + 1 |-> w[k]]
        /\ g = [k \in 1 .. N + 1 |-> g[k]]
    <3> HIDE DEF w
    <3> QED  BY <1>6 DEF w, Eq
  <2>2. \A k \in 1 .. N + 1 : w[k] = g[k]  BY <1>7
  <2> HIDE DEF w, g
  <2> QED  BY <2>1, <2>2
<1> QED  BY <1>8

(* Chain finds the nodes of the list. *)
LEMMA ChainIs ==
  ASSUME NEW q, NEW c, ListOf(q, c)
  PROVE  Chain(q) = c
<1> DEFINE N == Cardinality(Nodes)
           at == Walk(q)
           S == {k \in DOMAIN at : at[k] # NULL}
<1>1. c \in Seq(Nodes) /\ \A i, j \in 1 .. Len(c) : c[i] = c[j] => i = j
  BY DEF ListOf, IsList
<1>2. N \in Nat /\ Len(c) \in Nat /\ Len(c) <= N  BY <1>1, Short
<1>3. at = [k \in 1 .. N + 1 |-> Pointer(c, k)]  BY WalkIs
<1> HIDE DEF at
<1>4. S = 1 .. Len(c)
  <2>1. DOMAIN at = 1 .. N + 1  BY <1>3
  <2>2. \A k \in 1 .. N + 1 : at[k] # NULL <=> k \in 1 .. Len(c)
    <3> SUFFICES ASSUME NEW k \in 1 .. N + 1
                 PROVE  at[k] # NULL <=> k \in 1 .. Len(c)
      OBVIOUS
    <3>1. at[k] = Pointer(c, k)  BY <1>3
    <3>2. k \in 1 .. Len(c) => c[k] \in Nodes  BY <1>1, ElementOfSeq
    <3> QED  BY <3>1, <3>2, LinkedListAssumption DEF Pointer
  <2>3. 1 .. Len(c) \subseteq 1 .. N + 1  BY <1>2
  <2> QED  BY <2>1, <2>2, <2>3
<1>5. Cardinality(S) = Len(c)
  <2>1. 1 \in Int /\ Len(c) \in Int  BY <1>2
  <2>2. Cardinality(1 .. Len(c)) = IF 1 > Len(c) THEN 0 ELSE Len(c) - 1 + 1
    BY <2>1, FS_Interval
  <2>3. Cardinality(1 .. Len(c)) = Len(c)  BY <1>2, <2>2
  <2> HIDE DEF S
  <2> QED  BY <1>4, <2>3
<1>6. Chain(q) = [k \in 1 .. Len(c) |-> at[k]]
  <2>1. Chain(q) = [k \in 1 .. Cardinality(S) |-> at[k]]
    BY DEF Chain, at
  <2> QED  BY <1>5, <2>1
<1>7. \A k \in 1 .. Len(c) : at[k] = c[k]
  <2>1. 1 .. Len(c) \subseteq 1 .. N + 1  BY <1>2
  <2> QED  BY <1>3, <2>1 DEF Pointer
<1>8. c = [k \in 1 .. Len(c) |-> c[k]]  BY <1>1, LenProperties
<1> QED  BY <1>6, <1>7, <1>8

(* A list is what WellFormedList asks for. *)
LEMMA ListWellFormed ==
  ASSUME NEW q, NEW c, ListOf(q, c), q.node \in [Nodes -> Cells \cup {FREE}]
  PROVE  WellFormedList(q)
<1>1. Chain(q) = c  BY ChainIs
<1>2. /\ c \in Seq(Nodes) /\ Len(c) \in Nat /\ Len(c) = q.size
      /\ DOMAIN c = 1 .. Len(c)
  BY LenProperties DEF ListOf, IsList
<1>3. \A k \in 1 .. Len(c) :
        c[k] \in Nodes /\ q.node[c[k]] \in Cells /\ q.node[c[k]].pkt \in Packets
  BY <1>2, ElementOfSeq DEF ListOf, IsList, Cells
<1>4. IsInjective(c)  BY <1>2 DEF IsInjective, ListOf, IsList
<1>5. {a \in Nodes : q.node[a] # FREE} = Range(c)
  BY <1>2, <1>3 DEF Range, ListOf, IsList
<1> DEFINE held == {q.node[a].pkt : a \in Range(c)}
<1>6. {a \in Packets : q.pkt[a] # FREE} = held
  <2>1. held = {q.node[c[k]].pkt : k \in 1 .. Len(c)}  BY <1>2 DEF Range
  <2>2. \A a \in Packets :
          q.pkt[a] # FREE <=> \E k \in 1 .. Len(c) : q.node[c[k]].pkt = a
    BY DEF ListOf, IsList
  <2> HIDE DEF held
  <2> QED  BY <1>3, <2>1, <2>2
<1>7. Cardinality(held) = Len(c)
  <2> DEFINE f == [k \in 1 .. Len(c) |-> q.node[c[k]].pkt]
  <2>1. held = {f[k] : k \in 1 .. Len(c)}  BY <1>2 DEF Range
  <2>2. \A i, j \in 1 .. Len(c) : f[i] = f[j] => i = j
    BY DEF ListOf, IsList
  <2>3. f \in [1 .. Len(c) -> held]  BY <2>1
  <2> HIDE DEF held, f
  <2>4. f \in Bijection(1 .. Len(c), held)
    BY <2>1, <2>2, <2>3 DEF Bijection, Injection, Surjection, IsInjective
  <2>5. ExistsBijection(1 .. Len(c), held)
    BY <2>4 DEF ExistsBijection
  <2> QED  BY <1>2, <2>5, FS_CountingElements
<1> HIDE DEF held
<1>8. WellFormedList(q)
       <=> /\ Len(c) = q.size /\ IsInjective(c)
           /\ {a \in Nodes : q.node[a] # FREE} = Range(c)
           /\ {a \in Packets : q.pkt[a] # FREE} = held
           /\ Cardinality(held) = q.size
  BY <1>1 DEF WellFormedList, held
<1> QED  BY <1>2, <1>4, <1>5, <1>6, <1>7, <1>8

-----------------------------------------------------------------------------
(* The sequence c with x at index i, and what follows moved up by one.     *)
Inserted(c, i, x) ==
  [k \in 1 .. Len(c) + 1 |->
     IF k < i THEN c[k] ELSE IF k = i THEN x ELSE c[k - 1]]

LEMMA InsertedIs ==
  ASSUME NEW T, NEW c \in Seq(T), NEW x \in T, NEW i \in 1 .. Len(c) + 1
  PROVE  /\ Inserted(c, i, x) \in Seq(T)
         /\ Len(Inserted(c, i, x)) = Len(c) + 1
         /\ Len(c) \in Nat
         /\ \A k \in 1 .. Len(c) + 1 :
              Inserted(c, i, x)[k] = IF k < i THEN c[k]
                                     ELSE IF k = i THEN x ELSE c[k - 1]
<1>1. Len(c) \in Nat  BY LenProperties
<1>2. \A k \in 1 .. Len(c) + 1 :
        (IF k < i THEN c[k] ELSE IF k = i THEN x ELSE c[k - 1]) \in T
  <2> SUFFICES ASSUME NEW k \in 1 .. Len(c) + 1
               PROVE  (IF k < i THEN c[k] ELSE IF k = i THEN x ELSE c[k - 1])
                        \in T
    OBVIOUS
  <2>1. CASE k < i
    <3>1. k \in 1 .. Len(c)  BY <1>1, <2>1
    <3> QED  BY <2>1, <3>1, ElementOfSeq
  <2>2. CASE k = i  BY <2>2
  <2>3. CASE k > i
    <3>1. k - 1 \in 1 .. Len(c)  BY <1>1, <2>3
    <3> QED  BY <1>1, <2>3, <3>1, ElementOfSeq
  <2> QED  BY <1>1, <2>1, <2>2, <2>3
<1>3. Len(c) + 1 \in Nat  BY <1>1
<1>4. Inserted(c, i, x) \in [1 .. Len(c) + 1 -> T]
  BY <1>2 DEF Inserted
<1>5. Inserted(c, i, x) \in Seq(T)  BY <1>3, <1>4, IsASeq DEF Inserted
<1>6. DOMAIN Inserted(c, i, x) = 1 .. Len(c) + 1  BY DEF Inserted
<1>7. Len(Inserted(c, i, x)) = Len(c) + 1
  BY <1>3, <1>5, <1>6, LenProperties
<1> QED  BY <1>1, <1>5, <1>7 DEF Inserted

(* A list stays one when a free node with a free packet is inserted in it, *)
(* and the pointer to its successor, or head, becomes the pointer to it.   *)
LEMMA ListInsert ==
  ASSUME NEW head, NEW size, NEW node, NEW pkt, NEW c,
         IsList(head, size, node, pkt, c),
         NEW new \in Nodes, node[new] = FREE,
         NEW p \in Packets, pkt[p] = FREE,
         NEW i \in 1 .. Len(c) + 1,
         NEW head2, head2 = (IF i = 1 THEN new ELSE head),
         NEW node2, node2[new] = [pkt |-> p, next |-> Pointer(c, i)],
         i > 1 => node2[c[i - 1]] = [node[c[i - 1]] EXCEPT !.next = new],
         \A a \in Nodes :
           a # new /\ (i = 1 \/ a # c[i - 1]) => node2[a] = node[a],
         NEW pkt2, pkt2[p] # FREE, \A a \in Packets : a # p => pkt2[a] = pkt[a]
  PROVE  IsList(head2, size + 1, node2, pkt2, Inserted(c, i, new))
<1> DEFINE d == Inserted(c, i, new)
<1>1. /\ c \in Seq(Nodes) /\ Len(c) = size /\ head = Pointer(c, 1)
      /\ \A k \in 1 .. Len(c) : /\ node[c[k]] \in Cells
                                /\ node[c[k]].next = Pointer(c, k + 1)
      /\ \A k, l \in 1 .. Len(c) : c[k] = c[l] => k = l
      /\ \A k, l \in 1 .. Len(c) : node[c[k]].pkt = node[c[l]].pkt => k = l
      /\ \A a \in Nodes : node[a] # FREE <=> \E k \in 1 .. Len(c) : c[k] = a
      /\ \A a \in Packets :
           pkt[a] # FREE <=> \E k \in 1 .. Len(c) : node[c[k]].pkt = a
  BY DEF IsList
<1>2. /\ d \in Seq(Nodes) /\ Len(d) = Len(c) + 1 /\ Len(c) \in Nat
      /\ \A k \in 1 .. Len(c) + 1 :
           d[k] = IF k < i THEN c[k] ELSE IF k = i THEN new ELSE c[k - 1]
  <2>1. c \in Seq(Nodes)  BY <1>1
  <2> HIDE DEF d
  <2>2. /\ Inserted(c, i, new) \in Seq(Nodes)
        /\ Len(Inserted(c, i, new)) = Len(c) + 1 /\ Len(c) \in Nat
        /\ \A k \in 1 .. Len(c) + 1 :
             Inserted(c, i, new)[k] = IF k < i THEN c[k]
                                      ELSE IF k = i THEN new ELSE c[k - 1]
    BY <2>1, InsertedIs, SMTT(30)
  <2> QED  BY <2>2 DEF d
<1> HIDE DEF d
<1>3. \A k \in 1 .. Len(c) :
        c[k] \in Nodes /\ c[k] # new /\ node[c[k]].pkt # p
  <2>1. \A k \in 1 .. Len(c) : c[k] \in Nodes  BY <1>1, ElementOfSeq
  <2> QED  BY <1>1, <2>1
<1>4. \A k \in 1 .. Len(c) : /\ node2[c[k]] \in Cells
                            /\ node2[c[k]].pkt = node[c[k]].pkt
                            /\ node2[c[k]].next =
                                 IF k = i - 1 THEN new ELSE node[c[k]].next
  <2> SUFFICES ASSUME NEW k \in 1 .. Len(c)
               PROVE  /\ node2[c[k]] \in Cells
                      /\ node2[c[k]].pkt = node[c[k]].pkt
                      /\ node2[c[k]].next =
                           IF k = i - 1 THEN new ELSE node[c[k]].next
    OBVIOUS
  <2>1. CASE k = i - 1
    <3>1. node2[c[k]] = [node[c[k]] EXCEPT !.next = new]
      BY <1>2, <2>1
    <3>2. node[c[k]] \in [pkt : Packets, next : Nodes \cup {NULL}]
      BY <1>1 DEF Cells
    <3> QED  BY <2>1, <3>1, <3>2 DEF Cells
  <2>2. CASE k # i - 1
    <3>1. i = 1 \/ c[k] # c[i - 1]
      <4>1. i = 1 \/ i - 1 \in 1 .. Len(c)  BY <1>2
      <4> QED  BY <1>1, <2>2, <4>1
    <3>2. node2[c[k]] = node[c[k]]  BY <1>3, <3>1
    <3> QED  BY <1>1, <2>2, <3>2
  <2> QED  BY <2>1, <2>2
<1>5. \A k \in 1 .. Len(d) :
        node2[d[k]] \in Cells /\ node2[d[k]].next = Pointer(d, k + 1)
  <2> SUFFICES ASSUME NEW k \in 1 .. Len(c) + 1
               PROVE  /\ node2[d[k]] \in Cells
                      /\ node2[d[k]].next = Pointer(d, k + 1)
    BY <1>2
  <2>1. CASE k < i
    <3>1. k \in 1 .. Len(c) /\ d[k] = c[k] /\ k + 1 \in 1 .. Len(c) + 1
      BY <1>2, <2>1
    <3>2. Pointer(d, k + 1) = IF k = i - 1 THEN new ELSE c[k + 1]
      BY <1>2, <2>1, <3>1 DEF Pointer
    <3>3. k # i - 1 => k + 1 \in 1 .. Len(c)  BY <1>2, <2>1, <3>1
    <3>4. k # i - 1 => node[c[k]].next = c[k + 1]
      BY <1>1, <3>1, <3>3 DEF Pointer
    <3> QED  BY <1>4, <3>1, <3>2, <3>4
  <2>2. CASE k = i
    <3>1. d[k] = new  BY <1>2, <2>2
    <3>2. Pointer(d, k + 1) = Pointer(c, k)
      <4>1. k + 1 \in 1 .. Len(c) + 1 <=> k \in 1 .. Len(c)  BY <1>2
      <4>2. k + 1 \in 1 .. Len(c) + 1 => d[k + 1] = c[k]
        BY <1>2, <2>2
      <4> QED  BY <1>2, <4>1, <4>2 DEF Pointer
    <3>3. Pointer(c, k) \in Nodes \cup {NULL}
      BY <1>3 DEF Pointer
    <3> QED  BY <2>2, <3>1, <3>2, <3>3 DEF Cells
  <2>3. CASE k > i
    <3>1. k - 1 \in 1 .. Len(c) /\ d[k] = c[k - 1] /\ k - 1 # i - 1
      BY <1>2, <2>3
    <3>2. Pointer(d, k + 1) = Pointer(c, (k - 1) + 1)
      <4>1. k + 1 \in 1 .. Len(c) + 1 <=> (k - 1) + 1 \in 1 .. Len(c)
        BY <1>2
      <4>2. k + 1 \in 1 .. Len(c) + 1 => d[k + 1] = c[(k - 1) + 1]
        BY <1>2, <2>3
      <4> QED  BY <1>2, <4>1, <4>2 DEF Pointer
    <3> QED  BY <1>1, <1>4, <3>1, <3>2
  <2> QED  BY <1>2, <2>1, <2>2, <2>3
<1>6. \A k \in 1 .. Len(c) + 1 :
        node2[d[k]].pkt = IF k < i THEN node[c[k]].pkt
                          ELSE IF k = i THEN p ELSE node[c[k - 1]].pkt
  <2> SUFFICES ASSUME NEW k \in 1 .. Len(c) + 1
               PROVE  node2[d[k]].pkt =
                        IF k < i THEN node[c[k]].pkt
                        ELSE IF k = i THEN p ELSE node[c[k - 1]].pkt
    OBVIOUS
  <2>1. CASE k < i
    <3>1. k \in 1 .. Len(c) /\ d[k] = c[k]  BY <1>2, <2>1
    <3> QED  BY <1>4, <2>1, <3>1
  <2>2. CASE k = i  BY <1>2, <2>2
  <2>3. CASE k > i
    <3>1. k - 1 \in 1 .. Len(c) /\ d[k] = c[k - 1]  BY <1>2, <2>3
    <3> QED  BY <1>4, <2>3, <3>1
  <2> QED  BY <1>2, <2>1, <2>2, <2>3
(* What is at index k of c is at `To(k)' of d. *)
<1> DEFINE To(k) == IF k < i THEN k ELSE k + 1
<1>7. \A k \in 1 .. Len(c) :
        /\ To(k) \in 1 .. Len(d) /\ d[To(k)] = c[k]
        /\ node2[d[To(k)]].pkt = node[c[k]].pkt
  <2> SUFFICES ASSUME NEW k \in 1 .. Len(c)
               PROVE  /\ To(k) \in 1 .. Len(d) /\ d[To(k)] = c[k]
                      /\ node2[d[To(k)]].pkt = node[c[k]].pkt
    OBVIOUS
  <2>1. To(k) \in 1 .. Len(c) + 1  BY <1>2
  <2>2. k >= i => To(k) = k + 1 /\ ~ (k + 1 < i) /\ k + 1 # i /\ (k + 1) - 1 = k
    BY <1>2
  <2>3. d[To(k)] = c[k]  BY <1>2, <2>1, <2>2
  <2> QED  BY <1>2, <1>4, <2>1, <2>3
<1>8. i \in 1 .. Len(d) /\ d[i] = new /\ node2[d[i]].pkt = p
  BY <1>2, <1>6
<1>9. ASSUME NEW k \in 1 .. Len(d), k # i
       PROVE  \E l \in 1 .. Len(c) :
                /\ d[k] = c[l] /\ node2[d[k]].pkt = node[c[l]].pkt
                /\ k = To(l)
  <2>1. CASE k < i
    <3>1. k \in 1 .. Len(c)  BY <1>2, <2>1
    <3> QED  BY <1>2, <1>6, <2>1, <3>1
  <2>2. CASE k > i
    <3>1. k - 1 \in 1 .. Len(c)  BY <1>2, <2>2
    <3> QED  BY <1>2, <1>6, <2>2, <3>1
  <2> QED  BY <1>2, <1>9, <2>1, <2>2
<1>10. ASSUME NEW k \in 1 .. Len(d), NEW l \in 1 .. Len(d), k # l
       PROVE  d[k] # d[l] /\ node2[d[k]].pkt # node2[d[l]].pkt
  <2>1. CASE k = i \/ l = i
    <3>1. PICK m \in {k, l} : m # i /\ {k, l} = {i, m}
      BY <1>10, <2>1
    <3>2. d[m] # d[i] /\ node2[d[m]].pkt # node2[d[i]].pkt
      BY <1>3, <1>8, <1>9, <3>1
    <3> QED  BY <1>10, <2>1, <3>1, <3>2
  <2>2. CASE k # i /\ l # i
    <3>1. PICK m \in 1 .. Len(c) :
            /\ d[k] = c[m] /\ node2[d[k]].pkt = node[c[m]].pkt
            /\ k = To(m)
      BY <1>9, <2>2
    <3>2. PICK n \in 1 .. Len(c) :
            /\ d[l] = c[n] /\ node2[d[l]].pkt = node[c[n]].pkt
            /\ l = To(n)
      BY <1>9, <2>2
    <3>3. m # n  BY <1>10, <3>1, <3>2
    <3> QED  BY <1>1, <3>1, <3>2, <3>3
  <2> QED  BY <2>1, <2>2
<1>11. /\ \A k, l \in 1 .. Len(d) : d[k] = d[l] => k = l
       /\ \A k, l \in 1 .. Len(d) :
            node2[d[k]].pkt = node2[d[l]].pkt => k = l
  BY <1>10
<1> HIDE DEF To
<1>12. \A a \in Nodes : node2[a] # FREE <=> \E k \in 1 .. Len(d) : d[k] = a
  <2> SUFFICES ASSUME NEW a \in Nodes
               PROVE  node2[a] # FREE <=> \E k \in 1 .. Len(d) : d[k] = a
    OBVIOUS
  <2>1. ASSUME NEW k \in 1 .. Len(d), d[k] = a  PROVE node2[a] # FREE
    BY <1>5, <2>1, LinkedListAssumption
  <2>2. ASSUME node2[a] # FREE  PROVE \E k \in 1 .. Len(d) : d[k] = a
    <3>1. CASE a = new  BY <1>8, <3>1
    <3>2. CASE a # new
      <4>1. \E k \in 1 .. Len(c) : c[k] = a
        <5>1. CASE i > 1 /\ a = c[i - 1]
          <6>1. i - 1 \in 1 .. Len(c)  BY <1>2, <5>1
          <6> QED  BY <5>1, <6>1
        <5>2. CASE ~ (i > 1 /\ a = c[i - 1])
          <6>1. node2[a] = node[a]  BY <1>2, <3>2, <5>2
          <6> QED  BY <1>1, <2>2, <6>1
        <5> QED  BY <5>1, <5>2
      <4> QED  BY <1>7, <4>1
    <3> QED  BY <3>1, <3>2
  <2> QED  BY <2>1, <2>2
<1>13. \A a \in Packets :
         pkt2[a] # FREE <=> \E k \in 1 .. Len(d) : node2[d[k]].pkt = a
  <2> SUFFICES ASSUME NEW a \in Packets
               PROVE  pkt2[a] # FREE
                        <=> \E k \in 1 .. Len(d) : node2[d[k]].pkt = a
    OBVIOUS
  <2>1. CASE a = p  BY <1>8, <2>1
  <2>2. CASE a # p
    <3>1. pkt2[a] # FREE <=> \E l \in 1 .. Len(c) : node[c[l]].pkt = a
      BY <1>1, <2>2
    <3>2. ASSUME NEW k \in 1 .. Len(d), node2[d[k]].pkt = a
          PROVE  \E l \in 1 .. Len(c) : node[c[l]].pkt = a
      <4>1. k # i  BY <1>8, <2>2, <3>2
      <4> QED  BY <1>9, <3>2, <4>1
    <3> QED  BY <1>7, <3>1, <3>2
  <2> QED  BY <2>1, <2>2
<1>14. head2 = Pointer(d, 1)
  <2>1. 1 \in 1 .. Len(d)  BY <1>2
  <2>2. Pointer(d, 1) = d[1]  BY <2>1 DEF Pointer
  <2>3. CASE i = 1  BY <1>8, <2>2, <2>3
  <2>4. CASE i # 1
    <3>1. 1 < i /\ 1 \in 1 .. Len(c)  BY <1>2, <2>4
    <3>2. d[1] = c[1] /\ head = c[1]  BY <1>1, <1>2, <3>1 DEF Pointer
    <3> QED  BY <2>2, <2>4, <3>2
  <2> QED  BY <2>3, <2>4
<1> QED  BY <1>1, <1>2, <1>5, <1>11, <1>12, <1>13, <1>14 DEF IsList, d

(* A list stays one when its first node is freed, with the packet of it.   *)
LEMMA ListTail ==
  ASSUME NEW head, NEW size, NEW node, NEW pkt, NEW c,
         IsList(head, size, node, pkt, c), c # << >>,
         NEW node2, node2[head] = FREE,
         \A a \in Nodes : a # head => node2[a] = node[a],
         NEW pkt2, pkt2[node[head].pkt] = FREE,
         \A a \in Packets : a # node[head].pkt => pkt2[a] = pkt[a]
  PROVE  IsList(node[head].next, size - 1, node2, pkt2, Tail(c))
<1> DEFINE d == Tail(c)
<1>1. /\ c \in Seq(Nodes) /\ Len(c) = size /\ head = Pointer(c, 1)
      /\ \A k \in 1 .. Len(c) : /\ node[c[k]] \in Cells
                                /\ node[c[k]].next = Pointer(c, k + 1)
      /\ \A k, l \in 1 .. Len(c) : c[k] = c[l] => k = l
      /\ \A k, l \in 1 .. Len(c) : node[c[k]].pkt = node[c[l]].pkt => k = l
      /\ \A a \in Nodes : node[a] # FREE <=> \E k \in 1 .. Len(c) : c[k] = a
      /\ \A a \in Packets :
           pkt[a] # FREE <=> \E k \in 1 .. Len(c) : node[c[k]].pkt = a
  BY DEF IsList
<1>2. /\ d \in Seq(Nodes) /\ Len(d) = Len(c) - 1 /\ Len(c) \in Nat
      /\ 1 \in 1 .. Len(c)
      /\ \A k \in 1 .. Len(d) : k + 1 \in 1 .. Len(c) /\ d[k] = c[k + 1]
  <2>1. c \in Seq(Nodes) /\ c # << >>  BY <1>1
  <2>2. Len(c) \in Nat /\ Len(c) # 0  BY <2>1, LenProperties, EmptySeq
  <2>3. d \in Seq(Nodes) /\ Len(d) = Len(c) - 1
        /\ \A k \in 1 .. Len(d) : d[k] = c[k + 1]
    BY <2>1, HeadTailProperties
  <2> QED  BY <2>2, <2>3
<1> HIDE DEF d
<1>3. head = c[1] /\ head \in Nodes
  <2>1. head = c[1]  BY <1>1, <1>2 DEF Pointer
  <2> QED  BY <1>1, <1>2, <2>1, ElementOfSeq
<1>4. \A k \in 1 .. Len(d) : node2[d[k]] = node[c[k + 1]] /\ d[k] \in Nodes
  <2> SUFFICES ASSUME NEW k \in 1 .. Len(d)
               PROVE  node2[d[k]] = node[c[k + 1]] /\ d[k] \in Nodes
    OBVIOUS
  <2>1. d[k] = c[k + 1] /\ k + 1 \in 1 .. Len(c) /\ k + 1 # 1  BY <1>2
  <2>2. d[k] \in Nodes  BY <1>2, ElementOfSeq
  <2>3. d[k] # head  BY <1>1, <1>2, <1>3, <2>1
  <2> QED  BY <2>1, <2>2, <2>3
<1>5. \A k \in 1 .. Len(d) :
        node2[d[k]] \in Cells /\ node2[d[k]].next = Pointer(d, k + 1)
  <2> SUFFICES ASSUME NEW k \in 1 .. Len(d)
               PROVE  /\ node2[d[k]] \in Cells
                      /\ node2[d[k]].next = Pointer(d, k + 1)
    OBVIOUS
  <2>1. k + 1 \in 1 .. Len(c)  BY <1>2
  <2>2. /\ node2[d[k]] \in Cells
        /\ node2[d[k]].next = Pointer(c, (k + 1) + 1)
    BY <1>1, <1>4, <2>1
  <2>3. Pointer(c, (k + 1) + 1) = Pointer(d, k + 1)
    <3>1. (k + 1) + 1 \in 1 .. Len(c) <=> k + 1 \in 1 .. Len(d)
      BY <1>2
    <3> QED  BY <1>2, <3>1 DEF Pointer
  <2> QED  BY <2>2, <2>3
<1>6. node[head].next = Pointer(d, 1)
  <2>1. node[head].next = Pointer(c, 1 + 1)  BY <1>1, <1>2, <1>3
  <2>2. 1 + 1 \in 1 .. Len(c) <=> 1 \in 1 .. Len(d)  BY <1>2
  <2> QED  BY <1>2, <2>1, <2>2 DEF Pointer
<1>7. /\ \A k, l \in 1 .. Len(d) : d[k] = d[l] => k = l
      /\ \A k, l \in 1 .. Len(d) : node2[d[k]].pkt = node2[d[l]].pkt => k = l
  <2> SUFFICES ASSUME NEW k \in 1 .. Len(d), NEW l \in 1 .. Len(d), k # l
               PROVE  d[k] # d[l] /\ node2[d[k]].pkt # node2[d[l]].pkt
    OBVIOUS
  <2>1. /\ k + 1 \in 1 .. Len(c) /\ l + 1 \in 1 .. Len(c)
        /\ d[k] = c[k + 1] /\ d[l] = c[l + 1]
    BY <1>2
  <2>2. k + 1 # l + 1  BY <1>2
  <2>3. /\ node2[d[k]].pkt = node[c[k + 1]].pkt
        /\ node2[d[l]].pkt = node[c[l + 1]].pkt
    BY <1>4
  <2>4. c[k + 1] # c[l + 1]  BY <1>1, <2>1, <2>2
  <2>5. node[c[k + 1]].pkt # node[c[l + 1]].pkt  BY <1>1, <2>1, <2>2
  <2> QED  BY <2>1, <2>3, <2>4, <2>5
<1>8. ASSUME NEW k \in 1 .. Len(c), k # 1
      PROVE  \E l \in 1 .. Len(d) : d[l] = c[k] /\ node2[d[l]] = node[c[k]]
  <2>1. k - 1 \in 1 .. Len(d) /\ (k - 1) + 1 = k  BY <1>2, <1>8
  <2> QED  BY <1>2, <1>4, <2>1
<1>9. \A a \in Nodes : node2[a] # FREE <=> \E k \in 1 .. Len(d) : d[k] = a
  <2> SUFFICES ASSUME NEW a \in Nodes
               PROVE  node2[a] # FREE <=> \E k \in 1 .. Len(d) : d[k] = a
    OBVIOUS
  <2>1. ASSUME NEW k \in 1 .. Len(d), d[k] = a  PROVE node2[a] # FREE
    BY <1>5, <2>1, LinkedListAssumption
  <2>2. ASSUME node2[a] # FREE  PROVE \E k \in 1 .. Len(d) : d[k] = a
    <3>1. a # head /\ node[a] # FREE  BY <2>2
    <3>2. PICK k \in 1 .. Len(c) : c[k] = a  BY <1>1, <3>1
    <3>3. k # 1  BY <1>3, <3>1, <3>2
    <3> QED  BY <1>8, <3>2, <3>3
  <2> QED  BY <2>1, <2>2
<1>10. \A a \in Packets :
         pkt2[a] # FREE <=> \E k \in 1 .. Len(d) : node2[d[k]].pkt = a
  <2> SUFFICES ASSUME NEW a \in Packets
               PROVE  pkt2[a] # FREE
                        <=> \E k \in 1 .. Len(d) : node2[d[k]].pkt = a
    OBVIOUS
  <2>1. ASSUME NEW k \in 1 .. Len(d), node2[d[k]].pkt = a
        PROVE  pkt2[a] # FREE
    <3>1. k + 1 \in 1 .. Len(c) /\ k + 1 # 1 /\ node[c[k + 1]].pkt = a
      <4>1. k + 1 \in 1 .. Len(c) /\ k + 1 # 1  BY <1>2
      <4>2. node2[d[k]] = node[c[k + 1]]  BY <1>4
      <4> QED  BY <2>1, <4>1, <4>2
    <3>2. a # node[head].pkt  BY <1>1, <1>2, <1>3, <3>1
    <3> QED  BY <1>1, <3>1, <3>2
  <2>2. ASSUME pkt2[a] # FREE
        PROVE  \E k \in 1 .. Len(d) : node2[d[k]].pkt = a
    <3>1. a # node[head].pkt /\ pkt[a] # FREE  BY <2>2
    <3>2. PICK k \in 1 .. Len(c) : node[c[k]].pkt = a  BY <1>1, <3>1
    <3>3. k # 1  BY <1>3, <3>1, <3>2
    <3> QED  BY <1>8, <3>2, <3>3
  <2> QED  BY <2>1, <2>2
<1> QED  BY <1>1, <1>2, <1>5, <1>6, <1>7, <1>9, <1>10 DEF IsList, d

(* A list stays one when what its packets hold is changed. *)
LEMMA ListSame ==
  ASSUME NEW head, NEW size, NEW node, NEW pkt, NEW c,
         IsList(head, size, node, pkt, c),
         NEW pkt2, \A a \in Packets : pkt2[a] # FREE <=> pkt[a] # FREE
  PROVE  IsList(head, size, node, pkt2, c)
BY DEF IsList

(* Nothing is allocated for the list of no nodes. *)
LEMMA ListEmpty ==
  ASSUME NEW node, NEW pkt, \A a \in Nodes : node[a] = FREE,
         \A a \in Packets : pkt[a] = FREE
  PROVE  IsList(NULL, 0, node, pkt, << >>)
<1>1. << >> \in Seq(Nodes) /\ Len(<< >>) = 0  BY EmptySeq
<1>2. 1 .. Len(<< >>) = {}  BY <1>1
<1> QED  BY <1>1, <1>2 DEF IsList, Pointer

(* queue_free leaves nothing allocated. *)
LEMMA ListFreed ==
  ASSUME NEW q, NEW c, ListOf(q, c), "node" \in DOMAIN q, "pkt" \in DOMAIN q
  PROVE  /\ queue_free(q).node = [a \in Nodes |-> FREE]
         /\ queue_free(q).pkt = [a \in Packets |-> FREE]
<1>1. Chain(q) = c  BY ChainIs
<1>2. c \in Seq(Nodes) /\ Range(c) = {c[k] : k \in 1 .. Len(c)}
  <2>1. c \in Seq(Nodes)  BY DEF ListOf, IsList
  <2> QED  BY <2>1, LenProperties DEF Range
<1>3. \A a \in Nodes : a \in Range(c) \/ q.node[a] = FREE
  BY <1>2 DEF ListOf, IsList
<1>4. \A a \in Packets :
        (\E k \in Range(c) : q.node[k].pkt = a) \/ q.pkt[a] = FREE
  BY <1>2 DEF ListOf, IsList
<1>5. /\ queue_free(q).node =
           [a \in Nodes |-> IF a \in Range(c) THEN FREE ELSE q.node[a]]
      /\ queue_free(q).pkt =
           [a \in Packets |->
              IF \E k \in Range(c) : q.node[k].pkt = a THEN FREE
              ELSE q.pkt[a]]
  BY <1>1 DEF queue_free
<1> QED  BY <1>3, <1>4, <1>5

(* Chain looks at head and at the nodes only. *)
LEMMA SameChain ==
  ASSUME NEW q, NEW r, r.head = q.head, r.node = q.node
  PROVE  Chain(r) = Chain(q)
<1>1. After(r) = After(q)  BY DEF After
<1>2. Walk(r) = Walk(q)  BY <1>1 DEF Walk
<1> QED  BY <1>2 DEF Chain

(* InsertAt, spelt out. *)
LEMMA InsertAtIs ==
  ASSUME NEW T, NEW c \in Seq(T), NEW x \in T, NEW i \in 1 .. Len(c) + 1
  PROVE  SubSeq(c, 1, i - 1) \o <<x>> \o SubSeq(c, i, Len(c))
           = Inserted(c, i, x)
<1> DEFINE front == SubSeq(c, 1, i - 1)
           back  == SubSeq(c, i, Len(c))
           most  == front \o <<x>>
           d     == Inserted(c, i, x)
<1>1. Len(c) \in Nat  BY LenProperties
<1>2. /\ front \in Seq(T) /\ Len(front) = i - 1
      /\ \A k \in 1 .. i - 1 : front[k] = c[k]
  <2>1. /\ 1 \in Int /\ i - 1 \in Int
        /\ \A k \in 1 .. i - 1 : k \in 1 .. Len(c)
    BY <1>1
  <2>2. \A k \in 1 .. i - 1 : c[k] \in T  BY <2>1, ElementOfSeq
  <2>3. /\ front \in Seq(T)
        /\ Len(front) = IF 1 <= i - 1 THEN (i - 1) - 1 + 1 ELSE 0
        /\ \A k \in 1 .. (i - 1) - 1 + 1 : front[k] = c[1 + k - 1]
    BY <2>1, <2>2, SubSeqProperties
  <2> QED  BY <1>1, <2>3
<1>3. /\ back \in Seq(T) /\ Len(back) = Len(c) - i + 1
      /\ \A k \in 1 .. Len(c) - i + 1 : back[k] = c[i + k - 1]
  <2>1. /\ i \in Int /\ Len(c) \in Int
        /\ \A k \in i .. Len(c) : k \in 1 .. Len(c)
    BY <1>1
  <2>2. \A k \in i .. Len(c) : c[k] \in T  BY <2>1, ElementOfSeq
  <2>3. /\ back \in Seq(T)
        /\ Len(back) = IF i <= Len(c) THEN Len(c) - i + 1 ELSE 0
        /\ \A k \in 1 .. Len(c) - i + 1 : back[k] = c[i + k - 1]
    BY <2>1, <2>2, SubSeqProperties
  <2> QED  BY <1>1, <2>3
<1> HIDE DEF front, back
<1>4. <<x>> \in Seq(T) /\ Len(<<x>>) = 1 /\ <<x>>[1] = x  OBVIOUS
<1>5. /\ most \in Seq(T) /\ Len(most) = i
      /\ \A k \in 1 .. i : most[k] = IF k < i THEN c[k] ELSE x
  <2>1. /\ most \in Seq(T) /\ Len(most) = Len(front) + Len(<<x>>)
        /\ \A k \in 1 .. Len(front) + Len(<<x>>) :
             most[k] = IF k <= Len(front) THEN front[k]
                       ELSE <<x>>[k - Len(front)]
    BY <1>2, <1>4, ConcatProperties
  <2> QED  BY <1>1, <1>2, <1>4, <2>1
<1> HIDE DEF most
<1> DEFINE all == most \o back
<1>6. /\ all \in Seq(T) /\ Len(all) = Len(c) + 1
      /\ \A k \in 1 .. Len(c) + 1 :
           all[k] = IF k <= i THEN most[k] ELSE back[k - i]
  <2>1. /\ all \in Seq(T) /\ Len(all) = Len(most) + Len(back)
        /\ \A k \in 1 .. Len(most) + Len(back) :
             all[k] = IF k <= Len(most) THEN most[k] ELSE back[k - Len(most)]
    BY <1>3, <1>5, ConcatProperties
  <2>2. Len(most) + Len(back) = Len(c) + 1  BY <1>1, <1>3, <1>5
  <2> QED  BY <1>5, <2>1, <2>2
<1> HIDE DEF all
<1>7. /\ d \in Seq(T) /\ Len(d) = Len(c) + 1
      /\ \A k \in 1 .. Len(c) + 1 :
           d[k] = IF k < i THEN c[k] ELSE IF k = i THEN x ELSE c[k - 1]
  BY InsertedIs
<1> HIDE DEF d
<1>8. \A k \in 1 .. Len(c) + 1 : all[k] = d[k]
  <2> SUFFICES ASSUME NEW k \in 1 .. Len(c) + 1  PROVE all[k] = d[k]
    OBVIOUS
  <2>1. CASE k <= i
    <3>1. k \in 1 .. i  BY <1>1, <2>1
    <3>2. all[k] = IF k < i THEN c[k] ELSE x  BY <1>5, <1>6, <2>1, <3>1
    <3> QED  BY <1>7, <2>1, <3>2
  <2>2. CASE i < k
    <3>1. /\ k - i \in 1 .. Len(c) - i + 1 /\ i + (k - i) - 1 = k - 1
          /\ ~ (k <= i) /\ ~ (k < i) /\ k # i
      BY <1>1, <2>2
    <3>2. all[k] = c[k - 1]  BY <1>3, <1>6, <3>1
    <3> QED  BY <1>7, <3>1, <3>2
  <2>3. k <= i \/ i < k  BY <1>1
  <2> QED  BY <2>1, <2>2, <2>3, Zenon
<1>9. all = d  BY <1>6, <1>7, <1>8, SeqEqual
<1> QED  BY <1>9 DEF all, most, front, back, d

(* The first of e moved behind g: the two are the same sequence still.     *)
LEMMA MoveFirst ==
  ASSUME NEW T, NEW g \in Seq(T), NEW e \in Seq(T), e # << >>
  PROVE  Append(g, e[1]) \in Seq(T) /\ Append(g, e[1]) \o Tail(e) = g \o e
<1>1. Len(g) \in Nat /\ Len(e) \in Nat  BY LenProperties
<1>2. 1 \in 1 .. Len(e)
  <2>1. Len(e) # 0  BY EmptySeq
  <2> QED  BY <1>1, <2>1
<1> DEFINE h == Append(g, e[1])
           t == Tail(e)
<1>3. /\ h \in Seq(T) /\ Len(h) = Len(g) + 1 /\ h[Len(g) + 1] = e[1]
      /\ \A k \in 1 .. Len(g) : h[k] = g[k]
  <2>1. e[1] \in T  BY <1>2, ElementOfSeq
  <2> QED  BY <2>1, AppendProperties
<1>4. /\ t \in Seq(T) /\ Len(t) = Len(e) - 1
      /\ \A k \in 1 .. Len(t) : t[k] = e[k + 1]
  BY HeadTailProperties
<1> HIDE DEF h, t
<1> DEFINE ht == h \o t
           ge == g \o e
           m  == Len(g)
           l  == Len(e)
<1>5. /\ ht \in Seq(T) /\ Len(ht) = Len(h) + Len(t)
      /\ \A k \in 1 .. Len(h) + Len(t) :
           ht[k] = IF k <= Len(h) THEN h[k] ELSE t[k - Len(h)]
  BY <1>3, <1>4, ConcatProperties
<1>6. /\ ge \in Seq(T) /\ Len(ge) = m + l
      /\ \A k \in 1 .. m + l : ge[k] = IF k <= m THEN g[k] ELSE e[k - m]
  BY ConcatProperties
<1>7. m \in Nat /\ l \in Nat /\ Len(h) = m + 1 /\ Len(t) = l - 1
  BY <1>1, <1>3, <1>4
<1> HIDE DEF ht, ge, m, l
<1>8. \A k \in 1 .. m + l : ht[k] = ge[k]
  <2> SUFFICES ASSUME NEW k \in 1 .. m + l  PROVE ht[k] = ge[k]
    OBVIOUS
  <2>1. /\ ht[k] = IF k <= m + 1 THEN h[k] ELSE t[k - (m + 1)]
        /\ ge[k] = IF k <= m THEN g[k] ELSE e[k - m]
    BY <1>5, <1>6, <1>7
  <2>2. CASE k <= m
    <3>1. k \in 1 .. Len(g) /\ k <= m + 1  BY <1>7, <2>2 DEF m
    <3> QED  BY <1>3, <2>1, <2>2, <3>1
  <2>3. CASE k = m + 1
    <3>1. k <= m + 1 /\ ~ (k <= m) /\ k - m = 1  BY <1>7, <2>3
    <3>2. h[k] = e[1]  BY <1>3, <2>3 DEF m
    <3> QED  BY <2>1, <3>1, <3>2
  <2>4. CASE k > m + 1
    <3>1. /\ ~ (k <= m + 1) /\ ~ (k <= m) /\ k - (m + 1) \in 1 .. Len(t)
          /\ (k - (m + 1)) + 1 = k - m
      BY <1>7, <2>4
    <3> QED  BY <1>4, <2>1, <3>1
  <2>5. k \in Nat  BY <1>7
  <2> QED  BY <1>7, <2>2, <2>3, <2>4, <2>5
<1>9. Len(ht) = m + l  BY <1>5, <1>7
<1>10. ht = ge  BY <1>5, <1>6, <1>8, <1>9, SeqEqual
<1> QED  BY <1>3, <1>10 DEF h, t, ht, ge

(* The last index is that at which Append puts it. *)
LEMMA InsertedLast ==
  ASSUME NEW T, NEW c \in Seq(T), NEW x \in T
  PROVE  Inserted(c, Len(c) + 1, x) = Append(c, x)
<1>1. ASSUME NEW i \in 1 .. Len(c) + 1
      PROVE  /\ Inserted(c, i, x) \in Seq(T)
             /\ Len(Inserted(c, i, x)) = Len(c) + 1
             /\ \A k \in 1 .. Len(c) + 1 :
                  Inserted(c, i, x)[k] = IF k < i THEN c[k]
                                         ELSE IF k = i THEN x ELSE c[k - 1]
  BY <1>1, InsertedIs
<1> DEFINE n == Len(c)
           d == Inserted(c, n + 1, x)
           f == Append(c, x)
<1>2. n \in Nat  BY LenProperties
<1>3. n + 1 \in 1 .. Len(c) + 1  BY <1>2
<1>4. /\ d \in Seq(T) /\ Len(d) = n + 1
      /\ \A k \in 1 .. n + 1 :
           d[k] = IF k < n + 1 THEN c[k] ELSE IF k = n + 1 THEN x ELSE c[k - 1]
  BY <1>3, <1>1 DEF d, n
<1>5. /\ f \in Seq(T) /\ Len(f) = n + 1 /\ f[n + 1] = x
      /\ \A k \in 1 .. n : f[k] = c[k]
  BY AppendProperties
<1> HIDE DEF d, f, n
<1>6. \A k \in 1 .. n + 1 : d[k] = f[k]
  <2> SUFFICES ASSUME NEW k \in 1 .. n + 1  PROVE d[k] = f[k]  OBVIOUS
  <2>1. (k < n + 1 /\ k \in 1 .. n) \/ (k = n + 1 /\ ~ (k < n + 1))
    BY <1>2
  <2> QED  BY <1>4, <1>5, <2>1
<1>7. d = f  BY <1>4, <1>5, <1>6, SeqEqual
<1> QED  BY <1>7 DEF d, f, n

(* A sequence divided where its two parts meet. *)
LEMMA Divided ==
  ASSUME NEW T, NEW g \in Seq(T), NEW e \in Seq(T)
  PROVE  /\ SubSeq(g \o e, Len(g) + 1, Len(g \o e)) = e
         /\ Len(SubSeq(g \o e, 1, Len(g))) = Len(g)
<1> DEFINE ge == g \o e
           m  == Len(g)
           l  == Len(e)
           n  == Len(ge)
<1>1. m \in Nat /\ l \in Nat  BY LenProperties
<1>2. /\ ge \in Seq(T) /\ n = m + l
      /\ \A i \in 1 .. m + l : ge[i] = IF i <= m THEN g[i] ELSE e[i - m]
  BY ConcatProperties
<1>3. \A i \in 1 .. n : ge[i] \in T  BY <1>2, ElementOfSeq
<1> HIDE DEF ge, m, n
<1>4. Len(SubSeq(ge, 1, m)) = m
  <2>1. /\ 1 \in Int /\ m \in Int /\ \A i \in 1 .. m : i \in 1 .. n
    BY <1>1, <1>2
  <2>2. \A i \in 1 .. m : ge[i] \in T  BY <1>3, <2>1
  <2>3. Len(SubSeq(ge, 1, m)) = IF 1 <= m THEN m - 1 + 1 ELSE 0
    BY <2>1, <2>2, SubSeqProperties
  <2> QED  BY <1>1, <2>3
<1> DEFINE a == m + 1
           u == SubSeq(ge, a, n)
<1>5. /\ u \in Seq(T) /\ Len(u) = l
      /\ \A i \in 1 .. l : u[i] = ge[a + i - 1]
  <2>1. a \in Int /\ n \in Int /\ \A i \in a .. n : i \in 1 .. n
    BY <1>1, <1>2
  <2>2. \A i \in a .. n : ge[i] \in T  BY <1>3, <2>1
  <2> HIDE DEF a
  <2>3. /\ u \in Seq(T) /\ Len(u) = IF a <= n THEN n - a + 1 ELSE 0
        /\ \A i \in 1 .. n - a + 1 : u[i] = ge[a + i - 1]
    BY <2>1, <2>2, SubSeqProperties
  <2>4. n - a + 1 = l /\ (~ (a <= n) => l = 0)
    <3> HIDE DEF l
    <3> QED  BY <1>1, <1>2 DEF a
  <2> QED  BY <2>3, <2>4
<1> HIDE DEF u
<1>6. \A i \in 1 .. l : u[i] = e[i]
  <2> SUFFICES ASSUME NEW i \in 1 .. l  PROVE u[i] = e[i]  OBVIOUS
  <2> DEFINE k == a + i - 1
  <2>1. k \in 1 .. m + l /\ ~ (k <= m) /\ k - m = i
    <3> HIDE DEF l
    <3> QED  BY <1>1
  <2>2. u[i] = ge[k]  BY <1>5
  <2> HIDE DEF k
  <2> QED  BY <1>2, <2>1, <2>2
<1>7. u = e  BY <1>5, <1>6, SeqEqual
<1> QED  BY <1>4, <1>7 DEF u, a, m, n, ge
=============================================================================
