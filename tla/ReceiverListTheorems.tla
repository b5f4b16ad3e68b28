------------------------ MODULE ReceiverListTheorems ------------------------
(***************************************************************************)
(* The receiver's linked lists are well formed and implement the sequences *)
(* the model of the receiver keeps, for any number of nodes and packets,   *)
(* every window and modulus, any order of arrival and any allocation       *)
(* failing.                                                                *)
(***************************************************************************)
EXTENDS ReceiverList, LinkedListTheorems

Lists ==
  [head : Nodes \cup {NULL}, size : Nat, corrupt : {FALSE},
   node : [Nodes -> Cells \cup {FREE}],
   pkt : [Packets -> Structures \cup {FREE}]]

(* The nodes of c are the list. *)
QueueOf(q, c) == q \in Lists /\ ListOf(q, c)

(* The packets they have. *)
PktsOf(q, c) == [k \in 1 .. Len(c) |-> PacketAt(q, c[k])]

(* The inductive invariant: both lists follow their links.  While          *)
(* queue_payload_write runs, what it has freed and what is left are the    *)
(* sequence the packet was pushed in, and what it has freed is the run of  *)
(* numbers that it has counted.                                            *)
WritingInv ==
  /\ writing \in [seqNum : Uint8, runner : Nodes \cup {NULL},
                  newSeqNum : Uint8, count : Uint8]
  /\ early \in Seq(Structures)
  /\ writing.count = ToUint8(Len(gone))
  /\ writing.newSeqNum = Plus(waitedSeqNum, Len(gone))
  /\ \A i \in 1 .. Len(gone) : gone[i].seqNum = Plus(waitedSeqNum, i - 1)
  /\ LET push == RQ!queue_ordered_push(early, [seqNum |-> writing.seqNum],
                                       waitedSeqNum, realWindowSize)
     IN  push.pushed /\ push.queue = gone \o Contents(Left)

ArrivalsInv ==
  /\ pktQueue \in Lists /\ QueueOf(Left, Chain(Left))
  /\ waitedSeqNum \in Uint8 /\ status \in {"running", "writing"}
  /\ gone \in Seq(Structures)
  /\ status = "running" => gone = << >>
  /\ status = "writing" => WritingInv

RepliesInv == QueueOf(ackQueue, Chain(ackQueue))

RLInv == ArrivalsInv /\ RepliesInv

(* The list with the packet at address a changed. *)
SetPkt(q, a, v) == [q EXCEPT !.pkt[a] = v]

-----------------------------------------------------------------------------
(* What is known of the nodes of a list and of what they hold. *)
LEMMA QueueFacts ==
  ASSUME NEW q, NEW c, QueueOf(q, c)
  PROVE  /\ q \in Lists /\ ListOf(q, c) /\ Chain(q) = c
         /\ c \in Seq(Nodes) /\ Len(c) \in Nat /\ q.size = Len(c)
         /\ q.head = Pointer(c, 1)
         /\ \A k \in 1 .. Len(c) :
              /\ c[k] \in Nodes /\ q.node[c[k]] \in Cells
              /\ q.node[c[k]].pkt \in Packets
              /\ PacketAt(q, c[k]) \in Structures
              /\ PacketAt(q, c[k]) = q.pkt[q.node[c[k]].pkt]
<1>1. /\ c \in Seq(Nodes) /\ q.size = Len(c) /\ q.head = Pointer(c, 1)
      /\ \A k \in 1 .. Len(c) : q.node[c[k]] \in Cells
      /\ \A a \in Packets :
           q.pkt[a] # FREE <=> \E k \in 1 .. Len(c) : q.node[c[k]].pkt = a
  BY DEF QueueOf, ListOf, IsList
<1>2. \A k \in 1 .. Len(c) : q.node[c[k]].pkt \in Packets
  BY <1>1 DEF Cells
<1>3. \A k \in 1 .. Len(c) : PacketAt(q, c[k]) \in Structures
  BY <1>1, <1>2 DEF QueueOf, Lists, PacketAt
<1>4. \A k \in 1 .. Len(c) : c[k] \in Nodes  BY <1>1, ElementOfSeq
<1>5. Len(c) \in Nat  BY <1>1, LenProperties
<1>6. Chain(q) = c  BY ChainIs DEF QueueOf
<1> QED  BY <1>1, <1>2, <1>3, <1>4, <1>5, <1>6 DEF QueueOf, PacketAt

(* The packets of a list are a sequence, the one Contents gives. *)
LEMMA PacketsOf ==
  ASSUME NEW q, NEW c, QueueOf(q, c)
  PROVE  /\ PktsOf(q, c) \in Seq(Structures) /\ Len(PktsOf(q, c)) = Len(c)
         /\ Len(c) \in Nat
         /\ \A k \in 1 .. Len(c) : PktsOf(q, c)[k] = PacketAt(q, c[k])
         /\ Contents(q) = PktsOf(q, c)
<1>1. /\ Len(c) \in Nat /\ Chain(q) = c
      /\ \A k \in 1 .. Len(c) : PacketAt(q, c[k]) \in Structures
  BY QueueFacts
<1>2. PktsOf(q, c) \in [1 .. Len(c) -> Structures]  BY <1>1 DEF PktsOf
<1>3. PktsOf(q, c) \in Seq(Structures)  BY <1>1, <1>2, IsASeq DEF PktsOf
<1>4. Len(PktsOf(q, c)) = Len(c)
  BY <1>1, <1>2, <1>3, LenProperties DEF PktsOf
<1> QED  BY <1>1, <1>3, <1>4 DEF PktsOf, Contents

LEMMA SetPacket ==
  ASSUME NEW q \in Lists, NEW a \in Packets, NEW v \in Structures \cup {FREE}
  PROVE  /\ SetPkt(q, a, v) \in Lists /\ SetPkt(q, a, v).head = q.head
         /\ SetPkt(q, a, v).size = q.size
         /\ SetPkt(q, a, v).node = q.node
         /\ SetPkt(q, a, v).pkt = [q.pkt EXCEPT ![a] = v]
BY DEF Lists, SetPkt

(* pkt_del frees a packet that is allocated. *)
LEMMA DeletePacket ==
  ASSUME NEW q \in Lists, NEW a \in Packets, q.pkt[a] # FREE
  PROVE  /\ pkt_del(q, a) \in Lists /\ pkt_del(q, a).head = q.head
         /\ pkt_del(q, a).size = q.size /\ pkt_del(q, a).node = q.node
         /\ pkt_del(q, a).pkt = [q.pkt EXCEPT ![a] = FREE]
<1>1. a # NULL  BY LinkedListAssumption
<1>2. pkt_del(q, a) = SetPkt(q, a, FREE)  BY <1>1 DEF pkt_del, SetPkt
<1> QED  BY <1>2, SetPacket

(* The list of the same nodes, packets and links is the same list. *)
LEMMA SameFields ==
  ASSUME NEW q \in Lists, NEW r \in Lists, NEW c, QueueOf(q, c),
         r.head = q.head, r.size = q.size, r.node = q.node, r.pkt = q.pkt
  PROVE  QueueOf(r, c) /\ PktsOf(r, c) = PktsOf(q, c)
BY DEF QueueOf, ListOf, PktsOf, PacketAt

(* A packet that is put at a free address and freed again is not there.    *)
LEMMA TakenBack ==
  ASSUME NEW q, NEW c, QueueOf(q, c), NEW a \in Packets, q.pkt[a] = FREE,
         NEW p \in Structures, NEW r, r = pkt_del(SetPkt(q, a, p), a)
  PROVE  QueueOf(r, c) /\ PktsOf(r, c) = PktsOf(q, c)
<1> DEFINE q1 == SetPkt(q, a, p)
<1>1. q \in Lists /\ p # FREE  BY ReceiverListAssumption DEF QueueOf
<1>2. /\ q1 \in Lists /\ q1.head = q.head /\ q1.size = q.size
      /\ q1.node = q.node /\ q1.pkt = [q.pkt EXCEPT ![a] = p]
  BY <1>1, SetPacket
<1>3. q1.pkt[a] # FREE  BY <1>1, <1>2 DEF Lists
<1> HIDE DEF q1
<1>4. /\ r \in Lists /\ r.head = q1.head /\ r.size = q1.size
      /\ r.node = q1.node /\ r.pkt = [q1.pkt EXCEPT ![a] = FREE]
  BY <1>2, <1>3, DeletePacket DEF q1
<1>5. r.pkt = q.pkt
  <2> DEFINE pkt1 == q.pkt
  <2>1. pkt1 \in [Packets -> Structures \cup {FREE}] /\ pkt1[a] = FREE
    BY <1>1 DEF Lists
  <2>2. r.pkt = [[pkt1 EXCEPT ![a] = p] EXCEPT ![a] = FREE]
    BY <1>2, <1>4
  <2> HIDE DEF pkt1
  <2>3. r.pkt = pkt1  BY <2>1, <2>2
  <2> QED  BY <2>3 DEF pkt1
<1> QED  BY <1>1, <1>2, <1>4, <1>5, SameFields

-----------------------------------------------------------------------------
(* The packet p, put at address a, is linked between two nodes. *)
Linked(q, a, p, new, before, next) ==
  Link(SetPkt(q, a, p), a, new, before, next)

(* A node linked at index i: the list of the nodes and that of the packets *)
(* both have one more there.                                               *)
LEMMA LinkIs ==
  ASSUME NEW q, NEW c, QueueOf(q, c), NEW a \in Packets, q.pkt[a] = FREE,
         NEW p \in Structures, NEW new \in Nodes, q.node[new] = FREE,
         NEW i \in 1 .. Len(c) + 1,
         NEW before, before = (IF i = 1 THEN NULL ELSE c[i - 1]),
         NEW r, r = Linked(q, a, p, new, before, Pointer(c, i))
  PROVE  /\ r.ret = 0 /\ QueueOf(r.queue, Inserted(c, i, new))
         /\ PktsOf(r.queue, Inserted(c, i, new))
              = Inserted(PktsOf(q, c), i, p)
<1> DEFINE q1   == SetPkt(q, a, p)
           next == Pointer(c, i)
           cell == [pkt |-> a, next |-> next]
           n    == [q1 EXCEPT !.node[new] = [pkt |-> a, next |-> next],
                              !.size = @ + 1]
           m    == IF before = NULL THEN [n EXCEPT !.head = new]
                   ELSE [n EXCEPT !.node[before].next = new]
           d    == Inserted(c, i, new)
<1>1. /\ q \in Lists /\ ListOf(q, c) /\ c \in Seq(Nodes) /\ Len(c) \in Nat
      /\ q.size = Len(c) /\ q.head = Pointer(c, 1)
      /\ \A k \in 1 .. Len(c) :
           /\ c[k] \in Nodes /\ q.node[c[k]] \in Cells
           /\ q.node[c[k]].pkt \in Packets
           /\ PacketAt(q, c[k]) \in Structures
           /\ PacketAt(q, c[k]) = q.pkt[q.node[c[k]].pkt]
  BY QueueFacts
<1>2. /\ NULL \notin Nodes /\ FREE \notin Cells /\ FREE \notin Structures
      /\ p # FREE
  BY LinkedListAssumption, ReceiverListAssumption
<1>3. /\ q1 \in Lists /\ q1.head = q.head /\ q1.size = q.size
      /\ q1.node = q.node /\ q1.pkt = [q.pkt EXCEPT ![a] = p]
  BY <1>1, SetPacket
<1>4. r = [ret |-> 0, queue |-> m]  BY DEF Link, Linked
<1> HIDE DEF q1
<1>5. /\ i # 1 => /\ i - 1 \in 1 .. Len(c) /\ before \in Nodes
                  /\ before = c[i - 1] /\ before # new /\ before # NULL
      /\ i = 1 => before = NULL
  <2>1. i # 1 => i - 1 \in 1 .. Len(c)  BY <1>1
  <2> QED  BY <1>1, <1>2, <2>1
<1>6. next \in Nodes \cup {NULL} /\ cell \in Cells
  BY <1>1 DEF Pointer, Cells
<1> HIDE DEF next
<1>7. /\ n \in Lists /\ n.head = q.head /\ n.size = q.size + 1
      /\ n.node = [q.node EXCEPT ![new] = cell] /\ n.pkt = q1.pkt
  <2> DEFINE n1 == [q1 EXCEPT !.node[new] = cell]
             size == n1.size + 1
  <2>1. n = [n1 EXCEPT !.size = size]  OBVIOUS
  <2> HIDE DEF cell, n
  <2>2. /\ n1 \in Lists /\ n1.head = q.head /\ n1.size = q.size
        /\ n1.pkt = q1.pkt /\ n1.node = [q.node EXCEPT ![new] = cell]
    BY <1>3, <1>6 DEF Lists
  <2>3. size = q.size + 1 /\ size \in Nat  BY <1>1, <2>2
  <2> HIDE DEF n1, size
  <2>4. /\ n \in Lists /\ n.head = n1.head /\ n.size = size
        /\ n.node = n1.node /\ n.pkt = n1.pkt
    BY <2>1, <2>2, <2>3 DEF Lists
  <2> QED  BY <2>2, <2>3, <2>4
<1> HIDE DEF n
<1>8. /\ m \in Lists /\ m.size = q.size + 1 /\ m.pkt = q1.pkt
      /\ m.head = IF i = 1 THEN new ELSE q.head
      /\ m.node = IF i = 1 THEN n.node
                  ELSE [n.node EXCEPT
                          ![before] = [n.node[before] EXCEPT !.next = new]]
  <2>1. CASE i = 1
    <3>1. m = [n EXCEPT !.head = new]  BY <1>5, <2>1
    <3> HIDE DEF m
    <3> QED  BY <1>7, <2>1, <3>1 DEF Lists
  <2>2. CASE i # 1
    <3> DEFINE old == n.node[before]
               linked == [old EXCEPT !.next = new]
    <3>1. old = q.node[before] /\ old \in Cells
      BY <1>1, <1>5, <1>7, <2>2
    <3>2. m = [n EXCEPT !.node[before] = linked]  BY <1>5, <2>2
    <3> HIDE DEF old
    <3>3. linked \in Cells  BY <3>1 DEF Cells
    <3> HIDE DEF m, linked
    <3>4. /\ m \in Lists /\ m.size = n.size /\ m.pkt = n.pkt
          /\ m.head = n.head /\ m.node = [n.node EXCEPT ![before] = linked]
      BY <1>5, <1>7, <2>2, <3>2, <3>3 DEF Lists
    <3> QED  BY <1>7, <2>2, <3>4 DEF linked, old
  <2> QED  BY <2>1, <2>2
<1> HIDE DEF m
<1>9. /\ m.node[new] = cell
      /\ i # 1 => m.node[before] = [q.node[before] EXCEPT !.next = new]
      /\ \A b \in Nodes : b # new /\ (i = 1 \/ b # before)
                            => m.node[b] = q.node[b]
  <2>1. /\ n.node \in [Nodes -> Cells \cup {FREE}] /\ n.node[new] = cell
        /\ \A b \in Nodes : b # new => n.node[b] = q.node[b]
    BY <1>1, <1>7 DEF Lists
  <2> QED  BY <1>5, <1>8, <2>1
<1>10. IsList(m.head, q.size + 1, m.node, m.pkt, d)
  <2> DEFINE head2 == m.head
             node2 == m.node
             pkt2  == m.pkt
  <2>1. IsList(q.head, q.size, q.node, q.pkt, c)  BY <1>1 DEF ListOf
  <2>2. node2[new] = [pkt |-> a, next |-> Pointer(c, i)]  BY <1>9 DEF next
  <2>3. i > 1 => node2[c[i - 1]] = [q.node[c[i - 1]] EXCEPT !.next = new]
    BY <1>5, <1>9
  <2>4. \A b \in Nodes :
          b # new /\ (i = 1 \/ b # c[i - 1]) => node2[b] = q.node[b]
    BY <1>5, <1>9
  <2>5. pkt2[a] # FREE /\ \A b \in Packets : b # a => pkt2[b] = q.pkt[b]
    BY <1>1, <1>2, <1>3, <1>8 DEF Lists
  <2>6. head2 = IF i = 1 THEN new ELSE q.head  BY <1>8
  <2> HIDE DEF head2, node2, pkt2, d
  <2>7. IsList(head2, q.size + 1, node2, pkt2, Inserted(c, i, new))
    BY <2>1, <2>2, <2>3, <2>4, <2>5, <2>6, ListInsert
  <2> QED  BY <2>7 DEF head2, node2, pkt2, d
<1>11. QueueOf(m, d)  BY <1>8, <1>10 DEF QueueOf, ListOf
<1>12. /\ d \in Seq(Nodes) /\ Len(d) = Len(c) + 1
       /\ \A k \in 1 .. Len(c) + 1 :
            d[k] = IF k < i THEN c[k] ELSE IF k = i THEN new ELSE c[k - 1]
  BY <1>1, InsertedIs
<1> HIDE DEF d
<1>13. PktsOf(m, d) = Inserted(PktsOf(q, c), i, p)
  <2> DEFINE e == PktsOf(q, c)
             f == PktsOf(m, d)
             g == Inserted(e, i, p)
  <2>1. /\ e \in Seq(Structures) /\ Len(e) = Len(c)
        /\ \A k \in 1 .. Len(c) : e[k] = PacketAt(q, c[k])
    BY PacketsOf
  <2>2. /\ f \in Seq(Structures) /\ Len(f) = Len(d)
        /\ \A k \in 1 .. Len(d) : f[k] = PacketAt(m, d[k])
    BY <1>11, PacketsOf
  <2> HIDE DEF e, f, g
  <2>3. /\ g \in Seq(Structures) /\ Len(g) = Len(e) + 1
        /\ \A k \in 1 .. Len(e) + 1 :
             g[k] = IF k < i THEN e[k] ELSE IF k = i THEN p ELSE e[k - 1]
    <3>1. i \in 1 .. Len(e) + 1 /\ p \in Structures  BY <1>1, <2>1
    <3>2. e \in Seq(Structures)  BY <2>1
    <3> QED  BY <3>1, <3>2, InsertedIs DEF g
  <2>4. ASSUME NEW k \in 1 .. Len(c)
        PROVE  PacketAt(m, c[k]) = PacketAt(q, c[k])
    <3>1. c[k] \in Nodes /\ q.node[c[k]] \in Cells /\ c[k] # new
      BY <1>1, <1>2
    <3>2. m.node[c[k]].pkt = q.node[c[k]].pkt
      <4>1. CASE i = 1 \/ c[k] # before  BY <1>9, <3>1, <4>1
      <4>2. CASE i # 1 /\ c[k] = before
        BY <1>9, <3>1, <4>2 DEF Cells
      <4> QED  BY <4>1, <4>2
    <3>3. q.node[c[k]].pkt \in Packets /\ q.node[c[k]].pkt # a
      BY <1>1, <1>2
    <3>4. m.pkt[q.node[c[k]].pkt] = q.pkt[q.node[c[k]].pkt]
      BY <1>1, <1>3, <1>8, <3>3 DEF Lists
    <3> QED  BY <3>2, <3>4 DEF PacketAt
  <2>5. PacketAt(m, new) = p
    <3>1. m.node[new].pkt = a  BY <1>9
    <3>2. m.pkt[a] = p  BY <1>1, <1>3, <1>8 DEF Lists
    <3> QED  BY <3>1, <3>2 DEF PacketAt
  <2>6. \A k \in 1 .. Len(c) + 1 : f[k] = g[k]
    <3> SUFFICES ASSUME NEW k \in 1 .. Len(c) + 1  PROVE f[k] = g[k]
      OBVIOUS
    <3>1. f[k] = PacketAt(m, d[k])  BY <1>12, <2>2
    <3>2. CASE k < i
      <4>1. k \in 1 .. Len(c)  BY <1>1, <3>2
      <4> QED  BY <1>12, <2>1, <2>3, <2>4, <3>1, <3>2, <4>1
    <3>3. CASE k = i
      BY <1>12, <2>1, <2>3, <2>5, <3>1, <3>3
    <3>4. CASE k > i
      <4>1. k - 1 \in 1 .. Len(c) /\ ~ (k < i) /\ k # i  BY <1>1, <3>4
      <4>2. d[k] = c[k - 1]  BY <1>12, <4>1
      <4>3. g[k] = e[k - 1]  BY <2>1, <2>3, <4>1
      <4> QED  BY <2>1, <2>4, <3>1, <4>1, <4>2, <4>3
    <3>5. k < i \/ k = i \/ k > i  BY <1>1
    <3> QED  BY <3>2, <3>3, <3>4, <3>5
  <2>7. Len(f) = Len(c) + 1 /\ Len(g) = Len(c) + 1
    BY <1>12, <2>1, <2>2, <2>3
  <2>8. f = g  BY <2>2, <2>3, <2>6, <2>7, SeqEqual
  <2> QED  BY <2>8 DEF f, g, e
<1>14. r.ret = 0 /\ r.queue = m  BY <1>4
<1> QED  BY <1>11, <1>13, <1>14 DEF d

-----------------------------------------------------------------------------
(* The first node of a list. *)
LEMMA HeadIs ==
  ASSUME NEW q, NEW c, QueueOf(q, c), c # << >>
  PROVE  /\ 1 \in 1 .. Len(c) /\ q.size # 0 /\ q.size - 1 \in Nat
         /\ q.head = c[1] /\ q.head \in Nodes /\ q.node[q.head] \in Cells
         /\ q.node[q.head].pkt \in Packets
         /\ q.node[q.head].next \in Nodes \cup {NULL}
         /\ q.pkt[q.node[q.head].pkt] # FREE
         /\ PktsOf(q, c)[1] = q.pkt[q.node[q.head].pkt]
         /\ PktsOf(q, c) # << >>
<1>1. /\ c \in Seq(Nodes) /\ Len(c) \in Nat /\ q.size = Len(c)
      /\ q.head = Pointer(c, 1)
      /\ \A k \in 1 .. Len(c) :
           /\ c[k] \in Nodes /\ q.node[c[k]] \in Cells
           /\ q.node[c[k]].pkt \in Packets
           /\ PacketAt(q, c[k]) \in Structures
           /\ PacketAt(q, c[k]) = q.pkt[q.node[c[k]].pkt]
  BY QueueFacts
<1>2. Len(c) # 0  BY <1>1, EmptySeq
<1>3. 1 \in 1 .. Len(c)  BY <1>1, <1>2
<1>4. q.head = c[1]  BY <1>1, <1>3 DEF Pointer
<1>5. q.node[q.head].next \in Nodes \cup {NULL}
  BY <1>1, <1>3, <1>4 DEF Cells
<1>6. q.pkt[q.node[q.head].pkt] # FREE
  BY <1>1, <1>3, <1>4, ReceiverListAssumption
<1>7. /\ PktsOf(q, c) \in Seq(Structures) /\ Len(PktsOf(q, c)) = Len(c)
      /\ \A k \in 1 .. Len(c) : PktsOf(q, c)[k] = PacketAt(q, c[k])
  BY PacketsOf
<1>8. PktsOf(q, c) # << >>  BY <1>2, <1>7, EmptySeq
<1> QED  BY <1>1, <1>2, <1>3, <1>4, <1>5, <1>6, <1>7, <1>8

(* Without its first node the list is the tail of its nodes, and stands    *)
(* for the tail of its packets.                                            *)
LEMMA TailIs ==
  ASSUME NEW q, NEW c, QueueOf(q, c), c # << >>, NEW r \in Lists,
         r.head = q.node[q.head].next, r.size = q.size - 1,
         r.node = [q.node EXCEPT ![q.head] = FREE],
         r.pkt = [q.pkt EXCEPT ![q.node[q.head].pkt] = FREE]
  PROVE  QueueOf(r, Tail(c)) /\ PktsOf(r, Tail(c)) = Tail(PktsOf(q, c))
<1> DEFINE d == Tail(c)
           a == q.node[q.head].pkt
           e == PktsOf(q, c)
           f == PktsOf(r, d)
           g == Tail(e)
<1>1. /\ q \in Lists /\ ListOf(q, c) /\ c \in Seq(Nodes) /\ Len(c) \in Nat
      /\ \A k \in 1 .. Len(c) :
           /\ c[k] \in Nodes /\ q.node[c[k]].pkt \in Packets
           /\ PacketAt(q, c[k]) = q.pkt[q.node[c[k]].pkt]
  BY QueueFacts
<1>2. /\ 1 \in 1 .. Len(c) /\ q.head = c[1] /\ q.head \in Nodes
      /\ a \in Packets /\ e # << >>
  BY HeadIs
<1>3. IsList(r.head, r.size, r.node, r.pkt, d)
  <2> DEFINE node2 == r.node
             pkt2  == r.pkt
  <2>1. IsList(q.head, q.size, q.node, q.pkt, c)  BY <1>1 DEF ListOf
  <2>2. node2[q.head] = FREE
        /\ \A b \in Nodes : b # q.head => node2[b] = q.node[b]
    BY <1>1, <1>2 DEF Lists
  <2>3. pkt2[q.node[q.head].pkt] = FREE
        /\ \A b \in Packets : b # q.node[q.head].pkt => pkt2[b] = q.pkt[b]
    BY <1>1, <1>2 DEF Lists, a
  <2> HIDE DEF node2, pkt2
  <2>4. IsList(q.node[q.head].next, q.size - 1, node2, pkt2, Tail(c))
    BY <2>1, <2>2, <2>3, ListTail
  <2> QED  BY <2>4 DEF node2, pkt2
<1>4. QueueOf(r, d)  BY <1>3 DEF QueueOf, ListOf
<1>5. /\ d \in Seq(Nodes) /\ Len(d) = Len(c) - 1
      /\ \A k \in 1 .. Len(d) : d[k] = c[k + 1] /\ k + 1 \in 1 .. Len(c)
  <2>1. d \in Seq(Nodes) /\ Len(d) = Len(c) - 1
        /\ \A k \in 1 .. Len(d) : d[k] = c[k + 1]
    BY <1>1, HeadTailProperties
  <2> QED  BY <1>1, <2>1
<1> HIDE DEF d
<1>6. /\ e \in Seq(Structures) /\ Len(e) = Len(c)
      /\ \A k \in 1 .. Len(c) : e[k] = PacketAt(q, c[k])
  BY PacketsOf
<1>7. /\ f \in Seq(Structures) /\ Len(f) = Len(d)
      /\ \A k \in 1 .. Len(d) : f[k] = PacketAt(r, d[k])
  BY <1>4, PacketsOf
<1> HIDE DEF e, f
<1>8. /\ g \in Seq(Structures) /\ Len(g) = Len(e) - 1
      /\ \A k \in 1 .. Len(g) : g[k] = e[k + 1]
  BY <1>2, <1>6, HeadTailProperties
<1> HIDE DEF g
<1>9. ASSUME NEW k \in 1 .. Len(d)  PROVE f[k] = g[k]
  <2>1. k + 1 \in 1 .. Len(c) /\ k + 1 # 1 /\ d[k] = c[k + 1]  BY <1>5
  <2>2. c[k + 1] # c[1] /\ q.node[c[k + 1]].pkt # q.node[c[1]].pkt
    BY <1>1, <1>2, <2>1 DEF ListOf, IsList
  <2>3. r.node[c[k + 1]] = q.node[c[k + 1]]
    BY <1>1, <1>2, <2>1, <2>2 DEF Lists
  <2>4. r.pkt[q.node[c[k + 1]].pkt] = q.pkt[q.node[c[k + 1]].pkt]
    BY <1>1, <1>2, <2>1, <2>2 DEF Lists, a
  <2>5. PacketAt(r, d[k]) = PacketAt(q, c[k + 1])
    BY <2>1, <2>3, <2>4 DEF PacketAt
  <2>6. g[k] = e[k + 1]  BY <1>5, <1>6, <1>8
  <2> QED  BY <1>6, <1>7, <2>1, <2>5, <2>6
<1>10. Len(f) = Len(g)  BY <1>5, <1>6, <1>7, <1>8
<1>11. f = g  BY <1>7, <1>8, <1>9, <1>10, SeqEqual
<1> QED  BY <1>4, <1>11 DEF f, g, e, d

(* A reply that is popped, and freed when it is written. *)
LEMMA PopIs ==
  ASSUME NEW q, NEW c, QueueOf(q, c), c # << >>,
         NEW r, r = pkt_del(queue_pop(q).queue, queue_pop(q).pkt)
  PROVE  /\ QueueOf(r, Tail(c)) /\ PktsOf(r, Tail(c)) = Tail(PktsOf(q, c))
         /\ queue_pop(q).pkt = q.node[q.head].pkt
<1> DEFINE q1 == RemoveHead(q)
           a  == q.node[q.head].pkt
<1>1. q \in Lists  BY DEF QueueOf
<1>2. /\ q.size # 0 /\ q.size - 1 \in Nat /\ q.head \in Nodes
      /\ a \in Packets /\ q.node[q.head].next \in Nodes \cup {NULL}
      /\ q.pkt[a] # FREE
  BY HeadIs
<1>3. r = pkt_del(q1, a) /\ queue_pop(q).pkt = a  BY <1>2 DEF queue_pop
<1>4. /\ q1 \in Lists /\ q1.head = q.node[q.head].next
      /\ q1.size = q.size - 1 /\ q1.pkt = q.pkt
      /\ q1.node = [q.node EXCEPT ![q.head] = FREE]
  <2> DEFINE next == q.node[q.head].next
             n1   == [q EXCEPT !.head = next]
             n2   == [n1 EXCEPT !.node[q.head] = FREE]
             size == q.size - 1
  <2>1. q1 = [n2 EXCEPT !.size = size]  BY DEF RemoveHead
  <2> HIDE DEF next, q1, size
  <2>2. /\ n1 \in Lists /\ n1.head = next /\ n1.size = q.size
        /\ n1.pkt = q.pkt /\ n1.node = q.node
    BY <1>1, <1>2 DEF Lists, next
  <2> HIDE DEF n1
  <2>3. /\ n2 \in Lists /\ n2.head = n1.head /\ n2.size = n1.size
        /\ n2.pkt = n1.pkt /\ n2.node = [q.node EXCEPT ![q.head] = FREE]
    BY <1>2, <2>2 DEF Lists
  <2> HIDE DEF n2
  <2>4. size \in Nat  BY <1>2 DEF size
  <2>5. /\ q1 \in Lists /\ q1.head = n2.head /\ q1.size = size
        /\ q1.pkt = n2.pkt /\ q1.node = n2.node
    BY <2>1, <2>3, <2>4 DEF Lists
  <2> QED  BY <2>2, <2>3, <2>5 DEF next, size
<1> HIDE DEF q1
<1>5. /\ r \in Lists /\ r.head = q1.head /\ r.size = q1.size
      /\ r.node = q1.node /\ r.pkt = [q1.pkt EXCEPT ![a] = FREE]
  BY <1>2, <1>3, <1>4, DeletePacket
<1> QED  BY <1>3, <1>4, <1>5, TailIs

(* One turn of the loop of queue_payload_write.  The list is the one from  *)
(* runner on, wherever head may point.                                     *)
From(q, run) == [q EXCEPT !.head = run]

Erased(q, run) ==
  [pkt_del(q, q.node[run].pkt) EXCEPT !.node[run] = FREE, !.size = @ - 1]

LEMMA FromIs ==
  ASSUME NEW q \in Lists, NEW run \in Nodes \cup {NULL}
  PROVE  /\ From(q, run) \in Lists /\ From(q, run).head = run
         /\ From(q, run).size = q.size /\ From(q, run).node = q.node
         /\ From(q, run).pkt = q.pkt /\ (run = q.head => From(q, run) = q)
BY DEF From, Lists

LEMMA EraseIs ==
  ASSUME NEW q \in Lists, NEW run \in Nodes, NEW c, QueueOf(From(q, run), c),
         c # << >>, NEW r, r = Erased(q, run), NEW next, next = q.node[run].next
  PROVE  /\ r \in Lists /\ next \in Nodes \cup {NULL}
         /\ QueueOf(From(r, next), Tail(c))
         /\ PktsOf(From(r, next), Tail(c)) = Tail(PktsOf(From(q, run), c))
<1> DEFINE l  == From(q, run)
           a  == q.node[run].pkt
           q1 == pkt_del(q, a)
           q2 == [q1 EXCEPT !.node[run] = FREE]
           size == q1.size - 1
<1>1. /\ l \in Lists /\ l.head = run /\ l.size = q.size /\ l.node = q.node
      /\ l.pkt = q.pkt
  BY FromIs
<1>2. /\ l.size # 0 /\ l.size - 1 \in Nat /\ l.node[l.head].pkt \in Packets
      /\ l.node[l.head].next \in Nodes \cup {NULL}
      /\ l.pkt[l.node[l.head].pkt] # FREE
  BY HeadIs
<1> HIDE DEF l
<1>3. a \in Packets /\ q.pkt[a] # FREE  BY <1>1, <1>2
<1>4. r = [q2 EXCEPT !.size = size]  BY DEF Erased
<1> HIDE DEF a
<1>5. /\ q1 \in Lists /\ q1.head = q.head /\ q1.size = q.size
      /\ q1.node = q.node /\ q1.pkt = [q.pkt EXCEPT ![a] = FREE]
  BY <1>3, DeletePacket
<1> HIDE DEF q1
<1>6. /\ q2 \in Lists /\ q2.head = q.head /\ q2.pkt = q1.pkt
      /\ q2.node = [q.node EXCEPT ![run] = FREE]
  BY <1>5 DEF Lists
<1>7. size = q.size - 1 /\ size \in Nat  BY <1>1, <1>2, <1>5
<1> HIDE DEF q2, size
<1>8. /\ r \in Lists /\ r.size = size /\ r.node = q2.node /\ r.pkt = q2.pkt
  BY <1>4, <1>6, <1>7 DEF Lists
<1>9. next \in Nodes \cup {NULL}  BY <1>1, <1>2
<1> DEFINE m == From(r, next)
<1>10. /\ m \in Lists /\ m.head = next /\ m.size = r.size /\ m.node = r.node
      /\ m.pkt = r.pkt
  BY <1>8, <1>9, FromIs
<1> HIDE DEF m
<1>11. QueueOf(l, c)  BY DEF l
<1>12. /\ m.head = l.node[l.head].next /\ m.size = l.size - 1
       /\ m.node = [l.node EXCEPT ![l.head] = FREE]
       /\ m.pkt = [l.pkt EXCEPT ![l.node[l.head].pkt] = FREE]
  BY <1>1, <1>5, <1>6, <1>7, <1>8, <1>10 DEF a
<1>13. QueueOf(m, Tail(c)) /\ PktsOf(m, Tail(c)) = Tail(PktsOf(l, c))
  BY <1>10, <1>11, <1>12, TailIs
<1> QED  BY <1>8, <1>9, <1>13 DEF m, l

(* The list for which nothing is allocated. *)
LEMMA EmptyIs ==
  ASSUME NEW q \in Lists, q.head = NULL, q.size = 0,
         q.node = [a \in Nodes |-> FREE], q.pkt = [a \in Packets |-> FREE]
  PROVE  QueueOf(q, << >>) /\ PktsOf(q, << >>) = << >>
<1> DEFINE c == << >>
<1>1. IsList(q.head, q.size, q.node, q.pkt, c)
  <2> DEFINE node2 == q.node
             pkt2  == q.pkt
  <2>1. /\ \A a \in Nodes : node2[a] = FREE
        /\ \A a \in Packets : pkt2[a] = FREE
    OBVIOUS
  <2> HIDE DEF node2, pkt2
  <2>2. IsList(NULL, 0, node2, pkt2, << >>)  BY <2>1, ListEmpty
  <2> QED  BY <2>2 DEF node2, pkt2
<1>2. Len(c) = 0  BY EmptySeq
<1> HIDE DEF c
<1>3. QueueOf(q, c)  BY <1>1 DEF QueueOf, ListOf
<1>4. PktsOf(q, c) \in Seq(Structures) /\ Len(PktsOf(q, c)) = 0
  BY <1>2, <1>3, PacketsOf
<1> QED  BY <1>3, <1>4, EmptySeq DEF c

(* queue_push with a node appends the packet; without one it frees it.     *)
LEMMA PushIs ==
  ASSUME NEW q, NEW c, QueueOf(q, c), NEW a \in Packets, q.pkt[a] = FREE,
         NEW p \in Structures, NEW new \in FreeNodes(q) \cup {NULL},
         NEW r, r = queue_push([q EXCEPT !.pkt[a] = p], a, new)
  PROVE  /\ r.ret \in {0, -1}
         /\ \E d : /\ QueueOf(r.queue, d)
                   /\ PktsOf(r.queue, d)
                        = IF r.ret = 0 THEN Append(PktsOf(q, c), p)
                          ELSE PktsOf(q, c)
<1> DEFINE q1 == SetPkt(q, a, p)
           i  == Len(c) + 1
           before == IF q1.size = 0 THEN NULL ELSE Last(Chain(q1))
<1>1. /\ q \in Lists /\ c \in Seq(Nodes) /\ Len(c) \in Nat
      /\ q.size = Len(c) /\ Chain(q) = c
  BY QueueFacts
<1>2. p # FREE /\ r = queue_push(q1, a, new)
  BY ReceiverListAssumption DEF SetPkt
<1>3. /\ q1 \in Lists /\ q1.head = q.head /\ q1.size = q.size
      /\ q1.node = q.node /\ q1.pkt = [q.pkt EXCEPT ![a] = p]
  BY <1>1, SetPacket
<1> HIDE DEF q1
<1>4. CASE new = NULL
  <2>1. r = [ret |-> -1, queue |-> pkt_del(SetPkt(q, a, p), a)]
    BY <1>2, <1>4 DEF queue_push, q1
  <2> DEFINE m == pkt_del(SetPkt(q, a, p), a)
  <2>2. QueueOf(m, c) /\ PktsOf(m, c) = PktsOf(q, c)  BY TakenBack
  <2> HIDE DEF m
  <2>3. r.ret = -1 /\ r.queue = m  BY <2>1 DEF m
  <2> QED  BY <2>2, <2>3
<1>5. CASE new # NULL
  <2>1. new \in Nodes /\ q.node[new] = FREE  BY <1>5 DEF FreeNodes
  <2>2. before = (IF i = 1 THEN NULL ELSE c[i - 1])
    <3>1. Chain(q1) = c  BY <1>1, <1>3, SameChain
    <3>2. Last(c) = c[Len(c)]  BY DEF Last
    <3>3. i = 1 <=> q1.size = 0  BY <1>1, <1>3
    <3>4. i - 1 = Len(c)  BY <1>1
    <3> QED  BY <3>1, <3>2, <3>3, <3>4
  <2> HIDE DEF before
  <2>3. Pointer(c, i) = NULL /\ i \in 1 .. Len(c) + 1
    BY <1>1 DEF Pointer
  <2>4. r = Linked(q, a, p, new, before, NULL)
    BY <1>2, <1>5 DEF queue_push, PushNode, Linked, before, q1
  <2>5. r = Linked(q, a, p, new, before, Pointer(c, i))  BY <2>3, <2>4
  <2>6. /\ r.ret = 0 /\ QueueOf(r.queue, Inserted(c, i, new))
        /\ PktsOf(r.queue, Inserted(c, i, new))
             = Inserted(PktsOf(q, c), i, p)
    <3> HIDE DEF i
    <3> QED  BY <2>1, <2>2, <2>3, <2>5, LinkIs
  <2>7. Inserted(PktsOf(q, c), i, p) = Append(PktsOf(q, c), p)
    BY <1>1, PacketsOf, InsertedLast
  <2> QED  BY <2>6, <2>7
<1> QED  BY <1>4, <1>5

(* queue_free leaves the empty list. *)
Freed(q) == [queue_free(q) EXCEPT !.head = NULL, !.size = 0]

LEMMA FreeIs ==
  ASSUME NEW q, NEW c, QueueOf(q, c)
  PROVE  QueueOf(Freed(q), << >>) /\ PktsOf(Freed(q), << >>) = << >>
<1> DEFINE f == queue_free(q)
           r == Freed(q)
<1>1. q \in Lists /\ ListOf(q, c)  BY DEF QueueOf
<1>2. /\ f.node = [a \in Nodes |-> FREE] /\ f.pkt = [a \in Packets |-> FREE]
  <2>1. "node" \in DOMAIN q /\ "pkt" \in DOMAIN q  BY <1>1 DEF Lists
  <2> QED  BY <1>1, <2>1, ListFreed
<1>3. f \in Lists
  <2> DEFINE node2 == [a \in Nodes |-> IF a \in Range(Chain(q)) THEN FREE
                                       ELSE q.node[a]]
             pkt2  == [a \in Packets |->
                         IF \E k \in Range(Chain(q)) : q.node[k].pkt = a
                         THEN FREE ELSE q.pkt[a]]
  <2>1. /\ node2 \in [Nodes -> Cells \cup {FREE}]
        /\ pkt2 \in [Packets -> Structures \cup {FREE}]
    BY <1>1 DEF Lists
  <2>2. f = [q EXCEPT !.node = node2, !.pkt = pkt2]
    BY <1>1 DEF queue_free, Lists
  <2> HIDE DEF node2, pkt2, f
  <2> QED  BY <1>1, <2>1, <2>2 DEF Lists
<1> HIDE DEF f
<1>4. /\ r \in Lists /\ r.head = NULL /\ r.size = 0 /\ r.node = f.node
      /\ r.pkt = f.pkt
  <2> DEFINE f1 == [f EXCEPT !.head = NULL]
  <2>1. r = [f1 EXCEPT !.size = 0]  BY DEF f, Freed
  <2>2. /\ f1 \in Lists /\ f1.head = NULL /\ f1.node = f.node
        /\ f1.pkt = f.pkt
    BY <1>3 DEF Lists
  <2> HIDE DEF f1, r
  <2> QED  BY <2>1, <2>2 DEF Lists
<1>5. QueueOf(r, << >>) /\ PktsOf(r, << >>) = << >>
  <2> HIDE DEF r
  <2> QED  BY <1>2, <1>4, EmptyIs
<1> QED  BY <1>5

-----------------------------------------------------------------------------
(* The index at which a loop stops. *)
LEMMA MinIs ==
  ASSUME NEW S, S \subseteq Nat, S # {}
  PROVE  /\ Min(S) \in S /\ \A y \in S : Min(S) <= y
         /\ \A x \in S : (\A y \in S : x <= y) => x = Min(S)
<1>1. PICK m \in S : \A y \in S : m <= y  BY Smallest
<1>2. Min(S) \in S /\ \A y \in S : Min(S) <= y  BY <1>1 DEF Min
<1>3. ASSUME NEW x \in S, \A y \in S : x <= y  PROVE x = Min(S)
  <2>1. x <= Min(S) /\ Min(S) <= x /\ x \in Nat /\ Min(S) \in Nat
    BY <1>2, <1>3
  <2> QED  BY <2>1
<1> QED  BY <1>2, <1>3

LEMMA FirstInIs ==
  ASSUME NEW n \in Nat, NEW S, S \subseteq 1 .. n
  PROVE  /\ FirstIn(n, S) \in 1 .. n + 1
         /\ S = {} => FirstIn(n, S) = n + 1
         /\ S # {} => FirstIn(n, S) = Min(S) /\ Min(S) \in S
<1>1. CASE S = {}  BY <1>1 DEF FirstIn
<1>2. CASE S # {}
  <2>1. S \subseteq Nat  OBVIOUS
  <2>2. Min(S) \in S  BY <1>2, <2>1, MinIs
  <2>3. FirstIn(n, S) = Min(S)  BY <1>2 DEF FirstIn
  <2>4. Min(S) \in 1 .. n  BY <2>2
  <2>5. Min(S) \in 1 .. n + 1
    <3> DEFINE m == Min(S)
    <3>1. m \in 1 .. n  BY <2>4
    <3> HIDE DEF m
    <3>2. m \in 1 .. n + 1  BY <3>1
    <3> QED  BY <3>2 DEF m
  <2> QED  BY <1>2, <2>2, <2>3, <2>5
<1> QED  BY <1>1, <1>2

(* The place that the three loops of queue_ordered_push find for number s  *)
(* in the sequence e.                                                      *)
Start(e, s, w) ==
  IF High(w) /\ s < realWindowSize - 1
  THEN FirstIn(Len(e), {k \in 1 .. Len(e) : ~ High(e[k].seqNum)})
  ELSE 1

Second(e, s, w) ==
  FirstIn(Len(e), {k \in Start(e, s, w) .. Len(e) :
                     ~ (High(e[k].seqNum) /\ e[k].seqNum < s)})

Third(e, s, w) ==
  Min({k \in Start(e, s, w) .. Len(e) : ~ e[k].seqNum < s \/ k = Len(e)})

Place(e, s, w) ==
  IF Len(e) = 0 \/ Start(e, s, w) > Len(e) THEN Len(e) + 1
  ELSE IF High(w) /\ High(s) THEN Second(e, s, w)
  ELSE IF e[Third(e, s, w)].seqNum < s THEN Len(e) + 1
  ELSE Third(e, s, w)

LEMMA PlaceType ==
  ASSUME NEW e \in Seq(Structures), NEW s, NEW w
  PROVE  /\ Len(e) \in Nat /\ Start(e, s, w) \in 1 .. Len(e) + 1
         /\ Place(e, s, w) \in 1 .. Len(e) + 1
         /\ ~ (Len(e) = 0 \/ Start(e, s, w) > Len(e)) =>
              /\ Third(e, s, w) \in Start(e, s, w) .. Len(e)
              /\ Third(e, s, w) \in 1 .. Len(e)
<1> DEFINE n == Len(e)
           start == Start(e, s, w)
           low == {k \in 1 .. n : ~ High(e[k].seqNum)}
           behind == {k \in start .. n : ~ (High(e[k].seqNum) /\ e[k].seqNum < s)}
           last == {k \in start .. n : ~ e[k].seqNum < s \/ k = n}
<1>1. n \in Nat  BY LenProperties
<1>2. low \subseteq 1 .. n  OBVIOUS
<1>3. FirstIn(n, low) \in 1 .. n + 1
  <2> HIDE DEF low, n
  <2> QED  BY <1>1, <1>2, FirstInIs
<1>4. start \in 1 .. n + 1  BY <1>1, <1>3 DEF Start
<1> HIDE DEF start
<1>5. behind \subseteq 1 .. n /\ last \subseteq 1 .. n  BY <1>1, <1>4
<1>6. FirstIn(n, behind) \in 1 .. n + 1
  <2> HIDE DEF behind, n
  <2> QED  BY <1>1, <1>5, FirstInIs
<1>7. ~ (n = 0 \/ start > n) => Min(last) \in start .. n /\ Min(last) \in 1 .. n
  <2> SUFFICES ASSUME ~ (n = 0 \/ start > n)
               PROVE  Min(last) \in start .. n /\ Min(last) \in 1 .. n
    OBVIOUS
  <2>1. n \in last  BY <1>1, <1>4
  <2>2. last \subseteq Nat /\ last # {}  BY <1>1, <1>5, <2>1
  <2>3. Min(last) \in last
    <3> HIDE DEF last
    <3> QED  BY <2>2, MinIs
  <2> QED  BY <1>1, <1>4, <2>3
<1>8. Second(e, s, w) = FirstIn(n, behind) /\ Third(e, s, w) = Min(last)
  BY DEF Second, Third, start
<1> HIDE DEF n, behind, last
<1>9. Place(e, s, w) \in 1 .. n + 1
  BY <1>1, <1>4, <1>6, <1>7, <1>8 DEF Place, n, start
<1> QED  BY <1>1, <1>4, <1>7, <1>8, <1>9 DEF n, start

(* It is the one at which the sequence has the packet inserted. *)
LEMMA PlaceIs ==
  ASSUME NEW e \in Seq(Structures), NEW s \in Uint8, NEW w \in Uint8
  PROVE  RQ!InsertIndex(e, s, w, realWindowSize) = Place(e, s, w)
<1> DEFINE n == Len(e)
           start == Start(e, s, w)
           H(x) == x >= SeqSpace - realWindowSize
           low == {i \in 1 .. n : ~ H(e[i].seqNum)}
           begin == IF H(w) /\ s < realWindowSize - 1 THEN FirstIn(n, low)
                    ELSE 1
           B(i) == e[i].seqNum < s /\ (H(w) /\ H(s) => H(e[i].seqNum))
           S == {i \in begin .. n : ~ B(i)}
           last == {k \in start .. n : ~ e[k].seqNum < s \/ k = n}
<1>1. /\ n \in Nat /\ start \in 1 .. n + 1
      /\ ~ (n = 0 \/ start > n) => Third(e, s, w) \in start .. n
                                   /\ Third(e, s, w) \in 1 .. n
  BY PlaceType
<1>2. \A k \in 1 .. n : e[k].seqNum \in Uint8
  <2> SUFFICES ASSUME NEW k \in 1 .. n  PROVE e[k].seqNum \in Uint8
    OBVIOUS
  <2>1. e[k] \in Structures  BY ElementOfSeq
  <2> QED  BY <2>1 DEF Structures
<1>3. \A x \in Uint8 : High(x) <=> H(x)
  BY SeqSpaceAssumption, ReceiverListAssumption DEF High, Uint8
<1>4. RQ!InsertIndex(e, s, w, realWindowSize) = FirstIn(n, S)
  BY DEF RQ!InsertIndex, RQ!FirstOf, RQ!Min, FirstIn, Min
<1>5. begin = start
  <2>1. low = {k \in 1 .. n : ~ High(e[k].seqNum)}  BY <1>2, <1>3
  <2> HIDE DEF low
  <2> QED  BY <1>3, <2>1 DEF Start
<1> HIDE DEF begin, start
<1>6. S \subseteq 1 .. n  BY <1>1, <1>5
<1>7. CASE n = 0 \/ start > n
  <2>1. S = {}  BY <1>1, <1>5, <1>7
  <2>2. FirstIn(n, S) = n + 1  BY <2>1 DEF FirstIn
  <2> QED  BY <1>4, <1>7, <2>2 DEF Place, start
<1>8. CASE ~ (n = 0 \/ start > n) /\ High(w) /\ High(s)
  <2>1. S = {k \in start .. n : ~ (High(e[k].seqNum) /\ e[k].seqNum < s)}
    BY <1>1, <1>2, <1>3, <1>5, <1>8
  <2> HIDE DEF S
  <2> QED  BY <1>4, <1>8, <2>1 DEF Place, Second, start
<1>9. CASE ~ (n = 0 \/ start > n) /\ ~ (High(w) /\ High(s))
  <2>1. S = {k \in start .. n : ~ e[k].seqNum < s}
    BY <1>1, <1>2, <1>3, <1>5, <1>9
  <2> HIDE DEF S
  <2> DEFINE third == Third(e, s, w)
  <2>2. third = Min(last)  BY DEF Third, start
  <2>3. third \in start .. n /\ third \in 1 .. n  BY <1>1, <1>9
  <2>4. n \in last  BY <1>1, <1>9
  <2>5. last \subseteq Nat /\ last # {}  BY <1>1, <2>4
  <2>6. third \in last /\ \A y \in last : third <= y
    <3> HIDE DEF last, third
    <3> QED  BY <2>2, <2>5, MinIs
  <2> HIDE DEF third
  <2>7. Place(e, s, w) = IF e[third].seqNum < s THEN n + 1 ELSE third
    BY <1>9 DEF Place, third, start
  <2>8. CASE e[third].seqNum < s
    <3>1. third = n  BY <2>6, <2>8
    <3>2. \A k \in S : k \in last /\ k <= n /\ k \in Nat
      BY <1>1, <2>1
    <3>3. S = {}
      <4> SUFFICES ASSUME NEW k \in S  PROVE FALSE  OBVIOUS
      <4>1. k \in last /\ k <= n /\ n <= k /\ k \in Nat
        BY <2>6, <3>1, <3>2
      <4>2. k = n  BY <1>1, <4>1
      <4> QED  BY <2>1, <2>8, <3>1, <4>2
    <3>4. FirstIn(n, S) = n + 1  BY <3>3 DEF FirstIn
    <3> QED  BY <1>4, <2>7, <2>8, <3>4
  <2>9. CASE ~ e[third].seqNum < s
    <3>1. third \in S  BY <2>1, <2>3, <2>9
    <3>2. \A y \in S : y \in last  BY <2>1
    <3>3. \A y \in S : third <= y  BY <2>6, <3>2
    <3>4. S \subseteq Nat /\ S # {}  BY <1>6, <3>1
    <3>5. third = Min(S)  BY <3>1, <3>3, <3>4, MinIs
    <3>6. FirstIn(n, S) = Min(S)  BY <3>4 DEF FirstIn
    <3> QED  BY <1>4, <2>7, <2>9, <3>5, <3>6
  <2> QED  BY <2>8, <2>9
<1> QED  BY <1>7, <1>8, <1>9

(* The packet s, put at address a, is pushed with the node `new'. *)
OrderedPush(q, a, s, new, w) ==
  queue_ordered_push(SetPkt(q, a, [seqNum |-> s]), a, new, w)

(* The new node in front of the one at index k, or at the end.             *)
PushedAt(q, c, e, a, s, new, k) ==
  LET before == IF k = 1 THEN NULL ELSE c[k - 1]
  IN  IF k > Len(c) THEN Linked(q, a, [seqNum |-> s], new, before, NULL)
      ELSE IF e[k].seqNum = s
           THEN [ret |-> -1, queue |-> SetPkt(q, a, [seqNum |-> s])]
      ELSE Linked(q, a, [seqNum |-> s], new, before, c[k])

(* The loops walk the list as they would the sequence. *)
LEMMA OrderedPushAt ==
  ASSUME NEW q, NEW c, QueueOf(q, c), NEW a \in Packets, q.pkt[a] = FREE,
         NEW s \in Uint8, NEW new \in Nodes, NEW w \in Uint8,
         NEW e, e = PktsOf(q, c)
  PROVE  /\ OrderedPush(q, a, s, new, w)
              = PushedAt(q, c, e, a, s, new, Place(e, s, w))
<1> DEFINE p  == [seqNum |-> s]
           q1 == SetPkt(q, a, p)
           run == Chain(q1)
           Num(k) == PacketAt(q1, run[k]).seqNum
           num == q1.pkt[a].seqNum
           low == {k \in 1 .. Len(run) : ~ High(Num(k))}
           start == IF High(w) /\ num < realWindowSize - 1
                    THEN FirstIn(Len(run), low) ELSE 1
           behind == {k \in start .. Len(run) : ~ (High(Num(k)) /\ Num(k) < num)}
           second == FirstIn(Len(run), behind)
           last == {k \in start .. Len(run) : ~ Num(k) < num \/ k = Len(run)}
           third == Min(last)
           At(k) == LET before == IF k = 1 THEN NULL ELSE run[k - 1]
                    IN  IF k > Len(run) THEN Link(q1, a, new, before, NULL)
                        ELSE IF Num(k) = num THEN [ret |-> -1, queue |-> q1]
                        ELSE Link(q1, a, new, before, run[k])
<1>1. /\ q \in Lists /\ c \in Seq(Nodes) /\ Len(c) \in Nat
      /\ q.size = Len(c) /\ Chain(q) = c
      /\ \A k \in 1 .. Len(c) : c[k] \in Nodes /\ q.node[c[k]].pkt \in Packets
      /\ \A k \in 1 .. Len(c) : PacketAt(q, c[k]) \in Structures
  BY QueueFacts
<1>2. p \in Structures /\ new # NULL /\ FREE \notin Structures
  BY LinkedListAssumption, ReceiverListAssumption DEF Structures
<1>3. /\ q1 \in Lists /\ q1.head = q.head /\ q1.size = q.size
      /\ q1.node = q.node /\ q1.pkt = [q.pkt EXCEPT ![a] = p]
  BY <1>1, <1>2, SetPacket
<1>4. OrderedPush(q, a, s, new, w)
        = IF q1.size = 0 \/ start > Len(run) THEN At(Len(run) + 1)
          ELSE IF High(w) /\ High(num) THEN At(second)
          ELSE IF Num(third) < num THEN At(Len(run) + 1)
          ELSE At(third)
  BY <1>2 DEF OrderedPush, queue_ordered_push
<1>5. /\ e \in Seq(Structures) /\ Len(e) = Len(c)
      /\ \A k \in 1 .. Len(c) : e[k] = PacketAt(q, c[k])
  BY PacketsOf
<1> HIDE DEF q1
<1>6. run = c  BY <1>1, <1>3, SameChain
<1>7. num = s  BY <1>1, <1>3 DEF Lists
<1>8. \A k \in 1 .. Len(c) : Num(k) = e[k].seqNum
  <2> SUFFICES ASSUME NEW k \in 1 .. Len(c)  PROVE Num(k) = e[k].seqNum
    OBVIOUS
  <2>1. q.node[c[k]].pkt \in Packets /\ q.node[c[k]].pkt # a
    BY <1>1, <1>2 DEF PacketAt
  <2>2. q1.pkt[q.node[c[k]].pkt] = q.pkt[q.node[c[k]].pkt]
    BY <1>1, <1>3, <2>1 DEF Lists
  <2> QED  BY <1>3, <1>5, <1>6, <2>2 DEF PacketAt
<1> HIDE DEF run, num, Num
<1>9. start = Start(e, s, w)
  <2>1. low = {k \in 1 .. Len(e) : ~ High(e[k].seqNum)}
    BY <1>5, <1>6, <1>8
  <2> HIDE DEF low
  <2> QED  BY <1>5, <1>6, <1>7, <2>1 DEF Start
<1> HIDE DEF start
<1>10. /\ start \in 1 .. Len(e) + 1 /\ Place(e, s, w) \in 1 .. Len(e) + 1
       /\ ~ (Len(e) = 0 \/ start > Len(e)) => Third(e, s, w) \in 1 .. Len(e)
  BY <1>5, <1>9, PlaceType
<1>11. second = Second(e, s, w)
  <2>1. behind = {k \in start .. Len(e) :
                    ~ (High(e[k].seqNum) /\ e[k].seqNum < s)}
    BY <1>1, <1>5, <1>6, <1>7, <1>8, <1>10
  <2> HIDE DEF behind
  <2> QED  BY <1>5, <1>6, <1>9, <2>1 DEF Second
<1> HIDE DEF second
<1>12. third = Third(e, s, w)
  <2>1. last = {k \in start .. Len(e) : ~ e[k].seqNum < s \/ k = Len(e)}
    BY <1>1, <1>5, <1>6, <1>7, <1>8, <1>10
  <2> HIDE DEF last
  <2> QED  BY <1>5, <1>6, <1>9, <2>1 DEF Third
<1> HIDE DEF third
<1>13. \A k \in 1 .. Len(c) + 1 : At(k) = PushedAt(q, c, e, a, s, new, k)
  <2> SUFFICES ASSUME NEW k \in 1 .. Len(c) + 1
               PROVE  At(k) = PushedAt(q, c, e, a, s, new, k)
    OBVIOUS
  <2>1. ~ (k > Len(c)) => Num(k) = e[k].seqNum  BY <1>1, <1>8
  <2> QED  BY <1>6, <1>7, <2>1 DEF PushedAt, Linked, q1
<1> HIDE DEF At
<1>14. OrderedPush(q, a, s, new, w) = At(Place(e, s, w))
  <2>1. CASE Len(e) = 0 \/ start > Len(e)
    BY <1>1, <1>3, <1>4, <1>5, <1>6, <1>9, <2>1 DEF Place
  <2>2. CASE ~ (Len(e) = 0 \/ start > Len(e))
    <3>1. Num(third) = e[Third(e, s, w)].seqNum
      BY <1>5, <1>8, <1>10, <1>12, <2>2
    <3> QED
      BY <1>1, <1>3, <1>4, <1>5, <1>6, <1>7, <1>9, <1>11, <1>12, <2>2, <3>1
      DEF Place
  <2> QED  BY <2>1, <2>2
<1> QED  BY <1>5, <1>10, <1>13, <1>14

(* queue_ordered_push inserts the packet where the sequence has it, or     *)
(* refuses a number that is there already; without a node it does nothing. *)
LEMMA OrderedPushIs ==
  ASSUME NEW q, NEW c, QueueOf(q, c), NEW a \in Packets, q.pkt[a] = FREE,
         NEW s \in Uint8, NEW w \in Uint8,
         NEW new \in FreeNodes(q) \cup {NULL},
         NEW r, r = OrderedPush(q, a, s, new, w),
         NEW out, out = RQ!queue_ordered_push(PktsOf(q, c), [seqNum |-> s], w,
                                              realWindowSize)
  PROVE  \/ /\ r.ret = 0 /\ out.pushed
            /\ \E d : QueueOf(r.queue, d) /\ PktsOf(r.queue, d) = out.queue
         \/ /\ r.ret = -1 /\ r.queue = SetPkt(q, a, [seqNum |-> s])
            /\ new # NULL => ~ out.pushed
<1> DEFINE p == [seqNum |-> s]
           e == PktsOf(q, c)
           k == Place(e, s, w)
<1>1. CASE new = NULL
  <2>1. r = [ret |-> -1, queue |-> SetPkt(q, a, p)]
    BY <1>1 DEF OrderedPush, queue_ordered_push
  <2> QED  BY <1>1, <2>1
<1>2. CASE new # NULL
  <2>1. new \in Nodes /\ q.node[new] = FREE  BY <1>2 DEF FreeNodes
  <2>2. /\ q \in Lists /\ c \in Seq(Nodes) /\ Len(c) \in Nat
        /\ \A i \in 1 .. Len(c) : c[i] \in Nodes
    BY QueueFacts
  <2>3. e \in Seq(Structures) /\ Len(e) = Len(c)  BY PacketsOf
  <2>4. r = PushedAt(q, c, e, a, s, new, k)  BY <2>1, OrderedPushAt
  <2>5. p \in Structures /\ p.seqNum = s  BY DEF Structures
  <2> HIDE DEF p
  <2>6. RQ!InsertIndex(e, s, w, realWindowSize) = k  BY <2>3, PlaceIs
  <2>7. k \in 1 .. Len(c) + 1  BY <2>3, PlaceType
  <2>8. out = IF k <= Len(e) /\ e[k].seqNum = s
              THEN [pushed |-> FALSE, queue |-> e]
              ELSE [pushed |-> TRUE, queue |-> RQ!InsertAt(e, k, p)]
    BY <2>5, <2>6 DEF RQ!queue_ordered_push, p
  <2> HIDE DEF e, k
  <2>9. CASE k <= Len(c) /\ e[k].seqNum = s
    <3>1. r = [ret |-> -1, queue |-> SetPkt(q, a, p)]
      BY <2>2, <2>4, <2>7, <2>9 DEF PushedAt, p
    <3>2. out = [pushed |-> FALSE, queue |-> e]  BY <2>3, <2>8, <2>9
    <3> QED  BY <3>1, <3>2 DEF p
  <2>10. CASE ~ (k <= Len(c) /\ e[k].seqNum = s)
    <3> DEFINE before == IF k = 1 THEN NULL ELSE c[k - 1]
    <3>1. Pointer(c, k) = IF k > Len(c) THEN NULL ELSE c[k]
      BY <2>2, <2>7 DEF Pointer
    <3>2. r = Linked(q, a, p, new, before, Pointer(c, k))
      BY <2>2, <2>4, <2>7, <2>10, <3>1 DEF PushedAt, p
    <3> HIDE DEF before
    <3>3. before = (IF k = 1 THEN NULL ELSE c[k - 1])  BY DEF before
    <3>4. /\ r.ret = 0 /\ QueueOf(r.queue, Inserted(c, k, new))
          /\ PktsOf(r.queue, Inserted(c, k, new)) = Inserted(e, k, p)
      BY <2>1, <2>5, <2>7, <3>2, <3>3, LinkIs DEF e
    <3>5. out = [pushed |-> TRUE, queue |-> RQ!InsertAt(e, k, p)]
      BY <2>3, <2>8, <2>10
    <3>6. RQ!InsertAt(e, k, p) = Inserted(e, k, p)
      <4>1. k \in 1 .. Len(e) + 1  BY <2>3, <2>7
      <4> QED  BY <2>3, <2>5, <4>1, InsertAtIs DEF RQ!InsertAt
    <3> QED  BY <3>4, <3>5, <3>6
  <2> QED  BY <2>9, <2>10
<1> QED  BY <1>1, <1>2

-----------------------------------------------------------------------------
(* The 8-bit sums of the number waited for and of a count. *)
LEMMA Wraps ==
  ASSUME NEW x \in Int, NEW k \in Int, NEW r \in Uint8, x = SeqSpace * k + r
  PROVE  ToUint8(x) = r
BY SeqSpaceAssumption DEF ToUint8, Uint8

LEMMA PlusPlus ==
  ASSUME NEW w \in Int, NEW n \in Int, NEW d \in Int
  PROVE  /\ Plus(w, n) \in Uint8 /\ ToUint8(n) \in Uint8
         /\ Plus(ToUint8(n), d) = ToUint8(n + d)
         /\ Plus(Plus(w, n), d) = Plus(w, n + d)
         /\ Plus(w, ToUint8(n)) = Plus(w, n)
<1>1. ASSUME NEW x \in Int
      PROVE  /\ ToUint8(x) \in Uint8 /\ ToUint8(x) \in Int
             /\ x \div SeqSpace \in Int
             /\ x = SeqSpace * (x \div SeqSpace) + ToUint8(x)
  BY SeqSpaceAssumption DEF ToUint8, Uint8
<1>2. ASSUME NEW x \in Int, NEW y \in Int
      PROVE  ToUint8(ToUint8(x) + y) = ToUint8(x + y)
  <2> DEFINE k == x \div SeqSpace
             s == ToUint8(x) + y
             j == s \div SeqSpace
  <2>1. k \in Int /\ ToUint8(x) \in Int /\ x = SeqSpace * k + ToUint8(x)
    BY <1>1
  <2>2. /\ s \in Int /\ j \in Int /\ ToUint8(s) \in Uint8 /\ ToUint8(s) \in Int
        /\ s = SeqSpace * j + ToUint8(s)
    BY <1>1, <2>1
  <2> HIDE DEF k, j
  <2>3. s = ToUint8(x) + y  OBVIOUS
  <2> HIDE DEF s
  <2>4. x + y = SeqSpace * (k + j) + ToUint8(s)
    <3> DEFINE pk == SeqSpace * k
               pj == SeqSpace * j
    <3>1. SeqSpace * (k + j) = pk + pj /\ pk \in Int /\ pj \in Int
      BY <2>1, <2>2, SeqSpaceAssumption
    <3>2. x = pk + ToUint8(x) /\ s = pj + ToUint8(s)  BY <2>1, <2>2
    <3> HIDE DEF pk, pj
    <3> DEFINE rx == ToUint8(x)
               rs == ToUint8(s)
    <3>3. /\ rx \in Int /\ rs \in Int /\ x = pk + rx /\ s = pj + rs
          /\ s = rx + y
      BY <2>1, <2>2, <2>3, <3>2
    <3> HIDE DEF rx, rs
    <3>4. x + y = pk + pj + rs  BY <3>1, <3>3
    <3> QED  BY <3>1, <3>4 DEF rs
  <2>5. ToUint8(x + y) = ToUint8(s)
    <3>1. k + j \in Int /\ x + y \in Int  BY <2>1, <2>2
    <3> QED  BY <2>2, <2>4, <3>1, Wraps
  <2> QED  BY <2>3, <2>5
<1>3. Plus(w, n) \in Uint8 /\ ToUint8(n) \in Uint8 /\ ToUint8(n) \in Int
  BY <1>1 DEF Plus
<1>4. Plus(ToUint8(n), d) = ToUint8(n + d)  BY <1>2 DEF Plus
<1>5. Plus(Plus(w, n), d) = Plus(w, n + d)
  <2>1. ToUint8(ToUint8(w + n) + d) = ToUint8((w + n) + d)  BY <1>2
  <2>2. (w + n) + d = w + (n + d)  OBVIOUS
  <2> QED  BY <2>1, <2>2 DEF Plus
<1>6. Plus(w, ToUint8(n)) = Plus(w, n)
  <2>1. ToUint8(ToUint8(n) + w) = ToUint8(n + w)  BY <1>2
  <2>2. ToUint8(n) + w = w + ToUint8(n) /\ n + w = w + n  BY <1>3
  <2> QED  BY <2>1, <2>2 DEF Plus
<1> QED  BY <1>3, <1>4, <1>5, <1>6

(* What is freed is what the sequence has written when the loop ends.      *)
LEMMA WrittenIs ==
  ASSUME NEW g \in Seq(Structures), NEW e \in Seq(Structures), NEW w \in Uint8,
         \A i \in 1 .. Len(g) : g[i].seqNum = Plus(w, i - 1),
         e # << >> => e[1].seqNum # Plus(w, Len(g))
  PROVE  LET out == RQ!queue_payload_write(g \o e, w)
         IN  out.queue = e /\ Len(out.written) = Len(g)
<1> DEFINE ge == g \o e
           m  == Len(g)
           l  == Len(e)
           S  == {i \in 1 .. Len(ge) : ge[i].seqNum # RQ!Plus(w, i - 1)}
<1>1. m \in Nat /\ l \in Nat  BY LenProperties
<1>2. /\ ge \in Seq(Structures) /\ Len(ge) = m + l
      /\ \A i \in 1 .. m + l : ge[i] = IF i <= m THEN g[i] ELSE e[i - m]
  BY ConcatProperties
<1>3. \A a, b : RQ!Plus(a, b) = Plus(a, b)
  BY DEF RQ!Plus, RQ!ToUint8, Plus, ToUint8
<1>4. l # 0 => e # << >>  BY EmptySeq
<1> DEFINE first == RQ!FirstOf(ge, S)
<1>5. first = m + 1
  <2>1. first = IF S = {} THEN Len(ge) + 1 ELSE Min(S)
    BY DEF RQ!FirstOf, RQ!Min, Min
  <2>2. \A i \in S : i \in 1 .. m + l /\ ~ (i <= m)
    <3> SUFFICES ASSUME NEW i \in S, i <= m  PROVE FALSE
      BY <1>2
    <3>1. i \in 1 .. m + l /\ i \in 1 .. Len(g)  BY <1>1, <1>2
    <3>2. ge[i] = g[i]  BY <1>2, <3>1
    <3> QED  BY <1>3, <3>1, <3>2
  <2>3. CASE l = 0
    <3>1. S = {}
      <4> HIDE DEF S, m, l
      <4>1. \A i \in S : FALSE  BY <1>1, <2>2, <2>3
      <4> QED  BY <4>1
    <3> HIDE DEF S, m, l, ge, first
    <3>2. Len(ge) + 1 = m + 1  BY <1>1, <1>2, <2>3
    <3> QED  BY <2>1, <3>1, <3>2
  <2>4. CASE l # 0
    <3>1. ge[m + 1] = e[1]
      <4>1. /\ m + 1 \in 1 .. m + l /\ ~ (m + 1 <= m) /\ (m + 1) - m = 1
        <5> HIDE DEF m, l
        <5> QED  BY <1>1, <2>4
      <4> QED  BY <1>2, <4>1
    <3>2. m + 1 \in S
      <4>1. m + 1 \in 1 .. Len(ge) /\ (m + 1) - 1 = m
        <5> HIDE DEF m, l, ge
        <5> QED  BY <1>1, <1>2, <2>4
      <4>2. ge[m + 1].seqNum # RQ!Plus(w, (m + 1) - 1)
        BY <1>3, <1>4, <2>4, <3>1, <4>1
      <4> QED  BY <4>1, <4>2
    <3> HIDE DEF S, m, l, ge, first
    <3>3. S \subseteq Nat /\ S # {} /\ \A y \in S : m + 1 <= y
      BY <1>1, <2>2, <3>2
    <3>4. m + 1 = Min(S)  BY <3>2, <3>3, MinIs
    <3> QED  BY <2>1, <3>3, <3>4
  <2> QED  BY <2>3, <2>4
<1>6. RQ!RunLength(ge, w) = first - 1  BY DEF RQ!RunLength
<1> DEFINE count == RQ!RunLength(ge, w)
<1>7. count = m
  <2> HIDE DEF first, m
  <2> QED  BY <1>1, <1>5, <1>6
<1>8. RQ!queue_payload_write(ge, w)
        = [written |-> SubSeq(ge, 1, count),
           queue   |-> SubSeq(ge, count + 1, Len(ge))]
  BY DEF RQ!queue_payload_write
<1> HIDE DEF S, first, count
<1> DEFINE kept    == SubSeq(ge, count + 1, Len(ge))
           written == SubSeq(ge, 1, count)
<1>9. kept = e /\ Len(written) = m  BY <1>7, Divided
<1> HIDE DEF kept, written, m
<1>10. RQ!queue_payload_write(ge, w) = [written |-> written, queue |-> kept]
  BY <1>8 DEF kept, written
<1> HIDE DEF ge
<1>11. LET out == RQ!queue_payload_write(ge, w)
       IN  out.queue = e /\ Len(out.written) = m
  BY <1>9, <1>10
<1> QED  BY <1>11 DEF ge, m

-----------------------------------------------------------------------------
(* What the invariant says of a state in which no packet is being written, *)
(* and what has to be shown of one.                                        *)
LEMMA WhenRunning ==
  ASSUME ArrivalsInv, status = "running"
  PROVE  /\ Left = pktQueue /\ Ahead = PktsOf(pktQueue, Chain(pktQueue))
         /\ QueueOf(pktQueue, Chain(pktQueue)) /\ gone = << >>
         /\ waitedSeqNum \in Uint8
<1> DEFINE c == Chain(pktQueue)
<1>1. Left = pktQueue /\ Ahead = Contents(pktQueue)  BY DEF Left, Ahead
<1>2. /\ QueueOf(pktQueue, c) /\ gone = << >> /\ waitedSeqNum \in Uint8
  BY <1>1 DEF ArrivalsInv
<1> HIDE DEF c
<1>3. Contents(pktQueue) = PktsOf(pktQueue, c)  BY <1>2, PacketsOf
<1> QED  BY <1>1, <1>2, <1>3 DEF c

LEMMA StaysRunning ==
  ASSUME ArrivalsInv, status = "running", status' = "running", gone' = gone,
         waitedSeqNum' = waitedSeqNum, NEW d, QueueOf(pktQueue', d)
  PROVE  ArrivalsInv' /\ Ahead' = PktsOf(pktQueue', d)
<1>1. gone = << >> /\ waitedSeqNum \in Uint8  BY DEF ArrivalsInv
<1>2. Chain(pktQueue') = d /\ pktQueue' \in Lists  BY QueueFacts
<1>3. Contents(pktQueue') = PktsOf(pktQueue', d)  BY PacketsOf
<1>4. Left' = pktQueue' /\ Ahead' = Contents(pktQueue')  BY DEF Left, Ahead
<1>5. QueueOf(Left', Chain(Left'))  BY <1>2, <1>4
<1>6. << >> \in Seq(Structures)  BY EmptySeq
<1>7. ArrivalsInv'  BY <1>1, <1>2, <1>5, <1>6 DEF ArrivalsInv
<1> QED  BY <1>3, <1>4, <1>7

(* What an arrival and a turn of the loop leave alone. *)
LEMMA SameReplies ==
  ASSUME RepliesInv, ackQueue' = ackQueue
  PROVE  RepliesInv' /\ Replies' = Replies
BY DEF RepliesInv, Replies

LEMMA SameArrivals ==
  ASSUME ArrivalsInv,
         UNCHANGED <<pktQueue, waitedSeqNum, writing, early, gone, status>>
  PROVE  ArrivalsInv' /\ Ahead' = Ahead
BY DEF ArrivalsInv, WritingInv, Left, Ahead

(* A packet that arrives is queued and the writing begins, or it is        *)
(* refused.                                                                *)
LEMMA ArriveStep ==
  ASSUME RLInv, NEW s \in Uint8, NEW a \in FreePackets(pktQueue),
         NEW new \in FreeNodes(pktQueue) \cup {NULL}, Arrive(s, a, new)
  PROVE  RLInv' /\ (RQ!Next \/ UNCHANGED <<waitedSeqNum, Ahead, Replies, op>>)
<1> DEFINE c == Chain(pktQueue)
           p == [seqNum |-> s]
           r == OrderedPush(pktQueue, a, s, new, waitedSeqNum)
           e == PktsOf(pktQueue, c)
           out == RQ!queue_ordered_push(e, [seqNum |-> s], waitedSeqNum,
                                        realWindowSize)
<1>1. /\ ArrivalsInv /\ RepliesInv /\ status = "running"
      /\ a \in Packets /\ pktQueue.pkt[a] = FREE
      /\ ackQueue' = ackQueue /\ waitedSeqNum' = waitedSeqNum
  BY DEF RLInv, Arrive, FreePackets
<1>2. /\ QueueOf(pktQueue, c) /\ Ahead = e /\ gone = << >>
      /\ waitedSeqNum \in Uint8
  BY <1>1, WhenRunning
<1>3. RepliesInv' /\ Replies' = Replies  BY <1>1, SameReplies
<1>4. \/ /\ r.ret = 0
         /\ pktQueue' = r.queue /\ status' = "writing"
         /\ writing' = [seqNum |-> s, runner |-> r.queue.head,
                        newSeqNum |-> waitedSeqNum, count |-> 0]
         /\ early' = Contents(pktQueue) /\ op' = op /\ gone' = gone
      \/ /\ r.ret = -1 /\ pktQueue' = pkt_del(r.queue, a)
         /\ op' = [name |-> "arrive", arg |-> s, ret |-> -1]
         /\ status' = status /\ gone' = gone
  BY DEF Arrive, OrderedPush, SetPkt
<1> HIDE DEF c, r
<1>5. \/ /\ r.ret = 0 /\ out.pushed
         /\ \E d : QueueOf(r.queue, d) /\ PktsOf(r.queue, d) = out.queue
      \/ /\ r.ret = -1 /\ r.queue = SetPkt(pktQueue, a, p)
         /\ new # NULL => ~ out.pushed
  BY <1>1, <1>2, OrderedPushIs DEF r
<1>6. /\ e \in Seq(Structures) /\ Contents(pktQueue) = e
      /\ pktQueue \in Lists
  BY <1>2, PacketsOf DEF QueueOf
<1> HIDE DEF out, e
<1>7. CASE r.ret = 0
  <2>1. PICK d : QueueOf(r.queue, d) /\ PktsOf(r.queue, d) = out.queue
    BY <1>5, <1>7
  <2>2. /\ out.pushed /\ pktQueue' = r.queue /\ status' = "writing"
        /\ writing' = [seqNum |-> s, runner |-> r.queue.head,
                       newSeqNum |-> waitedSeqNum, count |-> 0]
        /\ early' = e /\ op' = op /\ gone' = << >>
    BY <1>2, <1>4, <1>5, <1>6, <1>7
  <2>3. /\ r.queue \in Lists /\ Chain(r.queue) = d
        /\ Contents(r.queue) = out.queue
        /\ out.queue \in Seq(Structures)
        /\ r.queue.head \in Nodes \cup {NULL}
    BY <2>1, QueueFacts, PacketsOf DEF Lists
  <2>4. Left' = r.queue
    <3>1. Left' = From(r.queue, r.queue.head)  BY <2>2 DEF Left, From
    <3> QED  BY <2>3, <3>1, FromIs
  <2>5. << >> \in Seq(Structures) /\ Len(<< >>) = 0  BY EmptySeq
  <2>6. gone' \o Contents(Left') = out.queue
    BY <2>2, <2>3, <2>4, ConcatEmptySeq
  <2>7. ToUint8(0) = 0 /\ Plus(waitedSeqNum, 0) = waitedSeqNum /\ 0 \in Uint8
    BY <1>2, SeqSpaceAssumption DEF Plus, ToUint8, Uint8
  <2>8. WritingInv'
    <3>1. writing' \in [seqNum : Uint8, runner : Nodes \cup {NULL},
                        newSeqNum : Uint8, count : Uint8]
      BY <1>2, <2>2, <2>3, <2>7
    <3>2. /\ writing'.count = ToUint8(Len(gone'))
          /\ writing'.newSeqNum = Plus(waitedSeqNum', Len(gone'))
      BY <1>1, <2>2, <2>5, <2>7
    <3>3. \A i \in 1 .. Len(gone') :
            gone'[i].seqNum = Plus(waitedSeqNum', i - 1)
      BY <2>2, <2>5
    <3>4. early' \in Seq(Structures)  BY <1>6, <2>2
    <3>5. LET push == RQ!queue_ordered_push(early', [seqNum |-> writing'.seqNum],
                                            waitedSeqNum', realWindowSize)
          IN  push.pushed /\ push.queue = gone' \o Contents(Left')
      BY <1>1, <2>2, <2>6 DEF out
    <3> QED  BY <3>1, <3>2, <3>3, <3>4, <3>5 DEF WritingInv
  <2>9. ArrivalsInv'
    BY <1>1, <1>2, <2>1, <2>2, <2>3, <2>4, <2>5, <2>8 DEF ArrivalsInv
  <2>10. Ahead' = Ahead  BY <1>2, <2>2 DEF Ahead
  <2> QED  BY <1>1, <1>3, <2>2, <2>9, <2>10 DEF RLInv
<1>8. CASE r.ret = -1
  <2>1. /\ pktQueue' = pkt_del(SetPkt(pktQueue, a, p), a)
        /\ op' = [name |-> "arrive", arg |-> s, ret |-> -1]
        /\ status' = "running" /\ gone' = gone /\ (new # NULL => ~ out.pushed)
    BY <1>1, <1>4, <1>5, <1>8
  <2>2. p \in Structures /\ p # FREE
    BY ReceiverListAssumption DEF Structures
  <2> HIDE DEF p
  <2>3. QueueOf(pktQueue', c) /\ PktsOf(pktQueue', c) = e
    BY <1>1, <1>2, <2>1, <2>2, TakenBack DEF e
  <2>4. ArrivalsInv' /\ Ahead' = e
    BY <1>1, <2>1, <2>3, StaysRunning
  <2>5. RLInv' /\ UNCHANGED <<Ahead, waitedSeqNum, Replies>>
    BY <1>1, <1>2, <1>3, <2>4 DEF RLInv
  <2>6. RQ!Refuse(s) \/ RQ!Arrive(s)
    <3>1. CASE new = NULL  BY <2>1, <2>5 DEF RQ!Refuse
    <3>2. CASE new # NULL
      <4>1. out = RQ!queue_ordered_push(Ahead, RQ!Packet(s), waitedSeqNum,
                                        realWindowSize)
        BY <1>2 DEF out, RQ!Packet
      <4>2. ~ out.pushed  BY <2>1, <3>2
      <4> QED  BY <2>1, <2>5, <4>1, <4>2 DEF RQ!Arrive
    <3> QED  BY <3>1, <3>2
  <2>7. RQ!Next  BY <2>6 DEF RQ!Next, RQ!Uint8, Uint8
  <2> QED  BY <2>5, <2>7
<1> QED  BY <1>5, <1>7, <1>8

(* What the invariant says of a state in which packets are being written.  *)
LEMMA WhenWriting ==
  ASSUME ArrivalsInv, status = "writing"
  PROVE  /\ pktQueue \in Lists /\ waitedSeqNum \in Uint8
         /\ gone \in Seq(Structures) /\ WritingInv /\ Ahead = early
         /\ Left = From(pktQueue, writing.runner)
         /\ QueueOf(Left, Chain(Left))
         /\ Contents(Left) = PktsOf(Left, Chain(Left))
         /\ writing.runner \in Nodes \cup {NULL}
         /\ writing.runner = NULL <=> Chain(Left) = << >>
         /\ writing.runner # NULL =>
              /\ PktsOf(Left, Chain(Left)) # << >>
              /\ PktsOf(Left, Chain(Left))[1]
                   = PacketAt(pktQueue, writing.runner)
<1> DEFINE run == writing.runner
           l == Left
           c == Chain(l)
<1>1. /\ pktQueue \in Lists /\ waitedSeqNum \in Uint8
      /\ gone \in Seq(Structures) /\ WritingInv /\ QueueOf(l, c)
      /\ run \in Nodes \cup {NULL}
  BY DEF ArrivalsInv, WritingInv
<1>2. Ahead = early /\ l = From(pktQueue, run)  BY DEF Ahead, Left, From
<1> HIDE DEF l, run
<1>3. l.head = run /\ l.node = pktQueue.node /\ l.pkt = pktQueue.pkt
  BY <1>1, <1>2, FromIs
<1> HIDE DEF c
<1>4. Contents(l) = PktsOf(l, c)  BY <1>1, PacketsOf
<1>5. c = << >> => run = NULL
  <2> SUFFICES ASSUME c = << >>  PROVE run = NULL  OBVIOUS
  <2>1. l.head = Pointer(c, 1) /\ Len(c) = 0
    BY <1>1, QueueFacts, EmptySeq
  <2>2. ~ (1 \in 1 .. Len(c))  BY <2>1
  <2> QED  BY <1>3, <2>1, <2>2 DEF Pointer
<1>6. c # << >> => /\ run \in Nodes /\ run # NULL /\ PktsOf(l, c) # << >>
                   /\ PktsOf(l, c)[1] = PacketAt(pktQueue, run)
  <2> SUFFICES ASSUME c # << >>
               PROVE  /\ run \in Nodes /\ run # NULL /\ PktsOf(l, c) # << >>
                      /\ PktsOf(l, c)[1] = PacketAt(pktQueue, run)
    OBVIOUS
  <2>1. /\ l.head \in Nodes /\ PktsOf(l, c) # << >>
        /\ PktsOf(l, c)[1] = l.pkt[l.node[l.head].pkt]
    BY <1>1, HeadIs
  <2> QED  BY <1>3, <2>1, LinkedListAssumption DEF PacketAt
<1> QED  BY <1>1, <1>2, <1>4, <1>5, <1>6 DEF l, c, run

(* The packet waited for now is written and freed with its node.           *)
LEMMA WriteNextStep ==
  ASSUME RLInv, WriteNext
  PROVE  RLInv' /\ UNCHANGED <<waitedSeqNum, Ahead, Replies, op>>
<1> DEFINE run == writing.runner
           c == Chain(Left)
           e == PktsOf(Left, c)
           r == Erased(pktQueue, run)
           next == pktQueue.node[run].next
           n == Len(gone)
<1>1. /\ ArrivalsInv /\ RepliesInv /\ status = "writing" /\ MayWrite
      /\ ackQueue' = ackQueue /\ waitedSeqNum' = waitedSeqNum
      /\ op' = op /\ early' = early /\ status' = "writing"
      /\ pktQueue' = r
      /\ writing' = [seqNum |-> writing.seqNum, runner |-> next,
                     newSeqNum |-> Plus(writing.newSeqNum, 1),
                     count |-> Plus(writing.count, 1)]
      /\ gone' = Append(gone, PacketAt(pktQueue, run))
  BY DEF RLInv, WriteNext, Erased
<1>2. RepliesInv' /\ Replies' = Replies  BY <1>1, SameReplies
<1>3. /\ pktQueue \in Lists /\ waitedSeqNum \in Uint8
      /\ gone \in Seq(Structures) /\ WritingInv /\ Ahead = early
      /\ Left = From(pktQueue, run) /\ QueueOf(Left, c)
      /\ Contents(Left) = e /\ run \in Nodes \cup {NULL}
      /\ run # NULL => c # << >> /\ e # << >>
                       /\ e[1] = PacketAt(pktQueue, run)
  BY <1>1, WhenWriting
<1>4. /\ run # NULL /\ run \in Nodes /\ c # << >> /\ e # << >>
      /\ e[1].seqNum = writing.newSeqNum
      /\ gone' = Append(gone, e[1])
  BY <1>1, <1>3 DEF MayWrite
<1>5. /\ writing.seqNum \in Uint8 /\ early \in Seq(Structures)
      /\ writing.count = ToUint8(n)
      /\ writing.newSeqNum = Plus(waitedSeqNum, n)
      /\ \A i \in 1 .. n : gone[i].seqNum = Plus(waitedSeqNum, i - 1)
      /\ LET push == RQ!queue_ordered_push(early, [seqNum |-> writing.seqNum],
                                           waitedSeqNum, realWindowSize)
         IN  push.pushed /\ push.queue = gone \o e
  BY <1>3 DEF WritingInv
<1>6. /\ r \in Lists /\ next \in Nodes \cup {NULL}
      /\ QueueOf(From(r, next), Tail(c))
      /\ PktsOf(From(r, next), Tail(c)) = Tail(e)
  <2> HIDE DEF c, run
  <2> DEFINE r1 == r
             next1 == next
  <2>1. r1 = Erased(pktQueue, run) /\ next1 = pktQueue.node[run].next
    OBVIOUS
  <2> HIDE DEF r1, next1
  <2>2. /\ r1 \in Lists /\ next1 \in Nodes \cup {NULL}
        /\ QueueOf(From(r1, next1), Tail(c))
        /\ PktsOf(From(r1, next1), Tail(c))
             = Tail(PktsOf(From(pktQueue, run), c))
    BY <1>3, <1>4, <2>1, EraseIs
  <2> QED  BY <1>3, <2>2 DEF r1, next1
<1>7. Left' = From(r, next)  BY <1>1 DEF Left, From
<1>8. e \in Seq(Structures) /\ e[1] \in Structures
  <2> HIDE DEF c
  <2>1. e \in Seq(Structures)  BY <1>3, PacketsOf
  <2> HIDE DEF e
  <2>2. Len(e) # 0 /\ Len(e) \in Nat  BY <1>4, <2>1, EmptySeq, LenProperties
  <2>3. 1 \in 1 .. Len(e)  BY <2>2
  <2> QED  BY <2>1, <2>3, ElementOfSeq
<1> HIDE DEF r, next, c, e, n, run
<1>9. /\ gone' \in Seq(Structures) /\ gone' \o Tail(e) = gone \o e
  BY <1>3, <1>4, <1>8, MoveFirst
<1>10. /\ n \in Nat /\ Len(gone') = n + 1 /\ gone'[n + 1] = e[1]
       /\ \A i \in 1 .. n : gone'[i] = gone[i]
  BY <1>3, <1>4, <1>8, AppendProperties, LenProperties DEF n
<1>11. Chain(Left') = Tail(c) /\ Contents(Left') = Tail(e)
  BY <1>6, <1>7, QueueFacts, PacketsOf
<1>12. /\ Plus(writing.count, 1) = ToUint8(Len(gone'))
       /\ Plus(writing.newSeqNum, 1) = Plus(waitedSeqNum, Len(gone'))
       /\ Plus(writing.count, 1) \in Uint8
       /\ Plus(writing.newSeqNum, 1) \in Uint8
  <2>1. waitedSeqNum \in Int /\ n \in Int /\ 1 \in Int /\ n + 1 \in Int
    BY <1>3, <1>10 DEF Uint8
  <2>2. /\ Plus(ToUint8(n), 1) = ToUint8(n + 1)
        /\ Plus(Plus(waitedSeqNum, n), 1) = Plus(waitedSeqNum, n + 1)
        /\ Plus(waitedSeqNum, n + 1) \in Uint8 /\ ToUint8(n + 1) \in Uint8
    BY <2>1, PlusPlus
  <2> QED  BY <1>5, <1>10, <2>2
<1>13. \A i \in 1 .. Len(gone') : gone'[i].seqNum = Plus(waitedSeqNum, i - 1)
  <2> SUFFICES ASSUME NEW i \in 1 .. Len(gone')
               PROVE  gone'[i].seqNum = Plus(waitedSeqNum, i - 1)
    OBVIOUS
  <2>1. CASE i = n + 1
    <3>1. i - 1 = n  BY <1>10, <2>1
    <3> QED  BY <1>4, <1>5, <1>10, <2>1, <3>1
  <2>2. CASE i # n + 1
    <3>1. i \in 1 .. n  BY <1>10, <2>2
    <3> QED  BY <1>5, <1>10, <3>1
  <2> QED  BY <2>1, <2>2
<1>14. WritingInv'
  <2>1. writing' \in [seqNum : Uint8, runner : Nodes \cup {NULL},
                      newSeqNum : Uint8, count : Uint8]
    BY <1>1, <1>5, <1>6, <1>12
  <2>2. LET push == RQ!queue_ordered_push(early', [seqNum |-> writing'.seqNum],
                                          waitedSeqNum', realWindowSize)
        IN  push.pushed /\ push.queue = gone' \o Contents(Left')
    <3>1. gone' \o Contents(Left') = gone \o e  BY <1>9, <1>11
    <3>2. /\ early' = early /\ writing'.seqNum = writing.seqNum
          /\ waitedSeqNum' = waitedSeqNum
      BY <1>1
    <3> QED  BY <1>5, <3>1, <3>2
  <2> QED  BY <1>1, <1>5, <1>12, <1>13, <2>1, <2>2 DEF WritingInv
<1>15. ArrivalsInv'
  BY <1>1, <1>3, <1>6, <1>7, <1>9, <1>11, <1>14 DEF ArrivalsInv
<1>16. Ahead' = Ahead  BY <1>1, <1>3 DEF Ahead
<1> QED  BY <1>1, <1>2, <1>15, <1>16 DEF RLInv

(* The loop ends: the packet has arrived, and what was written is the run  *)
(* of the numbers from the one waited for.                                 *)
LEMMA WriteEndsStep ==
  ASSUME RLInv, WriteEnds
  PROVE  RLInv' /\ RQ!Next
<1> DEFINE run == writing.runner
           c == Chain(Left)
           e == PktsOf(Left, c)
           n == Len(gone)
           s == writing.seqNum
<1>1. /\ ArrivalsInv /\ RepliesInv /\ status = "writing" /\ ~ MayWrite
      /\ ackQueue' = ackQueue /\ pktQueue' = From(pktQueue, run)
      /\ waitedSeqNum' = Plus(waitedSeqNum, writing.count)
      /\ op' = [name |-> "arrive", arg |-> s, ret |-> writing.count]
      /\ status' = "running" /\ gone' = << >>
  BY DEF RLInv, WriteEnds, HeadMoved, From
<1>2. RepliesInv' /\ Replies' = Replies  BY <1>1, SameReplies
<1>3. /\ waitedSeqNum \in Uint8 /\ gone \in Seq(Structures) /\ WritingInv
      /\ Ahead = early /\ Left = From(pktQueue, run) /\ QueueOf(Left, c)
      /\ Contents(Left) = e
      /\ run = NULL <=> c = << >>
      /\ run # NULL => e[1] = PacketAt(pktQueue, run)
  BY <1>1, WhenWriting
<1>4. /\ s \in Uint8 /\ writing.count = ToUint8(n)
      /\ writing.newSeqNum = Plus(waitedSeqNum, n)
      /\ \A i \in 1 .. n : gone[i].seqNum = Plus(waitedSeqNum, i - 1)
      /\ LET push == RQ!queue_ordered_push(early, [seqNum |-> s],
                                           waitedSeqNum, realWindowSize)
         IN  push.pushed /\ push.queue = gone \o e
  BY <1>3 DEF WritingInv
<1>5. Left' = pktQueue' /\ Ahead' = Contents(pktQueue')
  BY <1>1 DEF Left, Ahead
<1>6. pktQueue' = Left  BY <1>1, <1>3
<1> HIDE DEF c
<1>7. e \in Seq(Structures) /\ Len(e) = Len(c) /\ Left \in Lists
  BY <1>3, PacketsOf DEF QueueOf
<1>8. e # << >> => e[1].seqNum # Plus(waitedSeqNum, n)
  <2> SUFFICES ASSUME e # << >>  PROVE e[1].seqNum # Plus(waitedSeqNum, n)
    OBVIOUS
  <2>1. c # << >>
    <3> HIDE DEF e
    <3>1. Len(e) # 0  BY <1>7, EmptySeq
    <3>2. c = << >> => Len(c) = 0  BY EmptySeq
    <3> QED  BY <1>7, <3>1, <3>2
  <2> QED  BY <1>1, <1>3, <1>4, <2>1 DEF MayWrite
<1>9. n \in Int /\ waitedSeqNum \in Int  BY <1>3, LenProperties DEF Uint8
<1> HIDE DEF e
<1>10. LET out == RQ!queue_payload_write(gone \o e, waitedSeqNum)
       IN  out.queue = e /\ Len(out.written) = n
  BY <1>3, <1>4, <1>7, <1>8, WrittenIs
<1> HIDE DEF n
<1>11. /\ waitedSeqNum' = Plus(waitedSeqNum, n) /\ waitedSeqNum' \in Uint8
       /\ op' = [name |-> "arrive", arg |-> s, ret |-> ToUint8(n)]
  BY <1>1, <1>4, <1>9, PlusPlus
<1>12. ArrivalsInv'
  <2>1. QueueOf(Left', Chain(Left'))  BY <1>3, <1>5, <1>6 DEF c
  <2>2. << >> \in Seq(Structures)  BY EmptySeq
  <2> QED  BY <1>1, <1>6, <1>7, <1>11, <2>1, <2>2 DEF ArrivalsInv
<1>13. Ahead' = e  BY <1>3, <1>5, <1>6
<1> HIDE DEF s
<1>14. RQ!Arrive(s)
  <2> DEFINE push == RQ!queue_ordered_push(Ahead, RQ!Packet(s), waitedSeqNum,
                                           realWindowSize)
             out == RQ!queue_payload_write(push.queue, waitedSeqNum)
  <2>1. push.pushed /\ push.queue = gone \o e
    BY <1>3, <1>4 DEF RQ!Packet
  <2>2. out.queue = e /\ Len(out.written) = n
    <3> HIDE DEF push
    <3> QED  BY <1>10, <2>1
  <2>3. /\ \A x : RQ!ToUint8(x) = ToUint8(x)
        /\ \A x, y : RQ!Plus(x, y) = Plus(x, y)
    BY DEF RQ!Plus, RQ!ToUint8, Plus, ToUint8
  <2>4. RQ!Arrive(s)
          <=> /\ op' = [name |-> "arrive", arg |-> s, ret |->
                          IF push.pushed THEN RQ!ToUint8(Len(out.written))
                          ELSE -1]
              /\ push.pushed => /\ Ahead' = out.queue
                                /\ waitedSeqNum'
                                     = RQ!Plus(waitedSeqNum, Len(out.written))
              /\ ~ push.pushed => UNCHANGED <<Ahead, waitedSeqNum>>
              /\ UNCHANGED Replies
    BY DEF RQ!Arrive
  <2> HIDE DEF push, out
  <2> QED  BY <1>2, <1>11, <1>13, <2>1, <2>2, <2>3, <2>4
<1> QED  BY <1>1, <1>2, <1>4, <1>12, <1>14 DEF RLInv, RQ!Next, RQ!Uint8, Uint8

-----------------------------------------------------------------------------
(* What the replies stand for when the nodes of their list are d. *)
LEMMA NewReplies ==
  ASSUME NEW d, QueueOf(ackQueue', d)
  PROVE  RepliesInv' /\ Replies' = PktsOf(ackQueue', d)
<1>1. Chain(ackQueue') = d  BY QueueFacts
<1>2. Contents(ackQueue') = PktsOf(ackQueue', d)  BY PacketsOf
<1> QED  BY <1>1, <1>2 DEF RepliesInv, Replies

LEMMA ReplyStep ==
  ASSUME RLInv, NEW a \in FreePackets(ackQueue),
         NEW new \in FreeNodes(ackQueue) \cup {NULL}, Reply(a, new)
  PROVE  RLInv' /\ RQ!Next
<1> DEFINE c == Chain(ackQueue)
           p == [seqNum |-> waitedSeqNum]
           r == queue_push([ackQueue EXCEPT !.pkt[a] = p], a, new)
           e == PktsOf(ackQueue, c)
<1>1. /\ ArrivalsInv /\ QueueOf(ackQueue, c) /\ waitedSeqNum \in Uint8
      /\ a \in Packets /\ ackQueue.pkt[a] = FREE
      /\ ackQueue' = r.queue
      /\ op' = [name |-> "reply", arg |-> waitedSeqNum, ret |-> r.ret]
      /\ UNCHANGED <<pktQueue, waitedSeqNum, writing, early, gone, status>>
  BY DEF RLInv, ArrivalsInv, RepliesInv, Reply, FreePackets
<1>2. ArrivalsInv' /\ Ahead' = Ahead  BY <1>1, SameArrivals
<1>3. p \in Structures  BY <1>1 DEF Structures
<1> HIDE DEF c, r
<1>4. Replies = e  BY <1>1, PacketsOf DEF c, Replies
<1>5. /\ r.ret \in {0, -1}
      /\ \E d : /\ QueueOf(r.queue, d)
                /\ PktsOf(r.queue, d) = IF r.ret = 0 THEN Append(e, p) ELSE e
  <2> HIDE DEF p
  <2>1. r = queue_push([ackQueue EXCEPT !.pkt[a] = p], a, new)
    BY DEF r, p
  <2> QED  BY <1>1, <1>3, <2>1, PushIs
<1>6. PICK d : /\ QueueOf(r.queue, d)
               /\ PktsOf(r.queue, d) = IF r.ret = 0 THEN Append(e, p) ELSE e
  BY <1>5
<1> HIDE DEF e
<1>7. /\ RepliesInv'
      /\ Replies' = IF r.ret = 0 THEN Append(Replies, p) ELSE Replies
  BY <1>1, <1>4, <1>6, NewReplies
<1>8. RQ!Reply(waitedSeqNum)
  <2>1. op' \in [name : {"reply"}, arg : {waitedSeqNum}, ret : {0, -1}]
    BY <1>1, <1>5
  <2>2. op'.ret = r.ret  BY <1>1
  <2> QED  BY <1>1, <1>2, <1>7, <2>1, <2>2 DEF RQ!Reply, RQ!Packet
<1> QED  BY <1>1, <1>2, <1>7, <1>8 DEF RLInv, RQ!Next, RQ!Uint8, Uint8

LEMMA SendStep ==
  ASSUME RLInv, Send
  PROVE  RLInv' /\ RQ!Next
<1> DEFINE c == Chain(ackQueue)
           popped == queue_pop(ackQueue)
           r == pkt_del(popped.queue, popped.pkt)
           e == PktsOf(ackQueue, c)
<1>1. /\ ArrivalsInv /\ QueueOf(ackQueue, c) /\ ackQueue.size > 0
      /\ ackQueue' = r
      /\ op' = [name |-> "send", ret |-> ackQueue.pkt[popped.pkt].seqNum]
      /\ UNCHANGED <<pktQueue, waitedSeqNum, writing, early, gone, status>>
  BY DEF RLInv, RepliesInv, Send
<1>2. ArrivalsInv' /\ Ahead' = Ahead  BY <1>1, SameArrivals
<1> HIDE DEF c
<1>3. c # << >>
  <2>1. ackQueue.size = Len(c)  BY <1>1, QueueFacts
  <2>2. c = << >> => Len(c) = 0  BY EmptySeq
  <2> QED  BY <1>1, <2>1, <2>2
<1>4. /\ QueueOf(r, Tail(c)) /\ PktsOf(r, Tail(c)) = Tail(e)
      /\ popped.pkt = ackQueue.node[ackQueue.head].pkt
  BY <1>1, <1>3, PopIs
<1>5. /\ e # << >> /\ e[1] = ackQueue.pkt[ackQueue.node[ackQueue.head].pkt]
      /\ Contents(ackQueue) = e
  BY <1>1, <1>3, HeadIs, PacketsOf
<1> HIDE DEF popped, r, e
<1>6. RepliesInv' /\ Replies' = Tail(Replies)
  <2>1. Replies = e  BY <1>5 DEF Replies
  <2>2. QueueOf(ackQueue', Tail(c)) /\ PktsOf(ackQueue', Tail(c)) = Tail(e)
    BY <1>1, <1>4
  <2> DEFINE d == Tail(c)
  <2> HIDE DEF d
  <2>3. RepliesInv' /\ Replies' = PktsOf(ackQueue', d)
    BY <2>2, NewReplies DEF d
  <2> QED  BY <2>1, <2>2, <2>3 DEF d
<1>7. RQ!Send
  <2>1. Replies = e  BY <1>5 DEF Replies
  <2>2. Head(Replies) = e[1]  BY <2>1
  <2> QED  BY <1>1, <1>2, <1>4, <1>5, <1>6, <2>1, <2>2 DEF RQ!Send
<1> QED  BY <1>2, <1>6, <1>7 DEF RLInv, RQ!Next

LEMMA ReturnStep ==
  ASSUME RLInv, Return
  PROVE  RLInv' /\ RQ!Next
<1> DEFINE none == << >>
<1>1. /\ ArrivalsInv /\ RepliesInv /\ status = "running"
      /\ pktQueue' = Freed(pktQueue) /\ ackQueue' = Freed(ackQueue)
      /\ op' = [name |-> "free"] /\ status' = "running" /\ gone' = gone
      /\ waitedSeqNum' = waitedSeqNum
  BY DEF RLInv, Return, Freed
<1>2. QueueOf(pktQueue, Chain(pktQueue))  BY <1>1, WhenRunning
<1>3. QueueOf(pktQueue', none) /\ PktsOf(pktQueue', none) = none
  BY <1>1, <1>2, FreeIs
<1>4. QueueOf(ackQueue', none) /\ PktsOf(ackQueue', none) = none
  BY <1>1, FreeIs DEF RepliesInv
<1> HIDE DEF none
<1>5. ArrivalsInv' /\ Ahead' = none  BY <1>1, <1>3, StaysRunning
<1>6. RepliesInv' /\ Replies' = none  BY <1>4, NewReplies
<1>7. RQ!Free  BY <1>1, <1>5, <1>6 DEF RQ!Free, none
<1> QED  BY <1>5, <1>6, <1>7 DEF RLInv, RQ!Next

LEMMA RLInitial ==
  ASSUME Init
  PROVE  RLInv /\ RQ!Init
<1> DEFINE q == queue_init
           c == << >>
<1>1. /\ pktQueue = q /\ ackQueue = q /\ waitedSeqNum \in Uint8
      /\ op = [name |-> "init"] /\ gone = << >> /\ status = "running"
  BY DEF Init
<1>2. /\ q \in Lists /\ q.head = NULL /\ q.size = 0
      /\ q.node = [a \in Nodes |-> FREE] /\ q.pkt = [a \in Packets |-> FREE]
  BY DEF queue_init, Lists
<1> HIDE DEF q
<1>3. QueueOf(q, c) /\ PktsOf(q, c) = << >>  BY <1>2, EmptyIs
<1>4. << >> \in Seq(Structures)  BY EmptySeq
<1> HIDE DEF c
<1>5. Chain(q) = c /\ Contents(q) = << >>
  BY <1>3, QueueFacts, PacketsOf
<1>6. Left = q /\ Ahead = << >> /\ Replies = << >>
  BY <1>1, <1>5 DEF Left, Ahead, Replies
<1>7. RLInv
  BY <1>1, <1>2, <1>3, <1>4, <1>5, <1>6
  DEF RLInv, ArrivalsInv, RepliesInv
<1>8. RQ!Init  BY <1>1, <1>6 DEF RQ!Init, RQ!Uint8, Uint8
<1> QED  BY <1>7, <1>8

(* Every step keeps the invariant, and is one of the sequences or leaves   *)
(* them as they are.                                                       *)
LEMMA RLStep ==
  ASSUME RLInv, [Next]_vars
  PROVE  RLInv' /\ (RQ!Next \/ UNCHANGED <<waitedSeqNum, Ahead, Replies, op>>)
<1>1. ASSUME NEW s \in Uint8, NEW a \in FreePackets(pktQueue),
             NEW new \in FreeNodes(pktQueue) \cup {NULL}, Arrive(s, a, new)
      PROVE  RLInv' /\ (RQ!Next \/ UNCHANGED <<waitedSeqNum, Ahead, Replies, op>>)
  BY <1>1, ArriveStep
<1>2. ASSUME NEW a \in FreePackets(ackQueue),
             NEW new \in FreeNodes(ackQueue) \cup {NULL}, Reply(a, new)
      PROVE  RLInv' /\ RQ!Next
  BY <1>2, ReplyStep
<1>3. CASE WriteNext  BY <1>3, WriteNextStep
<1>4. CASE WriteEnds  BY <1>4, WriteEndsStep
<1>5. CASE Send  BY <1>5, SendStep
<1>6. CASE Return  BY <1>6, ReturnStep
<1>7. CASE UNCHANGED vars
  <2>1. /\ UNCHANGED <<pktQueue, waitedSeqNum, writing, early, gone, status>>
        /\ ackQueue' = ackQueue /\ waitedSeqNum' = waitedSeqNum /\ op' = op
    BY <1>7 DEF vars
  <2>2. ArrivalsInv' /\ Ahead' = Ahead  BY <2>1, SameArrivals DEF RLInv
  <2>3. RepliesInv' /\ Replies' = Replies  BY <2>1, SameReplies DEF RLInv
  <2> QED  BY <2>1, <2>2, <2>3 DEF RLInv
<1> QED  BY <1>1, <1>2, <1>3, <1>4, <1>5, <1>6, <1>7 DEF Next

(* Whatever arrives and whichever call has no memory, both lists follow    *)
(* their links, and what queue_payload_write has freed and what is left    *)
(* are the sequence the packet was pushed in (queue_receiver.c:12-243).    *)
THEOREM RLInvariant == Spec => []RLInv
<1>1. Init => RLInv  BY RLInitial
<1>2. RLInv /\ [Next]_vars => RLInv'  BY RLStep
<1> QED  BY <1>1, <1>2, PTL DEF Spec

(* Neither list loses, keeps or uses a node or a packet that it should     *)
(* not, wherever a packet is inserted and while the packets are written    *)
(* and freed one by one (queue_receiver.c:65-154, 217-240).                *)
THEOREM ListsAreWellFormed == Spec => []WellFormed
<1>1. RLInv => WellFormed
  <2> SUFFICES ASSUME RLInv  PROVE WellFormed  OBVIOUS
  <2>1. ASSUME NEW q, QueueOf(q, Chain(q))
        PROVE  WellFormedList(q) /\ q.corrupt = FALSE
    <3> DEFINE c == Chain(q)
    <3>1. QueueOf(q, c)  BY <2>1
    <3> HIDE DEF c
    <3>2. ListOf(q, c) /\ q.node \in [Nodes -> Cells \cup {FREE}]
      BY <3>1 DEF QueueOf, Lists
    <3>3. WellFormedList(q)  BY <3>2, ListWellFormed
    <3> QED  BY <3>1, <3>3 DEF QueueOf, Lists
  <2>2. QueueOf(Left, Chain(Left)) /\ QueueOf(ackQueue, Chain(ackQueue))
    BY DEF RLInv, ArrivalsInv, RepliesInv
  <2>3. pktQueue.corrupt = FALSE  BY DEF RLInv, ArrivalsInv, Lists
  <2>4. WellFormedList(Left)  BY <2>1, <2>2
  <2>5. WellFormedList(ackQueue) /\ ackQueue.corrupt = FALSE
    BY <2>1, <2>2
  <2> QED  BY <2>3, <2>4, <2>5 DEF WellFormed
<1> QED  BY <1>1, RLInvariant, PTL

(* The lists implement the sequences that the model of the receiver keeps  *)
(* in their place: every packet is put where InsertIndex says, and the     *)
(* loop writes the run that RunLength counts, with the results the calls   *)
(* return, for every window and modulus (queue_receiver.c:12-243).         *)
THEOREM ListsImplementReceiveQueues == Spec => ImplementsReceiveQueues
<1>1. Init => RQ!Init  BY RLInitial
<1>2. RLInv /\ [Next]_vars => [RQ!Next]_<<waitedSeqNum, Ahead, Replies, op>>
  BY RLStep
<1> QED
  BY <1>1, <1>2, RLInvariant, PTL DEF Spec, ImplementsReceiveQueues, RQ!Spec
=============================================================================
