------------------------- MODULE SenderListTheorems -------------------------
(***************************************************************************)
(* The sender's linked list is well formed and implements the sequence the *)
(* model of the sender keeps, for any number of nodes and packets, every   *)
(* modulus, and any allocation failing -- as long as nothing asks a queue  *)
(* that holds a packet whether it is empty.                                *)
(***************************************************************************)
EXTENDS SenderList, LinkedListTheorems

Lists ==
  [head : Nodes \cup {NULL}, last : Nodes \cup {NULL}, size : Nat,
   corrupt : BOOLEAN, node : [Nodes -> Cells \cup {FREE}],
   pkt : [Packets -> Structures \cup {FREE}]]

(* A packet as it is in the sequence. *)
EntryType == [seqNum : Uint8, age : {-1, 0}]

(* The nodes of c are the list, and `last' is the last of them. *)
SenderListOf(q, c) ==
  /\ q \in Lists /\ ListOf(q, c)
  /\ Len(c) > 0 => q.last = c[Len(c)]

(* The inductive invariant.  It follows the links: WellFormed alone, which *)
(* counts, would not tell where a push or a pop leads.  While queue_delete *)
(* runs, no packet it has freed was the one it looks for.                  *)
SLInv ==
  /\ SenderListOf(list, Chain(list)) /\ seqNum \in Uint8
  /\ deletion \in [seqNum : Uint8, run : Nodes \cup {NULL}, number : Nat]
  /\ gone \in Seq(EntryType)
  /\ status \in {"running", "deleting", "returned", "aborted"}
  /\ status = "deleting" =>
       /\ deletion.run = list.head /\ deletion.number = Len(gone)
       /\ \A i \in 1 .. Len(gone) : gone[i].seqNum # deletion.seqNum
  /\ status # "deleting" => gone = << >>

(* The sequence a list of the nodes c stands for. *)
EntriesOf(q, c) == [k \in 1 .. Len(c) |-> Entry(q.pkt[q.node[c[k]].pkt])]

-----------------------------------------------------------------------------
(* What is known of the nodes of a list and of what they hold. *)
LEMMA ListFacts ==
  ASSUME NEW q, NEW c, SenderListOf(q, c)
  PROVE  /\ q \in Lists /\ ListOf(q, c) /\ Chain(q) = c
         /\ c \in Seq(Nodes) /\ Len(c) \in Nat /\ q.size = Len(c)
         /\ \A k \in 1 .. Len(c) :
              /\ c[k] \in Nodes /\ q.node[c[k]] \in Cells
              /\ q.node[c[k]].pkt \in Packets
              /\ q.pkt[q.node[c[k]].pkt] \in Structures
<1>1. /\ c \in Seq(Nodes) /\ q.size = Len(c)
      /\ \A k \in 1 .. Len(c) : q.node[c[k]] \in Cells
      /\ \A a \in Packets :
           q.pkt[a] # FREE <=> \E k \in 1 .. Len(c) : q.node[c[k]].pkt = a
  BY DEF SenderListOf, ListOf, IsList
<1>2. \A k \in 1 .. Len(c) : q.node[c[k]].pkt \in Packets
  BY <1>1 DEF Cells
<1>3. \A k \in 1 .. Len(c) : q.pkt[q.node[c[k]].pkt] \in Structures
  BY <1>1, <1>2 DEF SenderListOf, Lists
<1>4. \A k \in 1 .. Len(c) : c[k] \in Nodes  BY <1>1, ElementOfSeq
<1>5. Len(c) \in Nat  BY <1>1, LenProperties
<1>6. Chain(q) = c  BY ChainIs DEF SenderListOf
<1> QED  BY <1>1, <1>2, <1>3, <1>4, <1>5, <1>6 DEF SenderListOf

(* The packets of a list, one entry each. *)
LEMMA EntriesType ==
  ASSUME NEW q, NEW c, SenderListOf(q, c)
  PROVE  /\ EntriesOf(q, c) \in Seq(EntryType) /\ Len(EntriesOf(q, c)) = Len(c)
         /\ Len(c) \in Nat
         /\ \A k \in 1 .. Len(c) :
              /\ EntriesOf(q, c)[k] = Entry(q.pkt[q.node[c[k]].pkt])
              /\ EntriesOf(q, c)[k].seqNum = PacketAt(q, c[k]).seqNum
<1>1. /\ Len(c) \in Nat
      /\ \A k \in 1 .. Len(c) : q.pkt[q.node[c[k]].pkt] \in Structures
  BY ListFacts
<1>2. \A p \in Structures :
        Entry(p) \in EntryType /\ Entry(p).seqNum = p.seqNum
  BY DEF Structures, Entry, EntryType
<1>3. EntriesOf(q, c) \in [1 .. Len(c) -> EntryType]
  BY <1>1, <1>2 DEF EntriesOf
<1>4. EntriesOf(q, c) \in Seq(EntryType)  BY <1>1, <1>3, IsASeq DEF EntriesOf
<1>5. Len(EntriesOf(q, c)) = Len(c)
  BY <1>1, <1>3, <1>4, LenProperties DEF EntriesOf
<1> QED  BY <1>1, <1>2, <1>4, <1>5 DEF EntriesOf, PacketAt

(* Entries is that sequence, for the list that q is. *)
Stands(q) ==
  LET pkts == Contents(q) IN [k \in 1 .. Len(pkts) |-> Entry(pkts[k])]

LEMMA StandsFor ==
  ASSUME NEW q, NEW c, SenderListOf(q, c)
  PROVE  Chain(q) = c /\ Stands(q) = EntriesOf(q, c)
<1>1. Chain(q) = c /\ c \in Seq(Nodes) /\ Len(c) \in Nat  BY ListFacts
<1>2. Contents(q) = [k \in 1 .. Len(c) |-> PacketAt(q, c[k])]
  BY <1>1 DEF Contents
<1>3. Len(Contents(q)) = Len(c)
  <2>1. \A k \in 1 .. Len(c) : PacketAt(q, c[k]) \in Structures
    BY ListFacts DEF PacketAt
  <2>2. Contents(q) \in Seq(Structures)
    BY <1>1, <1>2, <2>1, IsASeq
  <2> QED  BY <1>1, <1>2, <2>2, LenProperties
<1>4. Stands(q) = [k \in 1 .. Len(c) |-> Entry(Contents(q)[k])]
  BY <1>3 DEF Stands
<1>5. \A k \in 1 .. Len(c) : Contents(q)[k] = PacketAt(q, c[k])
  BY <1>2
<1> QED  BY <1>1, <1>4, <1>5 DEF EntriesOf, PacketAt

-----------------------------------------------------------------------------
(* The list with the packet at address a changed. *)
SetPkt(q, a, v) == [q EXCEPT !.pkt[a] = v]

LEMMA SetPacket ==
  ASSUME NEW q \in Lists, NEW a \in Packets, NEW v \in Structures \cup {FREE}
  PROVE  /\ SetPkt(q, a, v) \in Lists /\ SetPkt(q, a, v).head = q.head
         /\ SetPkt(q, a, v).last = q.last /\ SetPkt(q, a, v).size = q.size
         /\ SetPkt(q, a, v).corrupt = q.corrupt
         /\ SetPkt(q, a, v).node = q.node
         /\ SetPkt(q, a, v).pkt = [q.pkt EXCEPT ![a] = v]
BY DEF Lists, SetPkt

(* pkt_del frees a packet that is allocated. *)
LEMMA DeletePacket ==
  ASSUME NEW q \in Lists, NEW a \in Packets, q.pkt[a] # FREE
  PROVE  /\ pkt_del(q, a) \in Lists /\ pkt_del(q, a).head = q.head
         /\ pkt_del(q, a).last = q.last /\ pkt_del(q, a).size = q.size
         /\ pkt_del(q, a).corrupt = q.corrupt /\ pkt_del(q, a).node = q.node
         /\ pkt_del(q, a).pkt = [q.pkt EXCEPT ![a] = FREE]
<1>1. a # NULL  BY LinkedListAssumption
<1>2. pkt_del(q, a) = SetPkt(q, a, FREE)  BY <1>1 DEF pkt_del, SetPkt
<1> QED  BY <1>2, SetPacket

(* The list of the same nodes, packets and links is the same list. *)
LEMMA SameFields ==
  ASSUME NEW q \in Lists, NEW r \in Lists, NEW c, SenderListOf(q, c),
         r.head = q.head, r.last = q.last, r.size = q.size, r.node = q.node,
         r.pkt = q.pkt
  PROVE  SenderListOf(r, c) /\ EntriesOf(r, c) = EntriesOf(q, c)
BY DEF SenderListOf, ListOf, EntriesOf

-----------------------------------------------------------------------------
(* The packet p, put at address a, is pushed with the node `new'. *)
Pushed(q, a, p, new) == queue_push([q EXCEPT !.pkt[a] = p], a, new)

(* queue_push with a node appends the packet to the list, whether or not   *)
(* `last' was left dangling, and frees nothing.                            *)
LEMMA PushAppends ==
  ASSUME NEW q, NEW c, SenderListOf(q, c), NEW a \in Packets, q.pkt[a] = FREE,
         NEW p \in Structures, NEW new \in Nodes, q.node[new] = FREE,
         NEW r, r = Pushed(q, a, p, new)
  PROVE  /\ r.ret = 0 /\ r.queue.corrupt = q.corrupt
         /\ SenderListOf(r.queue, Append(c, new))
         /\ EntriesOf(r.queue, Append(c, new))
              = Append(EntriesOf(q, c), Entry(p))
<1> DEFINE q1 == [q EXCEPT !.pkt[a] = p]
           n  == [q1 EXCEPT !.node[new] = [pkt |-> a, next |-> NULL],
                            !.last = new, !.size = @ + 1]
           m  == IF q1.size = 0 THEN [n EXCEPT !.head = new]
                 ELSE [n EXCEPT !.node[q1.last].next = new]
           i  == Len(c) + 1
           d  == Inserted(c, i, new)
<1>1. /\ q \in Lists /\ ListOf(q, c) /\ c \in Seq(Nodes) /\ Len(c) \in Nat
      /\ q.size = Len(c)
      /\ \A k \in 1 .. Len(c) :
           /\ c[k] \in Nodes /\ q.node[c[k]] \in Cells
           /\ q.node[c[k]].pkt \in Packets
           /\ q.pkt[q.node[c[k]].pkt] \in Structures
  BY ListFacts
<1>2. Len(c) > 0 => q.last = c[Len(c)]  BY DEF SenderListOf
<1>3. /\ q1 \in Lists /\ q1.head = q.head /\ q1.last = q.last
      /\ q1.size = q.size /\ q1.corrupt = q.corrupt /\ q1.node = q.node
      /\ q1.pkt = [q.pkt EXCEPT ![a] = p]
  <2>1. q1 = SetPkt(q, a, p)  BY DEF SetPkt
  <2> HIDE DEF q1
  <2> QED  BY <1>1, <2>1, SetPacket
<1>4. new # NULL /\ FREE \notin Cells /\ NULL \notin Nodes
  BY LinkedListAssumption
<1>5. r = [ret |-> 0, queue |-> m]  BY <1>4 DEF queue_push, Pushed
<1> HIDE DEF q1
<1> DEFINE cell == [pkt |-> a, next |-> NULL]
<1>6. cell \in Cells  BY DEF Cells
<1>7. /\ n \in Lists /\ n.head = q.head /\ n.last = new
      /\ n.size = q.size + 1 /\ n.corrupt = q.corrupt
      /\ n.node = [q.node EXCEPT ![new] = cell] /\ n.pkt = q1.pkt
  <2> HIDE DEF cell
  <2> DEFINE n1 == [q1 EXCEPT !.node[new] = cell]
             n2 == [n1 EXCEPT !.last = new]
  <2>1. /\ n1 \in Lists /\ n1.head = q.head /\ n1.size = q.size
        /\ n1.corrupt = q.corrupt /\ n1.pkt = q1.pkt
        /\ n1.node = [q.node EXCEPT ![new] = cell]
    BY <1>3, <1>6 DEF Lists
  <2> HIDE DEF n1
  <2>2. /\ n2 \in Lists /\ n2.head = q.head /\ n2.size = q.size
        /\ n2.last = new /\ n2.corrupt = q.corrupt /\ n2.pkt = q1.pkt
        /\ n2.node = n1.node
    BY <2>1 DEF Lists
  <2>3. n = [n2 EXCEPT !.size = @ + 1]  BY DEF cell, n1
  <2> HIDE DEF n2, n
  <2> QED  BY <2>1, <2>2, <2>3 DEF Lists
<1> HIDE DEF n
<1>8. /\ m \in Lists /\ m.last = new /\ m.size = q.size + 1
      /\ m.corrupt = q.corrupt /\ m.pkt = q1.pkt
      /\ m.head = IF i = 1 THEN new ELSE q.head
      /\ m.node = IF i = 1 THEN n.node
                  ELSE [n.node EXCEPT
                          ![c[i - 1]] = [n.node[c[i - 1]] EXCEPT !.next = new]]
  <2>1. CASE q.size = 0
    <3>1. i = 1 /\ m = [n EXCEPT !.head = new]  BY <1>1, <1>3, <2>1
    <3> QED  BY <1>7, <3>1 DEF Lists
  <2>2. CASE q.size # 0
    <3>1. /\ i # 1 /\ i - 1 = Len(c) /\ Len(c) \in 1 .. Len(c)
          /\ q1.last = c[i - 1] /\ c[i - 1] \in Nodes
          /\ c[i - 1] # new
      <4>1. i # 1 /\ i - 1 = Len(c) /\ Len(c) \in 1 .. Len(c)
        BY <1>1, <2>2
      <4>2. q.node[c[i - 1]] # FREE  BY <1>1, <1>4, <4>1
      <4> QED  BY <1>1, <1>2, <1>3, <4>1, <4>2
    <3> DEFINE before == n.node[c[i - 1]]
    <3>2. before = q.node[c[i - 1]] /\ before \in Cells
      BY <1>1, <1>7, <3>1
    <3> HIDE DEF before
    <3>3. [before EXCEPT !.next = new] \in Cells  BY <3>2 DEF Cells
    <3>4. m = [n EXCEPT !.node[c[i - 1]] = [before EXCEPT !.next = new]]
      BY <1>3, <2>2, <3>1 DEF before
    <3> DEFINE linked == [before EXCEPT !.next = new]
    <3> HIDE DEF linked
    <3>5. m = [n EXCEPT !.node[c[i - 1]] = linked] /\ linked \in Cells
      BY <3>3, <3>4 DEF linked
    <3> HIDE DEF m
    <3>6. /\ m \in Lists /\ m.last = new /\ m.size = q.size + 1
          /\ m.corrupt = q.corrupt /\ m.pkt = q1.pkt /\ m.head = q.head
          /\ m.node = [n.node EXCEPT ![c[i - 1]] = linked]
      BY <1>7, <3>1, <3>5 DEF Lists
    <3> QED  BY <3>1, <3>6 DEF linked, before
  <2> QED  BY <2>1, <2>2
<1> HIDE DEF m
<1>9. /\ d \in Seq(Nodes) /\ Len(d) = Len(c) + 1
      /\ \A k \in 1 .. Len(c) : d[k] = c[k]
      /\ d[i] = new /\ i \in 1 .. Len(d)
  <2>1. i \in 1 .. Len(c) + 1  BY <1>1
  <2>2. /\ d \in Seq(Nodes) /\ Len(d) = Len(c) + 1
        /\ \A k \in 1 .. Len(c) + 1 :
             d[k] = IF k < i THEN c[k] ELSE IF k = i THEN new ELSE c[k - 1]
    BY <1>1, <2>1, InsertedIs
  <2> QED  BY <1>1, <2>1, <2>2
<1>10. d = Append(c, new)
  <2>1. /\ Append(c, new) \in Seq(Nodes) /\ Len(Append(c, new)) = Len(c) + 1
        /\ \A k \in 1 .. Len(c) : Append(c, new)[k] = c[k]
        /\ Append(c, new)[Len(c) + 1] = new
    BY <1>1, AppendProperties
  <2>2. \A k \in 1 .. Len(d) : d[k] = Append(c, new)[k]
    BY <1>1, <1>9, <2>1
  <2> HIDE DEF d
  <2> QED  BY <1>9, <2>1, <2>2, SeqEqual
<1>11. IsList(m.head, q.size + 1, m.node, m.pkt, d)
  <2>1. IsList(q.head, q.size, q.node, q.pkt, c)  BY <1>1 DEF ListOf
  <2>2. m.node[new] = [pkt |-> a, next |-> Pointer(c, i)]
    <3>1. i > 1 => c[i - 1] # new
      <4>1. i > 1 => i - 1 \in 1 .. Len(c)  BY <1>1
      <4> QED  BY <1>1, <1>4, <4>1
    <3>2. n.node[new] = cell  BY <1>1, <1>7 DEF Lists
    <3>3. m.node[new] = cell
      BY <1>1, <1>7, <1>8, <3>1, <3>2 DEF Lists
    <3>4. Pointer(c, i) = NULL  BY <1>1 DEF Pointer
    <3> QED  BY <3>3, <3>4
  <2>3. i > 1 => m.node[c[i - 1]] = [q.node[c[i - 1]] EXCEPT !.next = new]
    <3> SUFFICES ASSUME i > 1
                 PROVE  m.node[c[i - 1]] = [q.node[c[i - 1]] EXCEPT !.next = new]
      OBVIOUS
    <3>1. i - 1 \in 1 .. Len(c)  BY <1>1
    <3>2. c[i - 1] \in Nodes /\ c[i - 1] # new  BY <1>1, <1>4, <3>1
    <3>3. n.node[c[i - 1]] = q.node[c[i - 1]]  BY <1>7, <3>2
    <3>4. n.node \in [Nodes -> Cells \cup {FREE}]  BY <1>7 DEF Lists
    <3> QED  BY <1>8, <3>2, <3>3, <3>4
  <2>4. \A b \in Nodes :
          b # new /\ (i = 1 \/ b # c[i - 1]) => m.node[b] = q.node[b]
    BY <1>1, <1>7, <1>8 DEF Lists
  <2>5. m.pkt[a] # FREE /\ \A b \in Packets : b # a => m.pkt[b] = q.pkt[b]
    BY <1>1, <1>3, <1>8, SenderListAssumption DEF Lists
  <2>6. i \in 1 .. Len(c) + 1  BY <1>1
  <2> DEFINE head2 == m.head
             node2 == m.node
             pkt2  == m.pkt
  <2>7. head2 = IF i = 1 THEN new ELSE q.head  BY <1>8
  <2> HIDE DEF head2, node2, pkt2, i, d
  <2>8. IsList(head2, q.size + 1, node2, pkt2, Inserted(c, i, new))
    BY <2>1, <2>2, <2>3, <2>4, <2>5, <2>6, <2>7, ListInsert
    DEF node2, pkt2
  <2> QED  BY <2>8 DEF head2, node2, pkt2, d
<1>12. SenderListOf(m, d)
  <2>1. ListOf(m, d)  BY <1>8, <1>11 DEF ListOf
  <2>2. m.last = d[Len(d)]  BY <1>1, <1>8, <1>9
  <2> HIDE DEF d
  <2> QED  BY <1>8, <2>1, <2>2 DEF SenderListOf
<1>13. EntriesOf(m, d) = Append(EntriesOf(q, c), Entry(p))
  <2> DEFINE e == EntriesOf(q, c)
             f == EntriesOf(m, d)
             g == Append(e, Entry(p))
  <2>1. e \in Seq(EntryType) /\ Len(e) = Len(c)
        /\ \A k \in 1 .. Len(c) : e[k] = Entry(q.pkt[q.node[c[k]].pkt])
    BY EntriesType
  <2>2. f \in Seq(EntryType) /\ Len(f) = Len(d)
        /\ \A k \in 1 .. Len(d) : f[k] = Entry(m.pkt[m.node[d[k]].pkt])
    BY <1>12, EntriesType
  <2>3. Entry(p) \in EntryType  BY DEF Entry, EntryType, Structures
  <2> HIDE DEF e, f
  <2>4. /\ g \in Seq(EntryType) /\ Len(g) = Len(e) + 1
        /\ \A k \in 1 .. Len(e) : g[k] = e[k]
        /\ g[Len(e) + 1] = Entry(p)
    BY <2>1, <2>3, AppendProperties
  <2>5. ASSUME NEW k \in 1 .. Len(c)
        PROVE  m.pkt[m.node[d[k]].pkt] = q.pkt[q.node[c[k]].pkt]
    <3>1. d[k] = c[k] /\ c[k] \in Nodes /\ c[k] # new
      BY <1>1, <1>4, <1>9
    <3>2. n.node[c[k]] = q.node[c[k]] /\ q.node[c[k]] \in Cells
      BY <1>1, <1>7, <3>1
    <3>3. m.node[c[k]].pkt = q.node[c[k]].pkt
      <4>1. n.node \in [Nodes -> Cells \cup {FREE}]  BY <1>7 DEF Lists
      <4>2. CASE i = 1 \/ c[k] # c[i - 1]
        <5>1. i # 1 => i - 1 \in 1 .. Len(c)  BY <1>1
        <5>2. m.node[c[k]] = n.node[c[k]]
          BY <1>1, <1>8, <3>1, <4>1, <4>2, <5>1
        <5> QED  BY <3>2, <5>2
      <4>3. CASE i # 1 /\ c[k] = c[i - 1]
        <5>1. m.node[c[k]] = [q.node[c[k]] EXCEPT !.next = new]
          BY <1>8, <3>1, <3>2, <4>1, <4>3
        <5> QED  BY <3>2, <5>1 DEF Cells
      <4> QED  BY <4>2, <4>3
    <3>4. q.node[c[k]].pkt \in Packets /\ q.node[c[k]].pkt # a
      BY <1>1, SenderListAssumption
    <3>5. m.pkt[q.node[c[k]].pkt] = q.pkt[q.node[c[k]].pkt]
      BY <1>1, <1>3, <1>8, <3>4 DEF Lists
    <3> QED  BY <3>1, <3>3, <3>5
  <2>6. m.pkt[m.node[d[i]].pkt] = p
    <3>1. m.node[d[i]].pkt = a
      <4>1. m.node[new] = cell
        <5>1. i > 1 => c[i - 1] # new
          <6>1. i > 1 => i - 1 \in 1 .. Len(c)  BY <1>1
          <6> QED  BY <1>1, <1>4, <6>1
        <5> QED  BY <1>1, <1>7, <1>8, <5>1 DEF Lists
      <4> QED  BY <1>9, <4>1
    <3>2. m.pkt[a] = p  BY <1>1, <1>3, <1>8 DEF Lists
    <3> QED  BY <3>1, <3>2
  <2>7. \A k \in 1 .. Len(f) : f[k] = g[k]
    <3> HIDE DEF g, d
    <3>1. ASSUME NEW k \in 1 .. Len(c)  PROVE f[k] = g[k]
      <4>1. k \in 1 .. Len(d) /\ k \in 1 .. Len(e)  BY <1>1, <1>9, <2>1
      <4> QED  BY <2>1, <2>2, <2>4, <2>5, <4>1
    <3>2. f[i] = g[i]  BY <1>9, <2>1, <2>2, <2>4, <2>6
    <3> QED  BY <1>1, <1>9, <2>2, <3>1, <3>2
  <2>8. Len(f) = Len(g)  BY <1>9, <2>1, <2>2, <2>4
  <2> HIDE DEF g
  <2>9. f = g  BY <2>2, <2>4, <2>7, <2>8, SeqEqual
  <2> QED  BY <2>9 DEF f, g, e
<1> HIDE DEF d
<1>14. r.ret = 0 /\ r.queue = m  BY <1>5
<1> QED  BY <1>8, <1>10, <1>12, <1>13, <1>14

(* queue_push without a node frees the packet, and leaves the list as it   *)
(* was; a second free of the packet is noticed, and does nothing else.     *)
LEMMA PushFails ==
  ASSUME NEW q, NEW c, SenderListOf(q, c), NEW a \in Packets, q.pkt[a] = FREE,
         NEW p \in Structures,
         NEW r, r = Pushed(q, a, p, NULL)
  PROVE  /\ r.ret = -1 /\ r.queue.corrupt = q.corrupt
         /\ SenderListOf(r.queue, c)
         /\ EntriesOf(r.queue, c) = EntriesOf(q, c)
         /\ pkt_del(r.queue, a).corrupt
         /\ SenderListOf(pkt_del(r.queue, a), c)
         /\ EntriesOf(pkt_del(r.queue, a), c) = EntriesOf(q, c)
<1> DEFINE q1 == SetPkt(q, a, p)
           q2 == pkt_del(q1, a)
           q3 == pkt_del(q2, a)
<1>1. q \in Lists /\ a # NULL  BY LinkedListAssumption DEF SenderListOf
<1>2. r = [ret |-> -1, queue |-> q2]  BY DEF queue_push, SetPkt, Pushed
<1>3. /\ q1 \in Lists /\ q1.head = q.head /\ q1.last = q.last
      /\ q1.size = q.size /\ q1.corrupt = q.corrupt /\ q1.node = q.node
      /\ q1.pkt = [q.pkt EXCEPT ![a] = p]
  BY <1>1, SetPacket
<1> HIDE DEF q1
<1>4. q1.pkt[a] # FREE
  BY <1>1, <1>3, SenderListAssumption DEF Lists
<1>5. /\ q2 \in Lists /\ q2.head = q1.head /\ q2.last = q1.last
      /\ q2.size = q1.size /\ q2.corrupt = q1.corrupt /\ q2.node = q1.node
      /\ q2.pkt = [q1.pkt EXCEPT ![a] = FREE]
  BY <1>3, <1>4, DeletePacket
<1> HIDE DEF q2
<1>6. q2.pkt = q.pkt  BY <1>1, <1>3, <1>5 DEF Lists
<1>7. SenderListOf(q2, c) /\ EntriesOf(q2, c) = EntriesOf(q, c)
  BY <1>1, <1>3, <1>5, <1>6, SameFields
<1>8. q3 = [q2 EXCEPT !.corrupt = TRUE]  BY <1>1, <1>6 DEF pkt_del
<1> HIDE DEF q3
<1>9. /\ q3 \in Lists /\ q3.head = q2.head /\ q3.last = q2.last
      /\ q3.size = q2.size /\ q3.node = q2.node /\ q3.pkt = q2.pkt
      /\ q3.corrupt
  BY <1>5, <1>8 DEF Lists
<1>10. SenderListOf(q3, c) /\ EntriesOf(q3, c) = EntriesOf(q2, c)
  BY <1>5, <1>7, <1>9, SameFields
<1>11. r.ret = -1 /\ r.queue = q2  BY <1>2
<1> QED  BY <1>3, <1>5, <1>7, <1>9, <1>10, <1>11 DEF q3

(* One turn of the loop of queue_delete frees the first node of the list   *)
(* and its packet, and head becomes the node that came after it.           *)
LEMMA PopIs ==
  ASSUME NEW q, NEW c, SenderListOf(q, c), c # << >>,
         NEW r, r = pkt_del(queue_pop(q).queue, queue_pop(q).pkt)
  PROVE  /\ q.head = c[1] /\ 1 \in 1 .. Len(c)
         /\ r.head = q.node[q.head].next /\ r.corrupt = q.corrupt
         /\ SenderListOf(r, Tail(c))
         /\ EntriesOf(r, Tail(c)) = Tail(EntriesOf(q, c))
<1> DEFINE q1 == RemoveHead(q)
           a  == q.node[q.head].pkt
           d  == Tail(c)
<1>1. /\ q \in Lists /\ ListOf(q, c) /\ c \in Seq(Nodes) /\ Len(c) \in Nat
      /\ q.size = Len(c)
      /\ \A k \in 1 .. Len(c) :
           /\ c[k] \in Nodes /\ q.node[c[k]] \in Cells
           /\ q.node[c[k]].pkt \in Packets
           /\ q.pkt[q.node[c[k]].pkt] \in Structures
  BY ListFacts
<1>2. 1 \in 1 .. Len(c) /\ Len(c) # 0
  <2>1. Len(c) # 0  BY <1>1, EmptySeq
  <2> QED  BY <1>1, <2>1
<1>3. q.head = c[1]
  <2>1. q.head = Pointer(c, 1)  BY <1>1 DEF ListOf, IsList
  <2> QED  BY <1>2, <2>1 DEF Pointer
<1>4. /\ q.head \in Nodes /\ q.node[q.head] \in Cells /\ a \in Packets
      /\ q.pkt[a] \in Structures /\ q.pkt[a] # FREE
  BY <1>1, <1>2, <1>3, SenderListAssumption
<1>5. r = pkt_del(q1, a)  BY <1>1, <1>2 DEF queue_pop
<1>6. /\ q1 \in Lists /\ q1.head = q.node[q.head].next /\ q1.last = q.last
      /\ q1.size = q.size - 1 /\ q1.corrupt = q.corrupt /\ q1.pkt = q.pkt
      /\ q1.node = [q.node EXCEPT ![q.head] = FREE]
  <2> DEFINE n1 == [q EXCEPT !.head = q.node[q.head].next]
             n2 == [n1 EXCEPT !.node[q.head] = FREE]
  <2>1. q.node[q.head].next \in Nodes \cup {NULL}  BY <1>4 DEF Cells
  <2>2. /\ n1 \in Lists /\ n1.head = q.node[q.head].next /\ n1.last = q.last
        /\ n1.size = q.size /\ n1.corrupt = q.corrupt /\ n1.pkt = q.pkt
        /\ n1.node = q.node
    BY <1>1, <2>1 DEF Lists
  <2>3. q1 = [n2 EXCEPT !.size = @ - 1]  BY DEF RemoveHead
  <2> HIDE DEF n1, q1
  <2>4. /\ n2 \in Lists /\ n2.head = n1.head /\ n2.last = n1.last
        /\ n2.size = n1.size /\ n2.corrupt = n1.corrupt /\ n2.pkt = n1.pkt
        /\ n2.node = [q.node EXCEPT ![q.head] = FREE]
    BY <1>4, <2>2 DEF Lists
  <2> HIDE DEF n2
  <2>5. n2.size - 1 \in Nat  BY <1>1, <1>2, <2>2, <2>4
  <2>6. /\ q1 \in Lists /\ q1.head = n2.head /\ q1.last = n2.last
        /\ q1.size = n2.size - 1 /\ q1.corrupt = n2.corrupt
        /\ q1.pkt = n2.pkt /\ q1.node = n2.node
    BY <2>3, <2>4, <2>5 DEF Lists
  <2> QED  BY <2>2, <2>4, <2>6
<1> HIDE DEF q1, a
<1>7. /\ r \in Lists /\ r.head = q1.head /\ r.last = q1.last
      /\ r.size = q1.size /\ r.corrupt = q1.corrupt /\ r.node = q1.node
      /\ r.pkt = [q1.pkt EXCEPT ![a] = FREE]
  BY <1>4, <1>5, <1>6, DeletePacket
<1>8. IsList(r.head, r.size, r.node, r.pkt, d)
  <2> DEFINE node2 == r.node
             pkt2  == r.pkt
  <2>1. IsList(q.head, q.size, q.node, q.pkt, c)  BY <1>1 DEF ListOf
  <2>2. node2[q.head] = FREE
        /\ \A b \in Nodes : b # q.head => node2[b] = q.node[b]
    BY <1>1, <1>4, <1>6, <1>7 DEF Lists
  <2>3. pkt2[q.node[q.head].pkt] = FREE
        /\ \A b \in Packets : b # q.node[q.head].pkt => pkt2[b] = q.pkt[b]
    BY <1>1, <1>4, <1>6, <1>7 DEF Lists, a
  <2> HIDE DEF node2, pkt2
  <2>4. IsList(q.node[q.head].next, q.size - 1, node2, pkt2, Tail(c))
    BY <2>1, <2>2, <2>3, ListTail
  <2> QED  BY <1>6, <1>7, <2>4 DEF node2, pkt2
<1>9. /\ d \in Seq(Nodes) /\ Len(d) = Len(c) - 1
      /\ \A k \in 1 .. Len(d) : d[k] = c[k + 1] /\ k + 1 \in 1 .. Len(c)
  <2>1. d \in Seq(Nodes) /\ Len(d) = Len(c) - 1
        /\ \A k \in 1 .. Len(d) : d[k] = c[k + 1]
    BY <1>1, HeadTailProperties
  <2> QED  BY <1>1, <2>1
<1> HIDE DEF d
<1>10. SenderListOf(r, d)
  <2>1. ListOf(r, d)  BY <1>8 DEF ListOf
  <2>2. Len(d) > 0 => r.last = d[Len(d)]
    <3> SUFFICES ASSUME Len(d) > 0  PROVE r.last = d[Len(d)]  OBVIOUS
    <3>1. Len(d) \in 1 .. Len(d) /\ Len(d) + 1 = Len(c) /\ Len(c) > 0
      BY <1>1, <1>9
    <3>2. q.last = c[Len(c)]  BY <3>1 DEF SenderListOf
    <3> QED  BY <1>6, <1>7, <1>9, <3>1, <3>2
  <2> QED  BY <1>7, <2>1, <2>2 DEF SenderListOf
<1>11. EntriesOf(r, d) = Tail(EntriesOf(q, c))
  <2> DEFINE e == EntriesOf(q, c)
             f == EntriesOf(r, d)
  <2>1. e \in Seq(EntryType) /\ Len(e) = Len(c)
        /\ \A k \in 1 .. Len(c) : e[k] = Entry(q.pkt[q.node[c[k]].pkt])
    BY EntriesType
  <2>2. f \in Seq(EntryType) /\ Len(f) = Len(d)
        /\ \A k \in 1 .. Len(d) : f[k] = Entry(r.pkt[r.node[d[k]].pkt])
    BY <1>10, EntriesType
  <2> HIDE DEF e, f
  <2>3. e # << >>  BY <1>2, <2>1, EmptySeq
  <2>4. /\ Tail(e) \in Seq(EntryType) /\ Len(Tail(e)) = Len(e) - 1
        /\ \A k \in 1 .. Len(Tail(e)) : Tail(e)[k] = e[k + 1]
    BY <2>1, <2>3, HeadTailProperties
  <2>5. ASSUME NEW k \in 1 .. Len(d)
        PROVE  r.pkt[r.node[d[k]].pkt] = q.pkt[q.node[c[k + 1]].pkt]
    <3>1. /\ d[k] = c[k + 1] /\ k + 1 \in 1 .. Len(c) /\ k + 1 # 1
          /\ c[k + 1] \in Nodes
      BY <1>1, <1>9
    <3>2. c[k + 1] # c[1] /\ q.node[c[k + 1]].pkt # q.node[c[1]].pkt
      BY <1>1, <1>2, <3>1 DEF ListOf, IsList
    <3>3. r.node[d[k]] = q.node[c[k + 1]]
      BY <1>1, <1>3, <1>4, <1>6, <1>7, <3>1, <3>2 DEF Lists
    <3>4. q.node[c[k + 1]].pkt \in Packets  BY <1>1, <3>1
    <3>5. q.node[c[k + 1]].pkt # a  BY <1>3, <3>2 DEF a
    <3>6. r.pkt[q.node[c[k + 1]].pkt] = q.pkt[q.node[c[k + 1]].pkt]
      BY <1>1, <1>4, <1>6, <1>7, <3>4, <3>5 DEF Lists
    <3> QED  BY <3>3, <3>6
  <2>6. \A k \in 1 .. Len(f) : f[k] = Tail(e)[k]
    <3> SUFFICES ASSUME NEW k \in 1 .. Len(d)  PROVE f[k] = Tail(e)[k]
      BY <2>2
    <3>1. k + 1 \in 1 .. Len(c) /\ k \in 1 .. Len(Tail(e))
      BY <1>9, <2>1, <2>4
    <3>2. Tail(e)[k] = Entry(q.pkt[q.node[c[k + 1]].pkt])
      BY <2>1, <2>4, <3>1
    <3> QED  BY <2>2, <2>5, <3>2
  <2>7. Len(f) = Len(Tail(e))  BY <1>9, <2>1, <2>2, <2>4
  <2> DEFINE g == Tail(e)
  <2> HIDE DEF g
  <2>8. f = g
    <3>1. g \in Seq(EntryType) /\ Len(f) = Len(g)
          /\ \A k \in 1 .. Len(f) : f[k] = g[k]
      BY <2>4, <2>6, <2>7 DEF g
    <3> QED  BY <2>2, <3>1, SeqEqual
  <2> QED  BY <2>8 DEF f, g, e
<1> QED  BY <1>2, <1>3, <1>6, <1>7, <1>10, <1>11 DEF d

(* queue_free leaves the empty list. *)
Freed(q) == [queue_free(q) EXCEPT !.head = NULL, !.size = 0]

LEMMA FreeIs ==
  ASSUME NEW q, NEW c, SenderListOf(q, c)
  PROVE  SenderListOf(Freed(q), << >>) /\ EntriesOf(Freed(q), << >>) = << >>
<1> DEFINE f == queue_free(q)
           r == Freed(q)
<1>1. q \in Lists /\ ListOf(q, c)  BY DEF SenderListOf
<1>2. /\ f.node = [a \in Nodes |-> FREE] /\ f.pkt = [a \in Packets |-> FREE]
  <2>1. "node" \in DOMAIN q /\ "pkt" \in DOMAIN q  BY <1>1 DEF Lists
  <2> QED  BY <1>1, <2>1, ListFreed
<1>3. f \in Lists
  <2> DEFINE node2 == [a \in Nodes |-> IF a \in Range(Chain(q)) THEN FREE
                                       ELSE q.node[a]]
             pkt2  == [a \in Packets |->
                         IF \E k \in Range(Chain(q)) : q.node[k].pkt = a
                         THEN FREE ELSE q.pkt[a]]
  <2>1. /\ node2 \in [Nodes -> Cells \cup {FREE}]
        /\ pkt2 \in [Packets -> Structures \cup {FREE}]
    BY <1>1 DEF Lists
  <2>2. f = [q EXCEPT !.node = node2, !.pkt = pkt2]
    BY <1>1 DEF queue_free, Lists
  <2> HIDE DEF node2, pkt2, f
  <2> QED  BY <1>1, <2>1, <2>2 DEF Lists
<1> HIDE DEF f
<1>4. /\ r \in Lists /\ r.head = NULL /\ r.size = 0 /\ r.node = f.node
      /\ r.pkt = f.pkt
  <2> DEFINE f1 == [f EXCEPT !.head = NULL]
  <2>1. r = [f1 EXCEPT !.size = 0]  BY DEF f, Freed
  <2>2. /\ f1 \in Lists /\ f1.head = NULL /\ f1.node = f.node
        /\ f1.pkt = f.pkt
    BY <1>3 DEF Lists
  <2> HIDE DEF f1, r
  <2> QED  BY <2>1, <2>2 DEF Lists
<1>5. IsList(r.head, r.size, r.node, r.pkt, << >>)
  <2> DEFINE node2 == r.node
             pkt2  == r.pkt
  <2>1. /\ \A a \in Nodes : node2[a] = FREE
        /\ \A a \in Packets : pkt2[a] = FREE
    BY <1>2, <1>4
  <2> HIDE DEF node2, pkt2
  <2>2. IsList(NULL, 0, node2, pkt2, << >>)  BY <2>1, ListEmpty
  <2> QED  BY <1>4, <2>2 DEF node2, pkt2
<1>6. Len(<< >>) = 0  BY EmptySeq
<1>7. SenderListOf(r, << >>)
  BY <1>4, <1>5, <1>6 DEF SenderListOf, ListOf
<1>8. EntriesOf(r, << >>) = << >>
  <2>1. /\ EntriesOf(r, << >>) \in Seq(EntryType)
        /\ Len(EntriesOf(r, << >>)) = 0
    BY <1>6, <1>7, EntriesType
  <2> QED  BY <2>1, EmptySeq
<1> QED  BY <1>7, <1>8

-----------------------------------------------------------------------------
(* What the sequence finds: the first packet with the number. *)
LEMMA FindIndexIs ==
  ASSUME NEW T, NEW e \in Seq(T), NEW s
  PROVE  /\ SQ!FindIndex(e, s) \in 0 .. Len(e) /\ Len(e) \in Nat
         /\ SQ!FindIndex(e, s) # 0 => e[SQ!FindIndex(e, s)].seqNum = s
         /\ \A i \in 1 .. Len(e) :
              e[i].seqNum = s
                => SQ!FindIndex(e, s) # 0 /\ SQ!FindIndex(e, s) <= i
<1> DEFINE hits == {i \in 1 .. Len(e) : e[i].seqNum = s}
<1>1. Len(e) \in Nat  BY LenProperties
<1>2. CASE hits = {}  BY <1>1, <1>2 DEF SQ!FindIndex
<1>3. CASE hits # {}
  <2>1. hits \subseteq Nat  BY <1>1
  <2>2. \E x \in hits : \A y \in hits : x <= y
    <3> HIDE DEF hits
    <3> QED  BY <1>3, <2>1, Smallest
  <2>3. SQ!FindIndex(e, s) = CHOOSE x \in hits : \A y \in hits : x <= y
    BY <1>3 DEF SQ!FindIndex, SQ!Min
  <2>4. SQ!FindIndex(e, s) \in hits /\ \A x \in hits : SQ!FindIndex(e, s) <= x
    <3> HIDE DEF hits
    <3> QED  BY <2>2, <2>3
  <2> QED  BY <1>1, <2>4
<1> QED  BY <1>2, <1>3

(* The list finds the packet that the sequence finds. *)
LEMMA FindIs ==
  ASSUME NEW q, NEW c, SenderListOf(q, c), NEW s
  PROVE  LET k == SQ!FindIndex(EntriesOf(q, c), s)
         IN  /\ k \in 0 .. Len(c)
             /\ k = 0 => queue_find_ack_structure(q, s) = NULL
             /\ k # 0 => /\ queue_find_ack_structure(q, s) = q.node[c[k]].pkt
                         /\ q.node[c[k]].pkt \in Packets
<1> DEFINE e == EntriesOf(q, c)
           k == SQ!FindIndex(e, s)
           hits == {i \in 1 .. Len(c) : PacketAt(q, c[i]).seqNum = s}
<1>1. /\ Chain(q) = c /\ Len(c) \in Nat
      /\ \A i \in 1 .. Len(c) : q.node[c[i]].pkt \in Packets
  BY ListFacts
<1>2. /\ e \in Seq(EntryType) /\ Len(e) = Len(c)
      /\ \A i \in 1 .. Len(c) : e[i].seqNum = PacketAt(q, c[i]).seqNum
  BY EntriesType
<1> HIDE DEF e
<1>3. /\ k \in 0 .. Len(c) /\ (k # 0 => e[k].seqNum = s)
      /\ \A i \in 1 .. Len(c) : e[i].seqNum = s => k # 0 /\ k <= i
  BY <1>2, FindIndexIs
<1> HIDE DEF k
<1>4. queue_find_ack_structure(q, s)
        = IF hits = {} THEN NULL ELSE q.node[c[Min(hits)]].pkt
  BY <1>1 DEF queue_find_ack_structure
<1>5. CASE k = 0
  <2>1. hits = {}  BY <1>2, <1>3, <1>5
  <2> QED  BY <1>3, <1>4, <1>5, <2>1 DEF k, e
<1>6. CASE k # 0
  <2>1. k \in 1 .. Len(c)  BY <1>1, <1>3, <1>6
  <2>2. k \in hits /\ \A y \in hits : k <= y /\ y \in Nat
    BY <1>1, <1>2, <1>3, <2>1
  <2>3. Min(hits) = k
    <3> HIDE DEF hits
    <3>1. \A x \in hits : (\A y \in hits : x <= y) => x = k
      <4> SUFFICES ASSUME NEW x \in hits, \A y \in hits : x <= y
                   PROVE  x = k
        OBVIOUS
      <4>1. x <= k /\ k <= x /\ x \in Nat /\ k \in Nat  BY <2>2
      <4> QED  BY <4>1
    <3> QED  BY <2>2, <3>1 DEF Min
  <2> QED  BY <1>1, <1>3, <1>4, <2>1, <2>2, <2>3 DEF k, e
<1> QED  BY <1>5, <1>6

(* A NACK resets the timestamp of the packet that is found. *)
LEMMA NackIs ==
  ASSUME NEW q, NEW c, SenderListOf(q, c), NEW s,
         NEW r, r = queue_find_nack_structure(q, s)
  PROVE  /\ SenderListOf(r, c) /\ r.corrupt = q.corrupt
         /\ EntriesOf(r, c) = SQ!queue_find_nack(EntriesOf(q, c), s)
<1> DEFINE e == EntriesOf(q, c)
           k == SQ!FindIndex(e, s)
           a == queue_find_ack_structure(q, s)
<1>1. /\ k \in 0 .. Len(c) /\ (k = 0 => a = NULL)
      /\ k # 0 => a = q.node[c[k]].pkt /\ a \in Packets
  BY FindIs
<1>2. r = IF a = NULL THEN q ELSE [q EXCEPT !.pkt[a].timestamp = 0]
  BY DEF queue_find_nack_structure
<1> HIDE DEF a
<1>3. SQ!queue_find_nack(e, s)
        = IF k = 0 THEN e ELSE [e EXCEPT ![k].age = -1]
  BY DEF SQ!queue_find_nack, SQ!Nacked
<1> HIDE DEF k
<1>4. CASE k = 0  BY <1>1, <1>2, <1>3, <1>4
<1>5. CASE k # 0
  <2>1. /\ q \in Lists /\ ListOf(q, c) /\ Len(c) \in Nat
        /\ \A i \in 1 .. Len(c) :
             /\ c[i] \in Nodes /\ q.node[c[i]].pkt \in Packets
             /\ q.pkt[q.node[c[i]].pkt] \in Structures
    BY ListFacts
  <2>2. k \in 1 .. Len(c) /\ a = q.node[c[k]].pkt /\ a \in Packets
    BY <1>1, <1>5, <2>1
  <2>3. a # NULL /\ q.pkt[a] \in Structures
    BY <2>1, <2>2, LinkedListAssumption
  <2> DEFINE v == [q.pkt[a] EXCEPT !.timestamp = 0]
  <2>4. /\ v \in Structures /\ v.seqNum = q.pkt[a].seqNum
        /\ v.timestamp = 0
    BY <2>3 DEF Structures
  <2>5. r = SetPkt(q, a, v)  BY <1>2, <2>3 DEF SetPkt
  <2> HIDE DEF v
  <2>6. /\ r \in Lists /\ r.head = q.head /\ r.last = q.last
        /\ r.size = q.size /\ r.corrupt = q.corrupt /\ r.node = q.node
        /\ r.pkt = [q.pkt EXCEPT ![a] = v]
    BY <2>1, <2>2, <2>4, <2>5, SetPacket
  <2>7. SenderListOf(r, c)
    <3> DEFINE pkt2 == r.pkt
    <3>1. IsList(q.head, q.size, q.node, q.pkt, c)  BY <2>1 DEF ListOf
    <3>2. \A b \in Packets : pkt2[b] # FREE <=> q.pkt[b] # FREE
      BY <2>1, <2>2, <2>3, <2>4, <2>6, SenderListAssumption DEF Lists
    <3> HIDE DEF pkt2
    <3>3. IsList(q.head, q.size, q.node, pkt2, c)  BY <3>1, <3>2, ListSame
    <3> QED  BY <2>6, <3>3 DEF pkt2, SenderListOf, ListOf
  <2> DEFINE f == EntriesOf(r, c)
             g == [e EXCEPT ![k].age = -1]
  <2>8. /\ e \in Seq(EntryType) /\ Len(e) = Len(c)
        /\ \A i \in 1 .. Len(c) : e[i] = Entry(q.pkt[q.node[c[i]].pkt])
    BY EntriesType
  <2>9. /\ f \in Seq(EntryType) /\ Len(f) = Len(c)
        /\ \A i \in 1 .. Len(c) : f[i] = Entry(r.pkt[r.node[c[i]].pkt])
    BY <2>7, EntriesType
  <2> HIDE DEF e, f
  <2>10. /\ DOMAIN e = 1 .. Len(c) /\ DOMAIN f = 1 .. Len(c)
         /\ e \in [1 .. Len(c) -> EntryType] /\ f \in [1 .. Len(c) -> EntryType]
    BY <2>8, <2>9, LenProperties
  <2>11. \A i \in 1 .. Len(c) : f[i] = g[i]
    <3> SUFFICES ASSUME NEW i \in 1 .. Len(c)  PROVE f[i] = g[i]
      OBVIOUS
    <3>1. CASE i = k
      <4>1. f[i] = Entry(v)  BY <2>1, <2>2, <2>6, <2>9, <3>1 DEF Lists
      <4>2. e[i] = Entry(q.pkt[a])  BY <2>2, <2>8, <3>1
      <4>3. g[i] = [e[i] EXCEPT !.age = -1]  BY <2>10, <3>1
      <4>4. Entry(v) = [Entry(q.pkt[a]) EXCEPT !.age = -1]
        BY <2>4 DEF Entry
      <4> QED  BY <4>1, <4>2, <4>3, <4>4
    <3>2. CASE i # k
      <4>1. q.node[c[i]].pkt # a  BY <2>1, <2>2, <3>2 DEF ListOf, IsList
      <4>2. r.pkt[r.node[c[i]].pkt] = q.pkt[q.node[c[i]].pkt]
        BY <2>1, <2>2, <2>6, <4>1 DEF Lists
      <4>3. f[i] = e[i]  BY <2>8, <2>9, <4>2
      <4>4. g[i] = e[i]  BY <2>10, <3>2
      <4> QED  BY <4>3, <4>4
    <3> QED  BY <3>1, <3>2
  <2>12. f = g
    <3>1. DOMAIN g = 1 .. Len(c) /\ g = [i \in 1 .. Len(c) |-> g[i]]
      BY <2>10
    <3>2. f = [i \in 1 .. Len(c) |-> f[i]]  BY <2>10
    <3> HIDE DEF g
    <3> QED  BY <2>11, <3>1, <3>2
  <2> QED  BY <1>3, <1>5, <2>6, <2>7, <2>12 DEF f, e
<1> QED  BY <1>1, <1>4, <1>5 DEF e

-----------------------------------------------------------------------------
(* The packet after those that have not the number has it: what is deleted *)
(* is all up to it.                                                        *)
LEMMA DeleteHit ==
  ASSUME NEW T, NEW g \in Seq(T), NEW e \in Seq(T), e # << >>, NEW s,
         \A i \in 1 .. Len(g) : g[i].seqNum # s, e[1].seqNum = s
  PROVE  /\ SQ!queue_delete(g \o e, s) = Tail(e)
         /\ Len(g \o e) - Len(Tail(e)) = Len(g) + 1
<1>1. Len(g) \in Nat /\ Len(e) \in Nat  BY LenProperties
<1>2. Len(e) # 0  BY EmptySeq
<1> DEFINE ge == g \o e
           k  == SQ!FindIndex(ge, s)
<1>3. /\ ge \in Seq(T) /\ Len(ge) = Len(g) + Len(e)
      /\ \A i \in 1 .. Len(g) + Len(e) :
           ge[i] = IF i <= Len(g) THEN g[i] ELSE e[i - Len(g)]
  BY ConcatProperties
<1> HIDE DEF ge
<1>4. /\ k \in 0 .. Len(ge) /\ (k # 0 => ge[k].seqNum = s)
      /\ \A i \in 1 .. Len(ge) : ge[i].seqNum = s => k # 0 /\ k <= i
  BY <1>3, FindIndexIs
<1> HIDE DEF k
<1>5. k = Len(g) + 1
  <2>1. Len(g) + 1 \in 1 .. Len(ge) /\ ge[Len(g) + 1] = e[1]
    <3>1. /\ Len(g) + 1 \in 1 .. Len(g) + Len(e) /\ ~ (Len(g) + 1 <= Len(g))
          /\ (Len(g) + 1) - Len(g) = 1
      BY <1>1, <1>2
    <3>2. ge[Len(g) + 1] = e[(Len(g) + 1) - Len(g)]  BY <1>3, <3>1
    <3> QED  BY <1>3, <3>1, <3>2
  <2>2. k # 0 /\ k <= Len(g) + 1  BY <1>4, <2>1
  <2>3. ~ (k <= Len(g))
    <3> SUFFICES ASSUME k <= Len(g)  PROVE FALSE  OBVIOUS
    <3>1. k \in 1 .. Len(g) /\ k \in 1 .. Len(g) + Len(e)
      BY <1>1, <1>3, <1>4, <2>2
    <3>2. ge[k] = g[k]  BY <1>3, <3>1
    <3> QED  BY <1>4, <2>2, <3>1, <3>2
  <2>4. k \in Nat  BY <1>1, <1>3, <1>4
  <2> QED  BY <1>1, <2>2, <2>3, <2>4
<1>6. SQ!queue_delete(ge, s) = SubSeq(ge, Len(g) + 2, Len(ge))
  <2>1. k # 0 /\ k + 1 = Len(g) + 2  BY <1>1, <1>5
  <2>2. SQ!queue_delete(ge, s) = SubSeq(ge, k + 1, Len(ge))
    BY <2>1 DEF SQ!queue_delete, k
  <2> QED  BY <2>1, <2>2
<1> DEFINE t == Tail(e)
           u == SubSeq(ge, Len(g) + 2, Len(ge))
<1>7. /\ t \in Seq(T) /\ Len(t) = Len(e) - 1
      /\ \A i \in 1 .. Len(t) : t[i] = e[i + 1]
  BY HeadTailProperties
<1>8. /\ u \in Seq(T) /\ Len(u) = Len(e) - 1
      /\ \A i \in 1 .. Len(u) : u[i] = ge[Len(g) + 2 + i - 1]
  <2> DEFINE m == Len(g) + 2
             n == Len(ge)
  <2>1. m \in Int /\ n \in Int /\ n - m + 1 = Len(e) - 1  BY <1>1, <1>3
  <2>2. \A i \in m .. n : ge[i] \in T
    <3>1. \A i \in m .. n : i \in 1 .. Len(ge)  BY <1>1, <1>3
    <3> QED  BY <1>3, <3>1, ElementOfSeq
  <2> HIDE DEF m, n
  <2>3. /\ SubSeq(ge, m, n) \in Seq(T)
        /\ Len(SubSeq(ge, m, n)) = IF m <= n THEN n - m + 1 ELSE 0
        /\ \A i \in 1 .. n - m + 1 : SubSeq(ge, m, n)[i] = ge[m + i - 1]
    BY <2>1, <2>2, SubSeqProperties
  <2>4. u = SubSeq(ge, m, n)  BY DEF m, n
  <2> HIDE DEF u
  <2>5. Len(u) = Len(e) - 1
    <3>1. ~ (m <= n) => Len(e) - 1 = 0
      <4> DEFINE l == Len(e)
      <4>1. l \in Nat /\ l # 0 /\ n - m + 1 = l - 1  BY <1>1, <1>2, <2>1
      <4> HIDE DEF l
      <4>2. ~ (m <= n) => l - 1 = 0  BY <2>1, <4>1
      <4> QED  BY <4>2 DEF l
    <3>2. Len(u) = IF m <= n THEN n - m + 1 ELSE 0  BY <2>3, <2>4
    <3> QED  BY <2>1, <3>1, <3>2
  <2> QED  BY <2>1, <2>3, <2>4, <2>5 DEF m
<1> HIDE DEF t, u
<1>9. \A i \in 1 .. Len(t) : t[i] = u[i]
  <2> SUFFICES ASSUME NEW i \in 1 .. Len(t)  PROVE t[i] = u[i]  OBVIOUS
  <2> DEFINE j == Len(g) + 2 + i - 1
  <2>1. /\ i \in 1 .. Len(u) /\ j \in 1 .. Len(g) + Len(e)
        /\ ~ (j <= Len(g)) /\ j - Len(g) = i + 1
    BY <1>1, <1>7, <1>8
  <2>2. u[i] = ge[j]  BY <1>8, <2>1
  <2> HIDE DEF j
  <2>3. ge[j] = e[j - Len(g)]  BY <1>3, <2>1
  <2>4. ge[j] = e[i + 1]  BY <2>1, <2>3
  <2> QED  BY <1>7, <2>2, <2>4
<1>10. u = t  BY <1>7, <1>8, <1>9, SeqEqual
<1>11. Len(ge) - Len(t) = Len(g) + 1  BY <1>1, <1>3, <1>7
<1> QED  BY <1>6, <1>10, <1>11 DEF u, t, ge

(* When none has the number, all are. *)
LEMMA DeleteMiss ==
  ASSUME NEW T, NEW g \in Seq(T), NEW s,
         \A i \in 1 .. Len(g) : g[i].seqNum # s
  PROVE  SQ!queue_delete(g, s) = << >>
<1> DEFINE k == SQ!FindIndex(g, s)
<1>1. k \in 0 .. Len(g) /\ Len(g) \in Nat /\ (k # 0 => g[k].seqNum = s)
  BY FindIndexIs
<1> HIDE DEF k
<1>2. k = 0
  <2>1. k # 0 => k \in 1 .. Len(g)  BY <1>1
  <2> QED  BY <1>1, <2>1
<1> QED  BY <1>2 DEF SQ!queue_delete, k

-----------------------------------------------------------------------------
(* What the state of a call that is not a deletion says of the next one,   *)
(* when the list becomes the nodes d, in one place for all such calls.     *)
LEMMA NewList ==
  ASSUME SLInv, status # "deleting", NEW d, SenderListOf(list', d),
         seqNum' \in Uint8, deletion' = deletion, gone' = gone,
         status' \in {"running", "returned", "aborted"}
  PROVE  /\ SLInv'
         /\ gone \o Entries = EntriesOf(list, Chain(list))
         /\ (gone \o Entries)' = EntriesOf(list', d)
<1>1. SenderListOf(list, Chain(list)) /\ gone = << >>  BY DEF SLInv
<1>2. Entries = Stands(list) /\ Entries' = Stands(list')
  BY DEF Entries, Stands
<1>3. /\ Stands(list) = EntriesOf(list, Chain(list))
      /\ Chain(list') = d /\ Stands(list') = EntriesOf(list', d)
  BY <1>1, StandsFor
<1>4. /\ EntriesOf(list, Chain(list)) \in Seq(EntryType)
      /\ EntriesOf(list', d) \in Seq(EntryType)
  BY <1>1, EntriesType
<1>5. /\ << >> \o Entries = Entries /\ << >> \o Entries' = Entries'
  BY <1>2, <1>3, <1>4, ConcatEmptySeq
<1>6. SLInv'
  <2>1. SenderListOf(list', Chain(list'))  BY <1>3
  <2> QED  BY <1>1, <2>1 DEF SLInv
<1> QED  BY <1>1, <1>2, <1>3, <1>5, <1>6

LEMMA PushStep ==
  ASSUME SLInv, NEW a \in FreePackets(list), NEW f \in BOOLEAN, PushNew(a, f)
  PROVE  SLInv' /\ SQ!Next
<1> DEFINE c == Chain(list)
           p == [seqNum |-> seqNum, timestamp |-> 1]
<1>1. /\ SenderListOf(list, c) /\ seqNum \in Uint8 /\ status = "running"
      /\ a \in Packets /\ list.pkt[a] = FREE
  BY DEF SLInv, PushNew, FreePackets
<1>2. p \in Structures /\ Entry(p) = [seqNum |-> seqNum, age |-> 0]
  BY <1>1 DEF Structures, Entry
<1>3. PICK new \in FreeNodes(list) \cup {NULL} :
        LET r == queue_push([list EXCEPT !.pkt[a] = p], a, new)
        IN  /\ Outcome("push", seqNum, r.ret)
            /\ list' = IF r.ret = -1 /\ f THEN pkt_del(r.queue, a)
                       ELSE r.queue
  BY DEF PushNew
<1> DEFINE r == queue_push([list EXCEPT !.pkt[a] = p], a, new)
<1>4. /\ op' = [name |-> "push", arg |-> seqNum, ret |-> r.ret]
      /\ list' = IF r.ret = -1 /\ f THEN pkt_del(r.queue, a) ELSE r.queue
  BY <1>3 DEF Outcome
<1>5. /\ seqNum' \in Uint8 /\ deletion' = deletion /\ gone' = gone
      /\ status' \in {"running", "returned", "aborted"}
  <2>1. Plus(seqNum, 1) \in Uint8
    BY <1>1, SeqSpaceAssumption DEF Plus, ToUint8, Uint8
  <2> QED  BY <1>1, <2>1 DEF PushNew
<1>6. CASE new # NULL
  <2>1. new \in Nodes /\ list.node[new] = FREE
    BY <1>3, <1>6 DEF FreeNodes
  <2>2. /\ r.ret = 0
        /\ SenderListOf(r.queue, Append(c, new))
        /\ EntriesOf(r.queue, Append(c, new))
             = Append(EntriesOf(list, c), Entry(p))
    <3>1. r = Pushed(list, a, p, new)  BY DEF Pushed
    <3> HIDE DEF c, p, r
    <3> QED  BY <1>1, <1>2, <2>1, <3>1, PushAppends
  <2> HIDE DEF c, p, r
  <2>3. list' = r.queue  BY <1>4, <2>2
  <2>4. /\ SLInv' /\ gone \o Entries = EntriesOf(list, c)
        /\ (gone \o Entries)' = EntriesOf(list', Append(c, new))
    BY <1>1, <1>5, <2>2, <2>3, NewList DEF c
  <2>5. (gone \o Entries)' = SQ!queue_push(gone \o Entries, Entry(p))
    BY <2>2, <2>3, <2>4 DEF SQ!queue_push
  <2>6. op' = [name |-> "push", arg |-> seqNum, ret |-> 0]
    BY <1>4, <2>2
  <2>7. SQ!Push(seqNum)  BY <1>2, <2>5, <2>6 DEF SQ!Push
  <2> QED  BY <1>1, <2>4, <2>7 DEF SQ!Next, SQ!Uint8, Uint8
<1>7. CASE new = NULL
  <2>1. /\ r.ret = -1 /\ SenderListOf(r.queue, c)
        /\ EntriesOf(r.queue, c) = EntriesOf(list, c)
        /\ SenderListOf(pkt_del(r.queue, a), c)
        /\ EntriesOf(pkt_del(r.queue, a), c) = EntriesOf(list, c)
    <3>1. r = Pushed(list, a, p, NULL)  BY <1>7 DEF Pushed
    <3> HIDE DEF c, p, r
    <3> QED  BY <1>1, <1>2, <3>1, PushFails
  <2> HIDE DEF c, p, r
  <2>2. SenderListOf(list', c) /\ EntriesOf(list', c) = EntriesOf(list, c)
    BY <1>4, <2>1
  <2>3. /\ SLInv' /\ gone \o Entries = EntriesOf(list, c)
        /\ (gone \o Entries)' = EntriesOf(list', c)
    BY <1>1, <1>5, <2>2, NewList DEF c
  <2>4. op' = [name |-> "push", arg |-> seqNum, ret |-> -1]
    BY <1>4, <2>1
  <2>5. SQ!Push(seqNum)  BY <2>2, <2>3, <2>4 DEF SQ!Push
  <2> QED  BY <1>1, <2>3, <2>5 DEF SQ!Next, SQ!Uint8, Uint8
<1> QED  BY <1>6, <1>7

LEMMA FindStep ==
  ASSUME SLInv, NEW s \in Uint8, FindNack(s) \/ FindAck(s)
  PROVE  SLInv' /\ SQ!Next
<1> DEFINE c == Chain(list)
           e == EntriesOf(list, c)
<1>1. SenderListOf(list, c) /\ seqNum \in Uint8 /\ status = "running"
  BY DEF SLInv, FindNack, FindAck
<1>2. Found(s) = IF SQ!FindIndex(e, s) = 0 THEN 0 ELSE 1
  <2> DEFINE k == SQ!FindIndex(e, s)
             a == queue_find_ack_structure(list, s)
  <2>1. /\ k = 0 => a = NULL
        /\ k # 0 => a = list.node[c[k]].pkt /\ list.node[c[k]].pkt \in Packets
    BY <1>1, FindIs
  <2> HIDE DEF a
  <2>2. Found(s) = IF a = NULL THEN 0 ELSE 1  BY DEF Found, a
  <2> HIDE DEF k, e, c
  <2>3. k = 0 <=> a = NULL  BY <2>1, LinkedListAssumption
  <2> QED  BY <2>2, <2>3 DEF k
<1>3. /\ seqNum' \in Uint8 /\ deletion' = deletion /\ gone' = gone
      /\ status' \in {"running", "returned", "aborted"}
  BY <1>1 DEF FindNack, FindAck
<1>4. CASE FindNack(s)
  <2>1. /\ list' = queue_find_nack_structure(list, s)
        /\ op' = [name |-> "nack", arg |-> s, ret |-> Found(s)]
    BY <1>4 DEF FindNack, Outcome
  <2>2. /\ SenderListOf(list', c)
        /\ EntriesOf(list', c) = SQ!queue_find_nack(e, s)
    <3> HIDE DEF c
    <3> QED  BY <1>1, <2>1, NackIs
  <2>3. /\ SLInv' /\ gone \o Entries = e
        /\ (gone \o Entries)' = EntriesOf(list', c)
    <3> HIDE DEF e
    <3> QED  BY <1>1, <1>3, <2>2, NewList DEF c, e
  <2> HIDE DEF c, e
  <2>4. SQ!FindNack(s)
    BY <1>2, <2>1, <2>2, <2>3
    DEF SQ!FindNack, SQ!Found, SQ!queue_find_ack
  <2> QED  BY <2>3, <2>4 DEF SQ!Next, SQ!Uint8, Uint8
<1>5. CASE FindAck(s)
  <2>1. list' = list /\ op' = [name |-> "ack", arg |-> s, ret |-> Found(s)]
    BY <1>5 DEF FindAck, Outcome
  <2>2. SenderListOf(list', c)  BY <1>1, <2>1
  <2>3. /\ SLInv' /\ gone \o Entries = e
        /\ (gone \o Entries)' = EntriesOf(list', c)
    <3> HIDE DEF e
    <3> QED  BY <1>1, <1>3, <2>2, NewList DEF c, e
  <2>4. EntriesOf(list', c) = e  BY <2>1
  <2> HIDE DEF c, e
  <2>5. SQ!FindAck(s)
    BY <1>2, <2>1, <2>3, <2>4 DEF SQ!FindAck, SQ!Found, SQ!queue_find_ack
  <2> QED  BY <2>3, <2>5 DEF SQ!Next, SQ!Uint8, Uint8
<1> QED  BY <1>4, <1>5

LEMMA FreeStep ==
  ASSUME SLInv, Return
  PROVE  SLInv' /\ SQ!Next
<1>1. /\ SenderListOf(list, Chain(list)) /\ seqNum \in Uint8
      /\ status = "running"
  BY DEF SLInv, Return
<1>2. list' = Freed(list) /\ op' = [name |-> "free"]
  BY DEF Return, Freed
<1>3. SenderListOf(list', << >>) /\ EntriesOf(list', << >>) = << >>
  BY <1>1, <1>2, FreeIs
<1>4. /\ seqNum' \in Uint8 /\ deletion' = deletion /\ gone' = gone
      /\ status' \in {"running", "returned", "aborted"}
  BY <1>1 DEF Return
<1>5. SLInv' /\ (gone \o Entries)' = EntriesOf(list', << >>)
  BY <1>1, <1>3, <1>4, NewList
<1>6. SQ!Free  BY <1>2, <1>3, <1>5 DEF SQ!Free
<1> QED  BY <1>5, <1>6 DEF SQ!Next

(* queue_delete is called: nothing happens to the sequence until it returns*)
LEMMA DeleteCalledStep ==
  ASSUME SLInv, NEW s \in Uint8, DeleteCalled(s)
  PROVE  SLInv' /\ (SQ!Next \/ UNCHANGED <<gone \o Entries, op>>)
<1> DEFINE c == Chain(list)
<1>1. /\ SenderListOf(list, c) /\ seqNum \in Uint8 /\ status = "running"
      /\ list' = list /\ seqNum' = seqNum /\ gone = << >>
      /\ c \in Seq(Nodes) /\ list.size = Len(c)
  <2>1. SenderListOf(list, c)  BY DEF SLInv
  <2>2. c \in Seq(Nodes) /\ list.size = Len(c)
    <3> HIDE DEF c
    <3> QED  BY <2>1, ListFacts
  <2> QED  BY <2>1, <2>2 DEF SLInv, DeleteCalled
<1>2. /\ gone \in Seq(EntryType) /\ Entries = Stands(list)
      /\ Entries' = Stands(list)
  BY <1>1 DEF SLInv, Entries, Stands
<1>3. CASE list.size = 0 /\ DeleteReturns(s, 0)
  <2>1. /\ op' = [name |-> "delete", arg |-> s, ret |-> 0]
        /\ status' = "running" /\ deletion' = NoDeletion /\ gone' = << >>
    BY <1>3 DEF DeleteReturns, Outcome
  <2>2. NoDeletion \in [seqNum : Uint8, run : Nodes \cup {NULL}, number : Nat]
    BY SeqSpaceAssumption DEF NoDeletion, Uint8
  <2>3. SLInv'  BY <1>1, <1>2, <2>1, <2>2 DEF SLInv
  <2>4. Entries = << >>
    <3>1. Stands(list) = EntriesOf(list, c)
      <4> HIDE DEF c
      <4> QED  BY <1>1, StandsFor
    <3>2. EntriesOf(list, c) \in Seq(EntryType) /\ Len(EntriesOf(list, c)) = 0
      <4> HIDE DEF c
      <4> QED  BY <1>1, <1>3, EntriesType
    <3> QED  BY <1>2, <3>1, <3>2, EmptySeq
  <2>5. gone \o Entries = << >> /\ (gone \o Entries)' = << >>
    <3>1. << >> \in Seq(EntryType)  BY EmptySeq
    <3>2. << >> \o << >> = << >>  BY <3>1, ConcatEmptySeq
    <3> QED  BY <1>1, <1>2, <2>1, <2>4, <3>2
  <2>6. SQ!queue_delete(<< >>, s) = << >> /\ Len(<< >>) - Len(<< >>) = 0
    <3>1. << >> \in Seq(EntryType) /\ Len(<< >>) = 0  BY EmptySeq
    <3>2. Len(<< >>) - Len(<< >>) = 0  BY <3>1
    <3> DEFINE g == << >>
    <3>3. g \in Seq(EntryType) /\ Len(g) = 0  BY <3>1
    <3> HIDE DEF g
    <3>4. \A i \in 1 .. Len(g) : g[i].seqNum # s  BY <3>3
    <3>5. SQ!queue_delete(g, s) = << >>  BY <3>3, <3>4, DeleteMiss
    <3> QED  BY <3>2, <3>5 DEF g
  <2>7. SQ!Delete(s)  BY <2>1, <2>5, <2>6 DEF SQ!Delete
  <2> QED  BY <2>3, <2>7 DEF SQ!Next, SQ!Uint8, Uint8
<1>4. CASE list.size # 0 /\ status' = "deleting"
  <2>1. /\ deletion' = [seqNum |-> s, run |-> list.head, number |-> 0]
        /\ op' = op /\ gone' = gone
    BY <1>1, <1>4 DEF DeleteCalled, DeleteReturns
  <2>2. list.head \in Nodes \cup {NULL}
    BY <1>1 DEF SenderListOf, Lists
  <2>3. Len(gone) = 0  BY <1>1, EmptySeq
  <2>4. /\ deletion' \in [seqNum : Uint8, run : Nodes \cup {NULL}, number : Nat]
        /\ deletion'.run = list'.head /\ deletion'.number = Len(gone')
    BY <1>1, <2>1, <2>2, <2>3
  <2>5. \A i \in 1 .. Len(gone') : gone'[i].seqNum # deletion'.seqNum
    BY <2>1, <2>3
  <2>6. SLInv'
    BY <1>1, <1>2, <1>4, <2>1, <2>4, <2>5 DEF SLInv
  <2>7. UNCHANGED <<gone \o Entries, op>>  BY <1>2, <2>1
  <2> QED  BY <2>6, <2>7
<1> QED  BY <1>3, <1>4 DEF DeleteCalled

(* One turn of its loop: the packet freed is one of those it counts, and   *)
(* when it is the one looked for, all it has freed leave the sequence.     *)
LEMMA DeleteNextStep ==
  ASSUME SLInv, DeleteNext
  PROVE  SLInv' /\ (SQ!Next \/ UNCHANGED <<gone \o Entries, op>>)
<1> DEFINE c == Chain(list)
           e == EntriesOf(list, c)
           d == Tail(c)
           s == deletion.seqNum
           run == deletion.run
           r == pkt_del(queue_pop(list).queue, queue_pop(list).pkt)
<1>1. /\ SenderListOf(list, c) /\ seqNum \in Uint8 /\ status = "deleting"
      /\ run # NULL /\ run = list.head /\ list' = r /\ seqNum' = seqNum
      /\ s \in Uint8 /\ deletion.number = Len(gone)
      /\ gone \in Seq(EntryType) /\ \A i \in 1 .. Len(gone) : gone[i].seqNum # s
  BY DEF SLInv, DeleteNext, Within
<1>2. c # << >>
  <2>1. list.head = Pointer(c, 1)
    BY <1>1 DEF SenderListOf, ListOf, IsList
  <2> HIDE DEF c
  <2>2. c = << >> => Len(c) = 0  BY EmptySeq
  <2> QED  BY <1>1, <2>1, <2>2 DEF Pointer
<1>3. /\ list.head = c[1] /\ 1 \in 1 .. Len(c)
      /\ r.head = list.node[run].next /\ SenderListOf(r, d)
      /\ EntriesOf(r, d) = Tail(e)
  <2> HIDE DEF c, r
  <2>1. r = pkt_del(queue_pop(list).queue, queue_pop(list).pkt)  BY DEF r
  <2> QED  BY <1>1, <1>2, <2>1, PopIs
<1>4. /\ e \in Seq(EntryType) /\ Len(e) = Len(c)
      /\ e[1] = Entry(PacketAt(list, run))
      /\ e[1].seqNum = PacketAt(list, run).seqNum
  <2> HIDE DEF c
  <2>1. /\ e \in Seq(EntryType) /\ Len(e) = Len(c)
        /\ \A k \in 1 .. Len(c) :
             /\ e[k] = Entry(list.pkt[list.node[c[k]].pkt])
             /\ e[k].seqNum = PacketAt(list, c[k]).seqNum
    BY <1>1, EntriesType
  <2> HIDE DEF e
  <2> QED  BY <1>1, <1>3, <2>1 DEF PacketAt
<1>5. Entries = e /\ Entries' = Tail(e)
  <2>1. Entries = Stands(list) /\ Entries' = Stands(list')
    BY DEF Entries, Stands
  <2>2. Stands(list) = e /\ Stands(r) = EntriesOf(r, d)
    <3> HIDE DEF c, d, r
    <3> QED  BY <1>1, <1>3, StandsFor
  <2> QED  BY <1>1, <1>3, <2>1, <2>2
<1>6. SenderListOf(list', Chain(list'))
  <2>1. Chain(r) = d
    <3> HIDE DEF d, r
    <3> QED  BY <1>3, StandsFor
  <2> QED  BY <1>1, <1>3, <2>1
<1>7. e # << >>
  <2> HIDE DEF c, e
  <2>1. Len(e) # 0  BY <1>3, <1>4
  <2> QED  BY <2>1, EmptySeq
<1>8. list'.head = list.node[run].next /\ list'.head \in Nodes \cup {NULL}
  BY <1>1, <1>3 DEF SenderListOf, Lists
<1>9. CASE PacketAt(list, run).seqNum = s
  <2>1. /\ op' = [name |-> "delete", arg |-> s, ret |-> deletion.number + 1]
        /\ status' = "running" /\ deletion' = NoDeletion /\ gone' = << >>
    BY <1>9 DEF DeleteNext, DeleteReturns, Outcome
  <2>2. NoDeletion \in [seqNum : Uint8, run : Nodes \cup {NULL}, number : Nat]
    BY SeqSpaceAssumption DEF NoDeletion, Uint8
  <2>3. << >> \in Seq(EntryType)  BY EmptySeq
  <2>4. SLInv'  BY <1>1, <1>6, <2>1, <2>2, <2>3 DEF SLInv
  <2> HIDE DEF c, e, d, r, run
  <2>5. /\ SQ!queue_delete(gone \o e, s) = Tail(e)
        /\ Len(gone \o e) - Len(Tail(e)) = Len(gone) + 1
    <3> HIDE DEF s
    <3>1. e[1].seqNum = s  BY <1>4, <1>9
    <3> QED  BY <1>1, <1>4, <1>7, <3>1, DeleteHit
  <2>6. gone \o Entries = gone \o e /\ (gone \o Entries)' = Tail(e)
    <3>1. Tail(e) \in Seq(EntryType)  BY <1>4, <1>7, HeadTailProperties
    <3>2. << >> \o Tail(e) = Tail(e)  BY <3>1, ConcatEmptySeq
    <3> QED  BY <1>5, <2>1, <3>2
  <2>7. SQ!Delete(s)  BY <1>1, <2>1, <2>5, <2>6 DEF SQ!Delete
  <2> QED  BY <1>1, <2>4, <2>7 DEF SQ!Next, SQ!Uint8, Uint8
<1>10. CASE PacketAt(list, run).seqNum # s
  <2>1. /\ deletion' = [seqNum |-> s, run |-> list.node[run].next,
                        number |-> deletion.number + 1]
        /\ gone' = Append(gone, e[1])
        /\ op' = op /\ status' = status
    <3>1. gone' = Append(gone, Entry(PacketAt(list, run)))
      BY <1>10 DEF DeleteNext
    <3>2. /\ deletion' = [seqNum |-> s, run |-> list.node[run].next,
                          number |-> deletion.number + 1]
          /\ op' = op /\ status' = status
      BY <1>10 DEF DeleteNext
    <3> QED  BY <1>4, <3>1, <3>2
  <2>2. /\ Append(gone, e[1]) \in Seq(EntryType)
        /\ Append(gone, e[1]) \o Tail(e) = gone \o e
    <3> HIDE DEF e
    <3> QED  BY <1>1, <1>4, <1>7, MoveFirst
  <2> HIDE DEF c, e, d, r, run, s
  <2>3. /\ Len(gone) \in Nat /\ Len(gone') = Len(gone) + 1
        /\ \A i \in 1 .. Len(gone') : gone'[i].seqNum # s
    <3>1. e[1] \in EntryType /\ Len(gone) \in Nat
      <4>1. 1 \in 1 .. Len(e)  BY <1>3, <1>4
      <4> QED  BY <1>1, <1>4, <4>1, ElementOfSeq, LenProperties
    <3>2. /\ Len(gone') = Len(gone) + 1
          /\ \A i \in 1 .. Len(gone) : gone'[i] = gone[i]
          /\ gone'[Len(gone) + 1] = e[1]
      BY <1>1, <2>1, <3>1, AppendProperties
    <3>3. \A i \in 1 .. Len(gone') : i \in 1 .. Len(gone) \/ i = Len(gone) + 1
      BY <3>1, <3>2
    <3>4. e[1].seqNum # s  BY <1>4, <1>10
    <3> QED  BY <1>1, <3>1, <3>2, <3>3, <3>4
  <2>4. /\ deletion' \in [seqNum : Uint8, run : Nodes \cup {NULL}, number : Nat]
        /\ deletion'.run = list'.head /\ deletion'.number = Len(gone')
        /\ deletion'.seqNum = s
    BY <1>1, <1>8, <2>1, <2>3
  <2>5. SLInv'
    <3>1. status' = "deleting" /\ gone' \in Seq(EntryType)
      BY <1>1, <2>1, <2>2
    <3> QED  BY <1>1, <1>6, <2>3, <2>4, <3>1 DEF SLInv
  <2>6. UNCHANGED <<gone \o Entries, op>>
    BY <1>5, <2>1, <2>2
  <2> QED  BY <2>5, <2>6
<1> QED  BY <1>9, <1>10

(* Its loop ends on the empty list: no packet had the number.              *)
LEMMA DeleteEndsStep ==
  ASSUME SLInv, DeleteEnds
  PROVE  SLInv' /\ SQ!Next
<1> DEFINE c == Chain(list)
           s == deletion.seqNum
<1>1. /\ SenderListOf(list, c) /\ seqNum \in Uint8 /\ status = "deleting"
      /\ list.head = NULL /\ list' = list /\ seqNum' = seqNum
      /\ s \in Uint8 /\ deletion.number = Len(gone)
      /\ gone \in Seq(EntryType) /\ \A i \in 1 .. Len(gone) : gone[i].seqNum # s
  BY DEF SLInv, DeleteEnds, Within
<1>2. /\ op' = [name |-> "delete", arg |-> s, ret |-> deletion.number]
      /\ status' = "running" /\ deletion' = NoDeletion /\ gone' = << >>
  BY DEF DeleteEnds, DeleteReturns, Outcome
<1>3. NoDeletion \in [seqNum : Uint8, run : Nodes \cup {NULL}, number : Nat]
  BY SeqSpaceAssumption DEF NoDeletion, Uint8
<1>4. << >> \in Seq(EntryType) /\ Len(<< >>) = 0  BY EmptySeq
<1>5. SLInv'  BY <1>1, <1>2, <1>3, <1>4 DEF SLInv
<1>6. Entries = << >> /\ Entries' = << >>
  <2>1. Entries = Stands(list) /\ Entries' = Stands(list)
    BY <1>1 DEF Entries, Stands
  <2> HIDE DEF c
  <2>2. Stands(list) = EntriesOf(list, c)  BY <1>1, StandsFor
  <2>3. /\ EntriesOf(list, c) \in Seq(EntryType)
        /\ Len(EntriesOf(list, c)) = Len(c) /\ Len(c) \in Nat
    BY <1>1, EntriesType
  <2>4. Len(c) = 0
    <3>1. list.head = Pointer(c, 1)
      BY <1>1 DEF SenderListOf, ListOf, IsList
    <3>2. 1 \in 1 .. Len(c) => c[1] \in Nodes  BY <1>1, ListFacts
    <3>3. ~ (1 \in 1 .. Len(c))
      BY <1>1, <3>1, <3>2, LinkedListAssumption DEF Pointer
    <3> QED  BY <2>3, <3>3
  <2> QED  BY <2>1, <2>2, <2>3, <2>4, EmptySeq
<1>7. gone \o Entries = gone /\ (gone \o Entries)' = << >>
  <2>1. gone \o << >> = gone /\ << >> \o << >> = << >>
    BY <1>1, <1>4, ConcatEmptySeq
  <2> QED  BY <1>2, <1>6, <2>1
<1>8. SQ!queue_delete(gone, s) = << >>
  <2> HIDE DEF s
  <2> QED  BY <1>1, DeleteMiss
<1>9. Len(gone) - Len(<< >>) = Len(gone)
  <2>1. Len(gone) \in Nat  BY <1>1, LenProperties
  <2> QED  BY <1>4, <2>1
<1>10. SQ!Delete(s)  BY <1>1, <1>2, <1>7, <1>8, <1>9 DEF SQ!Delete
<1> QED  BY <1>1, <1>5, <1>10 DEF SQ!Next, SQ!Uint8, Uint8

LEMMA IsEmptyStep ==
  ASSUME SLInv, IsEmpty, AsksWhenFull = FALSE
  PROVE  SLInv' /\ SQ!Next
<1> DEFINE c == Chain(list)
<1>1. /\ SenderListOf(list, c) /\ list \in Lists /\ seqNum \in Uint8
      /\ status = "running" /\ list.size = 0
      /\ list' = [list EXCEPT !.size = 0]
      /\ op' = [name |-> "isempty", ret |-> 0]
      /\ deletion' = deletion /\ gone' = gone /\ seqNum' = seqNum
      /\ status' = status
  BY DEF SLInv, IsEmpty, SenderListOf
<1>2. list' = list  BY <1>1 DEF Lists
<1>3. list.size = Len(c)
  <2> HIDE DEF c
  <2> QED  BY <1>1, ListFacts
<1>4. /\ SLInv' /\ gone \o Entries = EntriesOf(list, c)
      /\ (gone \o Entries)' = EntriesOf(list, c)
  <2>1. SenderListOf(list', c)  BY <1>1, <1>2
  <2>2. EntriesOf(list', c) = EntriesOf(list, c)  BY <1>2
  <2> QED  BY <1>1, <2>1, <2>2, NewList
<1>5. EntriesOf(list, c) = << >>
  <2> HIDE DEF c
  <2>1. EntriesOf(list, c) \in Seq(EntryType) /\ Len(EntriesOf(list, c)) = 0
    BY <1>1, <1>3, EntriesType
  <2> QED  BY <2>1, EmptySeq
<1> HIDE DEF c
<1>6. SQ!IsEmpty  BY <1>1, <1>4, <1>5 DEF SQ!IsEmpty
<1> QED  BY <1>4, <1>6 DEF SQ!Next

LEMMA SLInitial ==
  ASSUME Init
  PROVE  SLInv /\ SQ!Init
<1>1. /\ list.head = NULL /\ list.last = NULL /\ list.size = 0
      /\ list.corrupt = FALSE /\ list.node = [a \in Nodes |-> FREE]
      /\ list.pkt = [a \in Packets |-> FREE] /\ list \in Lists
      /\ seqNum = 0 /\ op = [name |-> "init"] /\ deletion = NoDeletion
      /\ gone = << >> /\ status = "running"
  BY DEF Init, queue_init, Lists
<1>2. IsList(list.head, list.size, list.node, list.pkt, << >>)
  BY <1>1, ListEmpty
<1>3. Len(<< >>) = 0 /\ << >> \in Seq(EntryType)  BY EmptySeq
<1>4. SenderListOf(list, << >>)
  BY <1>1, <1>2, <1>3 DEF SenderListOf, ListOf
<1>5. Chain(list) = << >> /\ Stands(list) = EntriesOf(list, << >>)
  <2> DEFINE c == << >>
  <2>1. SenderListOf(list, c)  BY <1>4
  <2> HIDE DEF c
  <2>2. Chain(list) = c /\ Stands(list) = EntriesOf(list, c)
    BY <2>1, StandsFor
  <2> QED  BY <2>2 DEF c
<1>6. EntriesOf(list, << >>) = << >>
  <2> DEFINE c == << >>
  <2>1. SenderListOf(list, c) /\ Len(c) = 0  BY <1>3, <1>4
  <2> HIDE DEF c
  <2>2. EntriesOf(list, c) \in Seq(EntryType) /\ Len(EntriesOf(list, c)) = 0
    BY <2>1, EntriesType
  <2>3. EntriesOf(list, c) = << >>  BY <2>2, EmptySeq
  <2> QED  BY <2>3 DEF c
<1>7. NoDeletion \in [seqNum : Uint8, run : Nodes \cup {NULL}, number : Nat]
      /\ seqNum \in Uint8
  BY <1>1, SeqSpaceAssumption DEF NoDeletion, Uint8
<1>8. SLInv  BY <1>1, <1>3, <1>4, <1>5, <1>7 DEF SLInv
<1>9. gone \o Entries = << >>
  <2>1. Entries = << >>  BY <1>5, <1>6 DEF Entries, Stands
  <2> QED  BY <1>1, <1>3, <2>1, ConcatEmptySeq
<1> QED  BY <1>1, <1>8, <1>9 DEF SQ!Init

(* Every step keeps the invariant, and is one of the sequence or leaves it *)
(* as it is.                                                               *)
LEMMA SLStep ==
  ASSUME SLInv, [Next]_vars, AsksWhenFull = FALSE
  PROVE  SLInv' /\ (SQ!Next \/ UNCHANGED <<gone \o Entries, op>>)
<1>1. CASE PushData  BY <1>1, PushStep DEF PushData
<1>2. CASE PushLast  BY <1>2, PushStep DEF PushLast
<1>3. CASE DeleteNext  BY <1>3, DeleteNextStep
<1>4. CASE DeleteEnds  BY <1>4, DeleteEndsStep
<1>5. CASE IsEmpty  BY <1>5, IsEmptyStep
<1>6. CASE Return  BY <1>6, FreeStep
<1>7. ASSUME UNCHANGED vars
      PROVE  SLInv' /\ (SQ!Next \/ UNCHANGED <<gone \o Entries, op>>)
  <2>1. SLInv'  BY <1>7 DEF vars, SLInv
  <2>2. Entries' = Entries  BY <1>7 DEF vars, Entries
  <2> QED  BY <1>7, <2>1, <2>2 DEF vars
<1>8. CASE Ended  BY <1>7, <1>8 DEF Ended
<1>9. ASSUME NEW s \in Uint8, DeleteCalled(s) \/ FindNack(s) \/ FindAck(s)
      PROVE  SLInv' /\ (SQ!Next \/ UNCHANGED <<gone \o Entries, op>>)
  BY <1>9, DeleteCalledStep, FindStep
<1> QED
  BY <1>1, <1>2, <1>3, <1>4, <1>5, <1>6, <1>7, <1>8, <1>9 DEF Next

(* Whatever the calls, the list follows its links, and what queue_delete   *)
(* has freed so far is what it has counted (queue_sender.c:12-168).        *)
THEOREM SLInvariant ==
  ASSUME AsksWhenFull = FALSE
  PROVE  Spec => []SLInv
<1>1. Init => SLInv  BY SLInitial
<1>2. SLInv /\ [Next]_vars => SLInv'  BY SLStep
<1> QED  BY <1>1, <1>2, PTL DEF Spec

(* No call frees what is not allocated, but the one of sender.c:152, which *)
(* nothing follows.                                                        *)
Corrupted == list.corrupt => status = "aborted"

LEMMA CorruptedStep ==
  ASSUME SLInv, Corrupted, [Next]_vars
  PROVE  Corrupted'
<1>1. list \in Lists /\ SenderListOf(list, Chain(list))
  BY DEF SLInv, SenderListOf
<1>2. ASSUME NEW a, NEW f, PushNew(a, f)
      PROVE  Corrupted'
  <2>1. status' = IF list'.corrupt THEN "aborted" ELSE status
    BY <1>2 DEF PushNew
  <2> QED  BY <2>1 DEF Corrupted
<1>3. CASE PushData \/ PushLast  BY <1>2, <1>3 DEF PushData, PushLast
<1>4. CASE DeleteNext
  <2> DEFINE c == Chain(list)
             r == pkt_del(queue_pop(list).queue, queue_pop(list).pkt)
  <2>1. /\ list' = r /\ status = "deleting" /\ deletion.run = list.head
        /\ list.head # NULL
    BY <1>4 DEF SLInv, DeleteNext, Within
  <2>2. r.corrupt = list.corrupt
    <3>1. SenderListOf(list, c)  BY <1>1
    <3>2. c # << >>
      <4>1. list.head = Pointer(c, 1)
        BY <3>1 DEF SenderListOf, ListOf, IsList
      <4> HIDE DEF c
      <4>2. c = << >> => Len(c) = 0  BY EmptySeq
      <4> QED  BY <2>1, <4>1, <4>2 DEF Pointer
    <3>3. r = pkt_del(queue_pop(list).queue, queue_pop(list).pkt)  BY DEF r
    <3> HIDE DEF c, r
    <3> QED  BY <3>1, <3>2, <3>3, PopIs
  <2> HIDE DEF r
  <2> QED  BY <2>1, <2>2 DEF Corrupted
<1>5. ASSUME NEW s, DeleteCalled(s) \/ FindAck(s)
      PROVE  Corrupted'
  <2>1. list' = list /\ status = "running"
    BY <1>5 DEF DeleteCalled, FindAck
  <2> QED  BY <2>1 DEF Corrupted
<1>6. CASE DeleteEnds
  <2>1. list' = list /\ status = "deleting"  BY <1>6 DEF DeleteEnds
  <2> QED  BY <2>1 DEF Corrupted
<1>7. ASSUME NEW s, FindNack(s)
      PROVE  Corrupted'
  <2>1. list' = queue_find_nack_structure(list, s) /\ status = "running"
    BY <1>7 DEF FindNack
  <2>2. list'.corrupt = list.corrupt  BY <1>1, <2>1, NackIs
  <2> QED  BY <2>1, <2>2 DEF Corrupted
<1>8. CASE IsEmpty
  <2>1. list' = [list EXCEPT !.size = 0] /\ status = "running"
    BY <1>8 DEF IsEmpty
  <2>2. list'.corrupt = list.corrupt  BY <1>1, <2>1 DEF Lists
  <2> QED  BY <2>1, <2>2 DEF Corrupted
<1>9. CASE Return
  <2>1. list' = Freed(list) /\ status = "running"  BY <1>9 DEF Return, Freed
  <2>2. list'.corrupt = list.corrupt
    BY <1>1, <2>1 DEF Lists, Freed, queue_free
  <2> QED  BY <2>1, <2>2 DEF Corrupted
<1>10. CASE Ended \/ UNCHANGED vars
  <2>1. list' = list /\ status' = status  BY <1>10 DEF Ended, vars
  <2> QED  BY <2>1 DEF Corrupted
<1> QED
  BY <1>3, <1>4, <1>5, <1>6, <1>7, <1>8, <1>9, <1>10 DEF Next

(* The list never loses, keeps or uses a node or a packet that it should   *)
(* not; `last' is the last node whenever it is used, queue_delete looks at *)
(* no node that it has freed, and nothing is freed twice while the program *)
(* runs (queue_sender.c:20-37, 48-114; sender.c:151-152, 179).             *)
THEOREM ListIsWellFormed ==
  ASSUME AsksWhenFull = FALSE
  PROVE  Spec => []WellFormed
<1>1. Init => Corrupted  BY DEF Init, Corrupted
<1>2. SLInv /\ Corrupted /\ [Next]_vars => Corrupted'  BY CorruptedStep
<1>3. SLInv /\ Corrupted => WellFormed
  <2> SUFFICES ASSUME SLInv, Corrupted  PROVE WellFormed  OBVIOUS
  <2> DEFINE c == Chain(list)
  <2>1. /\ SenderListOf(list, c)
        /\ status = "deleting" => deletion.run = list.head
    BY DEF SLInv
  <2> HIDE DEF c
  <2>2. ListOf(list, c) /\ list.size = Len(c)  BY <2>1, ListFacts
  <2>3. list.node \in [Nodes -> Cells \cup {FREE}]
    BY <2>1 DEF SenderListOf, Lists
  <2>4. WellFormedList(list)  BY <2>2, <2>3, ListWellFormed
  <2>5. list.size > 0 => list.last = c[list.size]
    BY <2>1, <2>2 DEF SenderListOf
  <2> QED  BY <2>1, <2>4, <2>5 DEF WellFormed, Corrupted, c
<1> QED  BY <1>1, <1>2, <1>3, SLInvariant, PTL DEF Spec

(* The list implements the sequence that the model of the sender keeps in  *)
(* its place: every call has the effect and the result it has there        *)
(* (queue_sender.c:12-168).                                                *)
THEOREM ListImplementsSendQueue ==
  ASSUME AsksWhenFull = FALSE
  PROVE  Spec => ImplementsSendQueue
<1>1. Init => SQ!Init  BY SLInitial
<1>2. SLInv /\ [Next]_vars => [SQ!Next]_<<gone \o Entries, op>>
  BY SLStep
<1> QED  BY <1>1, <1>2, SLInvariant, PTL DEF Spec, ImplementsSendQueue, SQ!Spec
=============================================================================
