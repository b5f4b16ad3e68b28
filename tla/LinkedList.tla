----------------------------- MODULE LinkedList -----------------------------
(***************************************************************************)
(* The linked list both programs keep their queues in, at the level of     *)
(* pointers and malloc: what queue_sender.c and queue_receiver.c have in   *)
(* common.  A queue is a record: head and size as in queue_t, and the      *)
(* memory its nodes and packets live in.  malloc returns any free address. *)
(***************************************************************************)
EXTENDS Naturals, SequencesExt

CONSTANTS
  Nodes, Packets,  \* the addresses of nodes and of packets
  NULL, FREE       \* no address; memory that is not allocated

Cells == [pkt : Packets, next : Nodes \cup {NULL}]

ASSUME LinkedListAssumption ==
  IsFiniteSet(Nodes) /\ NULL \notin Nodes \cup Packets /\ FREE \notin Cells

queue_init == [head |-> NULL, size |-> 0, corrupt |-> FALSE,
               node |-> [a \in Nodes |-> FREE],
               pkt  |-> [a \in Packets |-> FREE]]

(* What malloc may return for a node, and calloc for a packet. *)
FreeNodes(q)   == {a \in Nodes : q.node[a] = FREE}
FreePackets(q) == {a \in Packets : q.pkt[a] = FREE}

pkt_del(q, a) ==
  IF a = NULL THEN q
  ELSE IF q.pkt[a] = FREE THEN [q EXCEPT !.corrupt = TRUE]
  ELSE [q EXCEPT !.pkt[a] = FREE]

-----------------------------------------------------------------------------
(* The nodes that a loop meets which follows the links from head on, to    *)
(* the one whose next is NULL, as in queue_push and queue_free.            *)
After(q) ==
  [a \in Nodes \cup {NULL} |->
     IF a = NULL \/ q.node[a] = FREE THEN NULL ELSE q.node[a].next]

Walk(q) ==
  LET at[k \in 1 .. Cardinality(Nodes) + 1] ==
        IF k = 1 THEN q.head ELSE After(q)[at[k - 1]]
  IN  at

Chain(q) ==
  LET at == Walk(q)
  IN  [k \in 1 .. Cardinality({k \in DOMAIN at : at[k] # NULL}) |-> at[k]]

PacketAt(q, a) == q.pkt[q.node[a].pkt]

Contents(q) ==
  LET chain == Chain(q) IN [k \in 1 .. Len(chain) |-> PacketAt(q, chain[k])]

(* queue_pop: the queue without its first node, whose packet is returned.  *)
RemoveHead(q) ==
  [q EXCEPT !.head = q.node[q.head].next, !.node[q.head] = FREE,
            !.size = @ - 1]

queue_pop(q) ==
  IF q.size = 0 THEN [pkt |-> NULL, queue |-> q]
  ELSE [pkt |-> q.node[q.head].pkt, queue |-> RemoveHead(q)]

(* queue_free: every node from head on, with its packet. *)
queue_free(q) ==
  [q EXCEPT
     !.node = [a \in Nodes |-> IF a \in Range(Chain(q)) THEN FREE ELSE @[a]],
     !.pkt  = [a \in Packets |->
                 IF \E k \in Range(Chain(q)) : q.node[k].pkt = a THEN FREE
                 ELSE @[a]]]

(* No address is ever looked at: which is which makes no difference. *)
Addresses == Permutations(Nodes) \cup Permutations(Packets)

-----------------------------------------------------------------------------
(* The list is what its size says, made of allocated nodes with packets of *)
(* their own, and nothing else is allocated.                               *)
WellFormedList(q) ==
  LET chain == Chain(q)
  IN  /\ Len(chain) = q.size
      /\ IsInjective(chain)
      /\ {a \in Nodes : q.node[a] # FREE} = Range(chain)
      /\ {a \in Packets : q.pkt[a] # FREE} = {q.node[a].pkt : a \in Range(chain)}
      /\ Cardinality({q.node[a].pkt : a \in Range(chain)}) = q.size
=============================================================================
