----------------------------- MODULE SenderList -----------------------------
(***************************************************************************)
(* The sender's queue (queue_sender.c), node by node, and the calls that   *)
(* sender.c makes.  Next to the head and the size it keeps the last node,  *)
(* which is left pointing to a freed one when the queue becomes empty.     *)
(***************************************************************************)
EXTENDS LinkedList, SeqNum

CONSTANTS
  MayRunOut,      \* may malloc fail?
  AsksWhenFull    \* is queue_isempty called while packets are queued?

Structures == [seqNum : Uint8, timestamp : {0, 1}]

ASSUME SenderListAssumption == FREE \notin Structures

VARIABLES
  list,     \* the queue
  seqNum,   \* the sequence number of the next packet
  op,       \* the last operation, and what it returned
  deletion, \* the call of queue_delete: its argument, run and number
  gone,     \* history: the packets that call has freed so far
  status    \* "running", "deleting", "returned" or "aborted"

vars == <<list, seqNum, op, deletion, gone, status>>

NoDeletion == [seqNum |-> 0, run |-> NULL, number |-> 0]

Init ==
  /\ list = [head |-> NULL, last |-> NULL, size |-> 0, corrupt |-> FALSE,
             node |-> queue_init.node, pkt |-> queue_init.pkt]
  /\ seqNum = 0 /\ op = [name |-> "init"]
  /\ deletion = NoDeletion /\ gone = << >> /\ status = "running"

\* A mistaken push, which forgets that the new node is the last.
PushKeepsLast(q, p, new) ==
  LET n == [q EXCEPT !.node[new] = [pkt |-> p, next |-> NULL], !.size = @ + 1]
  IN  [ret |-> 0, queue |->
         IF q.size = 0 THEN [n EXCEPT !.head = new, !.last = new]
         ELSE [n EXCEPT !.node[q.last].next = new]]

(* queue_push, with the node malloc returned.  When it returned none, the  *)
(* packet is freed.                                                        *)
queue_push(q, p, new) ==
  IF new = NULL THEN [ret |-> -1, queue |-> pkt_del(q, p)]
  ELSE LET n == [q EXCEPT !.node[new] = [pkt |-> p, next |-> NULL],
                          !.last = new, !.size = @ + 1]
       IN  [ret |-> 0, queue |->
             IF q.size = 0 THEN [n EXCEPT !.head = new]
             ELSE [n EXCEPT !.node[q.last].next = new]]

(* The first packet numbered s, NULL if there is none. *)
queue_find_ack_structure(q, s) ==
  LET run  == Chain(q)
      hits == {k \in 1 .. Len(run) : PacketAt(q, run[k]).seqNum = s}
  IN  IF hits = {} THEN NULL ELSE q.node[run[Min(hits)]].pkt

queue_find_nack_structure(q, s) ==
  LET a == queue_find_ack_structure(q, s)
  IN  IF a = NULL THEN q ELSE [q EXCEPT !.pkt[a].timestamp = 0]

-----------------------------------------------------------------------------
Outcome(name, arg, ret) == op' = [name |-> name, arg |-> arg, ret |-> ret]

(* A packet at address a is numbered and queued; malloc returns a node, or *)
(* none.                                                                   *)
PushNew(a, freedAgain) ==
  /\ status = "running"
  /\ \E new \in FreeNodes(list) \cup (IF MayRunOut THEN {NULL} ELSE {}) :
       LET p == [seqNum |-> seqNum, timestamp |-> 1]
           r == queue_push([list EXCEPT !.pkt[a] = p], a, new)
       IN  /\ Outcome("push", seqNum, r.ret)
           /\ list' = IF r.ret = -1 /\ freedAgain THEN pkt_del(r.queue, a) ELSE r.queue
  /\ seqNum' = Plus(seqNum, 1)
  /\ status' = IF list'.corrupt THEN "aborted" ELSE status
  /\ UNCHANGED <<deletion, gone>>

(* A payload: when it cannot be queued, that is reported. *)
PushData == \E a \in FreePackets(list) : PushNew(a, FALSE)

(* The packet that ends the file: the caller frees it once more. *)
PushLast == \E a \in FreePackets(list) : PushNew(a, TRUE)

Found(s) == IF queue_find_ack_structure(list, s) = NULL THEN 0 ELSE 1

(* A packet as the model of the sender has it. *)
Entry(p) ==
  [seqNum |-> p.seqNum, age |-> IF p.timestamp = 0 THEN -1 ELSE 0]

(***************************************************************************)
(* queue_delete, one turn of its loop after the other: the node `run' is   *)
(* left before it is popped and freed, with its packet, until the packet   *)
(* popped is the one numbered s or no node is left.                        *)
(***************************************************************************)
DeleteReturns(s, number) ==
  /\ Outcome("delete", s, number)
  /\ status' = "running" /\ deletion' = NoDeletion /\ gone' = << >>

DeleteCalled(s) ==
  /\ status = "running"
  /\ \/ list.size = 0 /\ DeleteReturns(s, 0)
     \/ /\ list.size # 0 /\ status' = "deleting"
        /\ deletion' = [seqNum |-> s, run |-> list.head, number |-> 0]
        /\ UNCHANGED <<op, gone>>
  /\ UNCHANGED <<list, seqNum>>

\* A mistaken test, which leaves the packet numbered s in the queue.
Before(run, s) == run # NULL /\ PacketAt(list, run).seqNum # s

Within(run, s) == run # NULL

DeleteNext ==
  LET run    == deletion.run
      s      == deletion.seqNum
      popped == queue_pop(list)
  IN  /\ status = "deleting" /\ Within(run, s)
      /\ list' = pkt_del(popped.queue, popped.pkt)
      /\ IF PacketAt(list, run).seqNum = s
         THEN DeleteReturns(s, deletion.number + 1)
         ELSE /\ deletion' = [seqNum |-> s, run |-> list.node[run].next,
                              number |-> deletion.number + 1]
              /\ gone' = Append(gone, Entry(PacketAt(list, run)))
              /\ UNCHANGED <<op, status>>
      /\ UNCHANGED seqNum

DeleteEnds ==
  /\ status = "deleting" /\ ~ Within(deletion.run, deletion.seqNum)
  /\ DeleteReturns(deletion.seqNum, deletion.number)
  /\ UNCHANGED <<list, seqNum>>

FindNack(s) ==
  /\ status = "running"
  /\ list' = queue_find_nack_structure(list, s)
  /\ Outcome("nack", s, Found(s))
  /\ UNCHANGED <<seqNum, deletion, gone, status>>

FindAck(s) ==
  /\ status = "running"
  /\ Outcome("ack", s, Found(s))
  /\ UNCHANGED <<list, seqNum, deletion, gone, status>>

(* queue_isempty assigns where it means to compare. *)
IsEmpty ==
  /\ status = "running" /\ (AsksWhenFull \/ list.size = 0)
  /\ list' = [list EXCEPT !.size = 0]
  /\ op' = [name |-> "isempty", ret |-> 0]
  /\ UNCHANGED <<seqNum, deletion, gone, status>>

Return ==
  /\ status = "running"
  /\ list' = [queue_free(list) EXCEPT !.head = NULL, !.size = 0]
  /\ op' = [name |-> "free"] /\ status' = "returned"
  /\ UNCHANGED <<seqNum, deletion, gone>>

Ended == status \in {"returned", "aborted"} /\ UNCHANGED vars

Next == PushData \/ PushLast \/ DeleteNext \/ DeleteEnds \/ IsEmpty \/ Return
        \/ Ended \/ \E s \in Uint8 : DeleteCalled(s) \/ FindNack(s) \/ FindAck(s)

Spec == Init /\ [][Next]_vars

-----------------------------------------------------------------------------
(* The list never loses, keeps or uses a node or a packet that it should   *)
(* not: `last' is the last node whenever it is used, also after the queue  *)
(* has been empty and `last' was left dangling (queue_sender.c:24-37 and   *)
(* 48-59), and the node queue_delete looks at next is never one that it    *)
(* has freed (77-114).  Nothing is freed twice while the program runs: the *)
(* packet of sender.c:151 is, and that is the end of it.                   *)
WellFormed ==
  /\ WellFormedList(list)
  /\ list.corrupt => status = "aborted"
  /\ list.size > 0 => list.last = Chain(list)[list.size]
  /\ status = "deleting" => deletion.run = list.head

(* The list does what the sequence does that the model of the sender uses, *)
(* operation for operation, with the same results (queue_sender.c:12-168). *)
(* What queue_delete has freed counts as queued until it returns.          *)
Entries ==
  LET pkts == Contents(list) IN [k \in 1 .. Len(pkts) |-> Entry(pkts[k])]

SQ == INSTANCE SendQueue WITH q <- gone \o Entries

ImplementsSendQueue == SQ!Spec

(* packet_interface.h, of pkt_del: a packet is released, with all that it  *)
(* has.  It should be so once.  The code does not keep this: queue_push    *)
(* releases the packet it cannot queue, and sender.c:152 does again.       *)
NothingFreedTwice == ~ list.corrupt
=============================================================================
