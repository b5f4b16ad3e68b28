---------------------------- MODULE ReceiverList ----------------------------
(***************************************************************************)
(* The receiver's two queues (queue_receiver.c), node by node, with the    *)
(* loops in which queue_ordered_push looks for the place of a packet, and  *)
(* the calls that receiver.c makes.                                        *)
(***************************************************************************)
EXTENDS LinkedList, SeqNum

CONSTANTS
  realWindowSize,  \* the window
  MaxReplies       \* bound: the replies queued

Structures == [seqNum : Uint8]

ASSUME ReceiverListAssumption ==
  /\ realWindowSize \in Nat \ {0} /\ realWindowSize < SeqSpace
  /\ FREE \notin Structures

VARIABLES
  pktQueue,      \* the packets that arrived ahead of the one waited for
  ackQueue,      \* the replies that are not sent yet
  waitedSeqNum,  \* the number waited for
  op,            \* the last operation, and what it returned
  writing,       \* the call of queue_payload_write: the packet that has
                 \* arrived, runner, newSeqNum and count
  early, gone,   \* history: what was queued before that packet arrived,
                 \* and what that call has freed so far
  status         \* "running" or "writing"

vars == <<pktQueue, ackQueue, waitedSeqNum, op, writing, early, gone, status>>

NotWriting == [seqNum |-> 0, runner |-> NULL, newSeqNum |-> 0, count |-> 0]

Init == /\ pktQueue = queue_init /\ ackQueue = queue_init
        /\ waitedSeqNum \in Uint8 /\ op = [name |-> "init"]
        /\ writing = NotWriting /\ early = << >> /\ gone = << >>
        /\ status = "running"

(* The new node between two others; before = NULL: it becomes the head.    *)
Link(q, p, new, before, next) ==
  LET n == [q EXCEPT !.node[new] = [pkt |-> p, next |-> next], !.size = @ + 1]
  IN  [ret |-> 0, queue |-> IF before = NULL THEN [n EXCEPT !.head = new]
                            ELSE [n EXCEPT !.node[before].next = new]]

(* queue_push walks to the node whose next is NULL. *)
PushNode(q, p, new) ==
  Link(q, p, new, IF q.size = 0 THEN NULL ELSE Last(Chain(q)), NULL)

queue_push(q, p, new) ==
  IF new = NULL THEN [ret |-> -1, queue |-> pkt_del(q, p)]
  ELSE PushNode(q, p, new)

(***************************************************************************)
(* queue_ordered_push.  The nodes are run[1], run[2], ...; `runner' is the *)
(* index at which a loop stops, one past the last for NULL, and `before'   *)
(* is the node ahead of it.  One loop passes the high numbers, a second    *)
(* the high ones that are smaller, and the third, which compares numbers   *)
(* only, never passes the last node.                                       *)
(***************************************************************************)
FirstIn(n, S) == IF S = {} THEN n + 1 ELSE Min(S)

\* A mistaken test for the upper end of the numbers, two too few.
HighTooLate(x) == x >= SeqSpace + 1 - (realWindowSize - 1)

High(x) == x >= SeqSpace - 1 - (realWindowSize - 1)

queue_ordered_push(q, p, new, waited) ==
  LET s      == q.pkt[p].seqNum
      run    == Chain(q)
      length == Len(run)
      Num(k) == PacketAt(q, run[k]).seqNum
      \* the loops
      low    == FirstIn(length, {k \in 1 .. length : ~ High(Num(k))})
      start  == IF High(waited) /\ s < realWindowSize - 1 THEN low ELSE 1
      second == FirstIn(length, {k \in start .. length :
                                   ~ (High(Num(k)) /\ Num(k) < s)})
      third  == Min({k \in start .. length : ~ Num(k) < s \/ k = length})
      \* the new node goes in front of the one at index k, unless that has
      \* the same number
      At(k)  == LET before == IF k = 1 THEN NULL ELSE run[k - 1]
                IN  IF k > length THEN Link(q, p, new, before, NULL)
                    ELSE IF Num(k) = s THEN [ret |-> -1, queue |-> q]
                    ELSE Link(q, p, new, before, run[k])
  IN  IF new = NULL THEN [ret |-> -1, queue |-> q]
      ELSE IF q.size = 0 \/ start > length THEN At(length + 1)
      ELSE IF High(waited) /\ High(s) THEN At(second)
      ELSE IF Num(third) < s THEN At(length + 1)
      ELSE At(third)

-----------------------------------------------------------------------------
(* A packet of the window is queued, and queue_payload_write is called;    *)
(* when it cannot be queued the caller frees it.                           *)
Arrive(s, a, new) ==
  LET q    == [pktQueue EXCEPT !.pkt[a] = [seqNum |-> s]]
      push == queue_ordered_push(q, a, new, waitedSeqNum)
  IN  /\ status = "running" /\ InWindow(s, waitedSeqNum, realWindowSize)
      /\ \/ /\ push.ret = 0
            /\ pktQueue' = push.queue /\ status' = "writing"
            /\ writing' = [seqNum |-> s, runner |-> push.queue.head,
                           newSeqNum |-> waitedSeqNum, count |-> 0]
            /\ early' = Contents(pktQueue) /\ UNCHANGED <<op, gone>>
         \/ /\ push.ret = -1
            /\ pktQueue' = pkt_del(push.queue, a)
            /\ op' = [name |-> "arrive", arg |-> s, ret |-> -1]
            /\ UNCHANGED <<writing, early, gone, status>>
      /\ UNCHANGED <<ackQueue, waitedSeqNum>>

(***************************************************************************)
(* queue_payload_write, one turn of its loop after the other: the packet   *)
(* of the node `runner' is written when it is the one waited for now, and  *)
(* freed with the node.  head moves only when the loop has ended.          *)
(***************************************************************************)
MayWrite ==
  /\ writing.runner # NULL
  /\ PacketAt(pktQueue, writing.runner).seqNum = writing.newSeqNum

WriteNext ==
  LET run  == writing.runner
      done == pkt_del(pktQueue, pktQueue.node[run].pkt)
  IN  /\ status = "writing" /\ MayWrite
      /\ pktQueue' = [done EXCEPT !.node[run] = FREE, !.size = @ - 1]
      /\ writing' = [seqNum |-> writing.seqNum,
                     runner |-> pktQueue.node[run].next,
                     newSeqNum |-> Plus(writing.newSeqNum, 1),
                     count |-> Plus(writing.count, 1)]
      /\ gone' = Append(gone, PacketAt(pktQueue, run))
      /\ UNCHANGED <<ackQueue, waitedSeqNum, op, early, status>>

\* A mistaken end, which forgets to move the head.
HeadKept(q, runner) == q

HeadMoved(q, runner) == [q EXCEPT !.head = runner]

WriteEnds ==
  /\ status = "writing" /\ ~ MayWrite
  /\ pktQueue' = HeadMoved(pktQueue, writing.runner)
  /\ waitedSeqNum' = Plus(waitedSeqNum, writing.count)
  /\ op' = [name |-> "arrive", arg |-> writing.seqNum, ret |-> writing.count]
  /\ writing' = NotWriting /\ early' = << >> /\ gone' = << >>
  /\ status' = "running" /\ UNCHANGED ackQueue

(* A reply is queued; when it cannot be, it is lost. *)
Reply(a, new) ==
  /\ status = "running" /\ ackQueue.size < MaxReplies
  /\ LET p == [seqNum |-> waitedSeqNum]
         r == queue_push([ackQueue EXCEPT !.pkt[a] = p], a, new)
     IN  /\ ackQueue' = r.queue
         /\ op' = [name |-> "reply", arg |-> waitedSeqNum, ret |-> r.ret]
  /\ UNCHANGED <<pktQueue, waitedSeqNum, writing, early, gone, status>>

(* The first reply is popped, written to the socket and freed. *)
Send ==
  /\ status = "running" /\ ackQueue.size > 0
  /\ LET popped == queue_pop(ackQueue)
     IN  /\ ackQueue' = pkt_del(popped.queue, popped.pkt)
         /\ op' = [name |-> "send", ret |-> ackQueue.pkt[popped.pkt].seqNum]
  /\ UNCHANGED <<pktQueue, waitedSeqNum, writing, early, gone, status>>

Return ==
  /\ status = "running"
  /\ pktQueue' = [queue_free(pktQueue) EXCEPT !.head = NULL, !.size = 0]
  /\ ackQueue' = [queue_free(ackQueue) EXCEPT !.head = NULL, !.size = 0]
  /\ op' = [name |-> "free"]
  /\ UNCHANGED <<waitedSeqNum, writing, early, gone, status>>

Next ==
  \/ \E s \in Uint8, a \in FreePackets(pktQueue),
        new \in FreeNodes(pktQueue) \cup {NULL} : Arrive(s, a, new)
  \/ \E a \in FreePackets(ackQueue), new \in FreeNodes(ackQueue) \cup {NULL} :
       Reply(a, new)
  \/ WriteNext \/ WriteEnds \/ Send \/ Return

Spec == Init /\ [][Next]_vars

-----------------------------------------------------------------------------
(* Neither queue loses, keeps or uses a node or a packet that it should    *)
(* not, whichever of the three loops and branches found the place of a     *)
(* packet (queue_receiver.c:65-154) and after each of the nodes that are   *)
(* written and freed at once (217-240): what is left from runner on is a   *)
(* list, although head still points to the first node freed.               *)
Left ==
  IF status = "writing" THEN [pktQueue EXCEPT !.head = writing.runner]
  ELSE pktQueue

WellFormed ==
  /\ WellFormedList(Left) /\ WellFormedList(ackQueue)
  /\ ~ pktQueue.corrupt /\ ~ ackQueue.corrupt

(* What the lists stand for.  An arrival takes effect when the writing     *)
(* has ended.                                                              *)
Ahead   == IF status = "writing" THEN early ELSE Contents(pktQueue)
Replies == Contents(ackQueue)

(* The lists do what the sequences do that the model of the receiver uses, *)
(* operation for operation, with the same results: the three loops find    *)
(* the place InsertIndex defines, and the loop that writes the run of      *)
(* consecutive numbers (queue_receiver.c:12-243).                          *)
RQ == INSTANCE ReceiveQueues WITH
        waited <- waitedSeqNum, replies <- Replies, early <- Ahead

ImplementsReceiveQueues == RQ!Spec
=============================================================================
