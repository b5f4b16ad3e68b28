--------------------------- MODULE QueueReceiver ----------------------------
(***************************************************************************)
(* The receiver's queue of packets that arrived ahead of the one it waits  *)
(* for (queue_receiver.c).  The linked list is a sequence of packets; only *)
(* the seqNum field of a packet matters here.                              *)
(***************************************************************************)
EXTENDS SeqNum, SequencesExt

(* The first of a set of positions of q; one past the end if there is none *)
FirstOf(q, S) == IF S = {} THEN Len(q) + 1 ELSE Min(S)

(***************************************************************************)
(* The position at which queue_ordered_push inserts a packet numbered s.   *)
(* When the window [waited, waited + size - 1] may run over the end of the *)
(* uint8_t range, numbers of the upper end ("high") come before those that *)
(* have wrapped to 0, 1, ...: a wrapped number is placed after every high  *)
(* one, and a high number before every wrapped one.                        *)
(***************************************************************************)
\* A mistaken position: plain numeric order, as if numbers never wrapped.
NumericIndex(q, s, waited, size) ==
  FirstOf(q, {i \in 1 .. Len(q) : q[i].seqNum >= s})

InsertIndex(q, s, waited, size) ==
  LET wraps     == waited >= SeqSpace - size
      High(x)   == x >= SeqSpace - size
      lowest    == FirstOf(q, {i \in 1 .. Len(q) : ~ High(q[i].seqNum)})
      start     == IF wraps /\ s < size - 1 THEN lowest ELSE 1
      Before(i) == /\ q[i].seqNum < s
                   /\ wraps /\ High(s) => High(q[i].seqNum)
  IN  FirstOf(q, {i \in start .. Len(q) : ~ Before(i)})

(* queue_ordered_push: a number that is already queued is refused (-1). *)
queue_ordered_push(q, pkt, waited, size) ==
  LET i == InsertIndex(q, pkt.seqNum, waited, size)
  IN  IF i <= Len(q) /\ q[i].seqNum = pkt.seqNum
      THEN [pushed |-> FALSE, queue |-> q]
      ELSE [pushed |-> TRUE,  queue |-> InsertAt(q, i, pkt)]

(***************************************************************************)
(* queue_payload_write: the packets at the head of q that are numbered     *)
(* seqNum, seqNum + 1, ... are written to the file and removed.  RunLength *)
(* is how many they are, the value the C function returns.                 *)
(***************************************************************************)
\* A mistaken run, which compares with numbers that do not wrap to 0.
RunLengthNoWrap(q, seqNum) ==
  FirstOf(q, {i \in 1 .. Len(q) : q[i].seqNum # seqNum + i - 1}) - 1

RunLength(q, seqNum) ==
  FirstOf(q, {i \in 1 .. Len(q) : q[i].seqNum # Plus(seqNum, i - 1)}) - 1

queue_payload_write(q, seqNum) ==
  LET count == RunLength(q, seqNum)
  IN  [written |-> SubSeq(q, 1, count),
       queue   |-> SubSeq(q, count + 1, Len(q))]
=============================================================================
