---------------------------- MODULE QueueSender -----------------------------
(***************************************************************************)
(* The sender's queue of packets that are not acknowledged yet             *)
(* (queue_sender.c), as a sequence.  A packet of the queue carries its     *)
(* age, the seconds since the timestamp in its header; the age Nacked      *)
(* stands for the timestamp 0 that a NACK leaves there.                    *)
(***************************************************************************)
EXTENDS SeqNum, SequencesExt

Nacked == -1

queue_push(q, pkt) == Append(q, pkt)

(* The position of the first packet numbered s, 0 if no packet has it. *)
FindIndex(q, s) ==
  LET hits == {i \in 1 .. Len(q) : q[i].seqNum = s}
  IN  IF hits = {} THEN 0 ELSE Min(hits)

(* queue_find_ack_structure: is there a packet numbered s? *)
queue_find_ack(q, s) == FindIndex(q, s) # 0

(***************************************************************************)
(* queue_delete pops every packet up to and including the first one        *)
(* numbered s -- and the whole queue when no packet has that number.       *)
(***************************************************************************)
\* A mistaken deletion, one packet too many.
DeleteOneMore(q, s) ==
  IF FindIndex(q, s) \in {0, Len(q)} THEN << >>
  ELSE SubSeq(q, FindIndex(q, s) + 2, Len(q))

\* Another one, which keeps the packet numbered s.
DeleteOneLess(q, s) ==
  IF FindIndex(q, s) = 0 THEN << >> ELSE SubSeq(q, FindIndex(q, s), Len(q))

queue_delete(q, s) ==
  IF FindIndex(q, s) = 0 THEN << >>
  ELSE SubSeq(q, FindIndex(q, s) + 1, Len(q))

(* queue_find_nack_structure: reset the timestamp of the packet numbered s *)
queue_find_nack(q, s) ==
  IF FindIndex(q, s) = 0 THEN q ELSE [q EXCEPT ![FindIndex(q, s)].age = Nacked]
=============================================================================
