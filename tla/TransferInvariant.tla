------------------------- MODULE TransferInvariant -------------------------
(***************************************************************************)
(* Why the transfer is correct: what holds between the sequence numbers    *)
(* the two programs keep and the absolute numbers they stand for, the      *)
(* window of the sender and that of the receiver, and whatever is still    *)
(* under way between them.  SafetyInv is an inductive invariant when       *)
(* Timely holds (TransferTheorems).                                        *)
(***************************************************************************)
EXTENDS Transfer

(* The file can be read, two windows fit into the sequence numbers, and no *)
(* datagram arrives so late that its number has come round again.          *)
Timely ==
  /\ MaxReadErrors = 0
  /\ 2 * MAX_BUFFER_SIZE <= SeqSpace
  /\ MaxLag + MAX_BUFFER_SIZE < SeqSpace

(* A packet that was sent when count packets were numbered: its sequence   *)
(* number and what it carries follow from its absolute number.             *)
Genuine(d, count) ==
  /\ d.seqNum = ToUint8(d.n) /\ d.n < count
  /\ d.length = EOF_LENGTH <=> d.n = NChunks
  /\ d.length # GARBAGE

(* A reply that was sent when the receiver had reached `reached': an ACK   *)
(* does not speak of more than that, a NACK only of a packet that was sent *)
Truthful(a, count, reached) ==
  /\ a.seqNum = ToUint8(a.n)
  /\ a.type = "NACK" => a.n < count
  /\ a.type = "ACK" => a.n <= reached

(* The end of the file: the receiver has moved past the last packet. *)
AtEnd == nWaited = NChunks + 1

(* The sender's queue is the packets from base to created - 1. *)
SenderInv ==
  /\ seqNum = ToUint8(created)
  /\ Len(buf) <= MAX_BUFFER_SIZE /\ base >= 0
  /\ \A i \in 1 .. Len(buf) :
        buf[i].n = base + i - 1 /\ Genuine(buf[i], created)
  /\ IF isLastAckNum THEN created = NChunks + 1 ELSE created = pos
  /\ spc = "write" => Len(buf) < MAX_BUFFER_SIZE /\ ~ isLastAckNum
  /\ spc = "acked" => AtEnd

(* The receiver's position lies within the sender's queue or just behind   *)
(* it, and what the receiver keeps are later packets, in order.            *)
ReceiverInv ==
  /\ base <= nWaited /\ nWaited <= created
  /\ waitedSeqNum = ToUint8(nWaited)
  /\ \A i \in 1 .. Len(pktQueue) :
        nWaited < pktQueue[i].n /\ Genuine(pktQueue[i], created)
  /\ \A i, j \in 1 .. Len(pktQueue) :
        i < j => pktQueue[i].n < pktQueue[j].n
  /\ isFinalSeqNum =>
        created = NChunks + 1 /\ finalSeqNum = ToUint8(NChunks)
  /\ rpc = "final" => AtEnd

(* What is written is the file up to the receiver's position. *)
WrittenInv ==
  /\ Len(written) = IF AtEnd THEN NChunks ELSE nWaited
  /\ \A i \in 1 .. Len(written) : written[i] = i - 1

(* The packets under way, and the one that has just arrived: not too old.  *)
DataInv ==
  /\ \A d \in data : d.length # GARBAGE => Genuine(d, created)
  /\ rIn.status \in {"ok", "tr"} =>
        Genuine(rIn.pkt, created) /\ nWaited - rIn.pkt.n <= MaxLag

(* The replies queued, under way and just arrived: not too old. *)
ReplyInv ==
  /\ \A i \in 1 .. Len(ackQueue) :
        /\ Truthful(ackQueue[i], created, nWaited)
        /\ ackQueue[i].trFlag => AtEnd
  /\ \A a \in acks : Truthful(a, created, nWaited)
  /\ sIn.status = "ok" =>
        /\ Truthful(sIn.pkt, created, nWaited)
        /\ base - sIn.pkt.n <= MaxLag

(* Each number the two programs hold or have under way stands for the      *)
(* packet it was meant for, and each of the two knows no more than is true *)
(* (sender.c:274, 309-319; receiver.c:153-207).                            *)
SafetyInv == SenderInv /\ ReceiverInv /\ WrittenInv /\ DataInv /\ ReplyInv
=============================================================================
