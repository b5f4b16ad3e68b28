------------------------------ MODULE Transfer ------------------------------
(***************************************************************************)
(* The two programs and the link between them: one run of `sender' against *)
(* one run of `receiver'.                                                  *)
(***************************************************************************)
EXTENDS Sender, Receiver

vars == <<linkVars, senderVars, receiverVars>>

Init == LinkInit /\ SenderInit /\ ReceiverInit

(* A second passes.  Whatever measures time is counted up to its bound.    *)
Older(p) ==
  IF p.age = Nacked \/ p.age = AgeCap THEN p ELSE [p EXCEPT !.age = @ + 1]

Aged == [i \in 1 .. Len(buf) |-> Older(buf[i])]

Tick ==
  /\ buf' = Aged
  /\ sIdle' = IF sIdle < IdleCap THEN sIdle + 1 ELSE sIdle
  /\ rIdle' = IF rIdle < RIdleCap /\ rpc # "wait" THEN rIdle + 1 ELSE rIdle
  /\ <<buf, sIdle, rIdle>>' # <<buf, sIdle, rIdle>>
  /\ UNCHANGED <<linkVars, spc, seqNum, size_buffer, timer, firstAck,
                 isLastAckNum, pos, readErrors, rpc, waitedSeqNum,
                 finalSeqNum, isFinalSeqNum, pktQueue, ackQueue, written,
                 nWaited>>

(* Both programs have ended, or the receiver waits for a first datagram of *)
(* a sender that has ended.                                                *)
Stopped == spc \in SEnded /\ rpc \in REnded \cup {"wait"}

Terminated == Stopped /\ UNCHANGED vars

Next ==
  \/ SenderNext /\ UNCHANGED receiverVars
  \/ ReceiverNext /\ UNCHANGED senderVars
  \/ Tick
  \/ Terminated

Spec == Init /\ [][Next]_vars

TypeOK == LinkTypeOK /\ SenderTypeOK /\ ReceiverTypeOK

-----------------------------------------------------------------------------
(* The oldest packet the sender still keeps, by its absolute number. *)
base == created - Len(buf)

(* What the receiver writes to the file is a prefix of what the sender     *)
(* reads from its own: no payload is lost, written twice or out of order   *)
(* (queue_payload_write, receiver.c:188), whatever the link does.          *)
DeliveredPrefix == \A i \in 1 .. Len(written) : written[i] = i - 1

(* The sender forgets a packet (queue_delete, sender.c:316) only after the *)
(* receiver has moved past it: until then it can still be sent again.      *)
NoPrematureDelete == base <= nWaited

(* A sender that ends because its last packet is acknowledged              *)
(* (sender.c:274-277) leaves a receiver that has written the whole file.   *)
AckedMeansDelivered == spc = "acked" => Len(written) = NChunks

(* A receiver that ends because it sent the last ACK (receiver.c:86-93)    *)
(* has written the whole file, and kept no packet it did not write.        *)
FinalMeansComplete ==
  rpc = "final" => Len(written) = NChunks /\ pktQueue = << >>

(* The receiver's queue holds each number once, in the order in which they *)
(* will be delivered, also across the wrap of the sequence numbers         *)
(* (queue_ordered_push), and never the packet that is waited for.          *)
QueueOrdered ==
  /\ \A i \in 1 .. Len(pktQueue) :
        Minus(pktQueue[i].seqNum, waitedSeqNum) \in 1 .. MAX_BUFFER_SIZE - 1
  /\ \A i, j \in 1 .. Len(pktQueue) : i < j =>
        Minus(pktQueue[i].seqNum, waitedSeqNum)
          < Minus(pktQueue[j].seqNum, waitedSeqNum)

(* The last ACK is marked once the whole file is written (receiver.c:174,  *)
(* 207), never for a packet that only looks like the end of the file.      *)
LastAckMeansComplete ==
  \A i \in 1 .. Len(ackQueue) :
     ackQueue[i].trFlag => Len(written) = NChunks

(* The receiver does not move past the end of the file without saying so:  *)
(* once it has, its last ACK is queued or was sent (receiver.c:174, 207),  *)
(* whether the packet of length 0 came before or after the last payload,   *)
(* and whatever replies are queued behind it and dropped (86-93).          *)
EndIsSignalled ==
  nWaited > NChunks =>
     rpc = "final" \/ \E i \in 1 .. Len(ackQueue) : ackQueue[i].trFlag

(* The sender forgets exactly the packets that the ACK it reads was        *)
(* written about, although the ACK names them by a number that is used     *)
(* again and again (sender.c:283, 311-316): an ACK from before the last    *)
(* wrap, or a repeated one, deletes nothing.                               *)
DeletesWhatWasMeant ==
  [][base' # base => /\ sIn.status = "ok" /\ sIn.pkt.type = "ACK"
                     /\ base' = sIn.pkt.n]_vars

(* The sender is never further ahead of the receiver than the window the   *)
(* receiver has room for (sender.c:109, 284), whatever ACK told it so.     *)
WithinReceiverWindow == created <= nWaited + MAX_BUFFER_SIZE

(* No ACK finds the sender's queue empty: sender.c:311 reads the head of   *)
(* the queue before line 314 tests its size.                               *)
NeverCrashes == spc # "crashed"

-----------------------------------------------------------------------------
(* The two programs implement the file transfer: the copy is what was      *)
(* written, and how the programs end is told from their last stages.       *)
SenderOutcome ==
  IF spc = "acked" THEN "acked"
  ELSE IF spc \in SEnded THEN "gaveup" ELSE "running"

ReceiverOutcome ==
  IF rpc = "final" THEN "final"
  ELSE IF rpc = "timeout" THEN "gaveup" ELSE "running"

FT == INSTANCE FileTransfer WITH
        Chunks <- NChunks, MaxBurst <- MAX_BUFFER_SIZE,
        copy <- written, senderStatus <- SenderOutcome,
        receiverStatus <- ReceiverOutcome

(* Every behaviour of the two programs and the link is one of the abstract *)
(* file transfer: payloads are appended in order and at most a window at a *)
(* time, and whichever program ends successfully, the copy is complete.    *)
ImplementsFileTransfer == FT!Spec

-----------------------------------------------------------------------------
(***************************************************************************)
(* What is assumed of the link: that two datagrams get through in the end  *)
(* when they are sent again and again, the oldest packet that is not       *)
(* acknowledged, and the latest ACK.  Faults adds that both programs, which*)
(* poll with a time-out and never block, take their next step.             *)
(***************************************************************************)
ResendArrives ==
  /\ buf # << >>
  /\ SResend(1) /\ Datagram(buf[1]) \in data'
  /\ UNCHANGED receiverVars

Received ==
  /\ RPoll \/ RConnect
  /\ rIn = NoInput /\ rIn'.status = "ok" /\ rIn'.pkt.n = base
  /\ UNCHANGED senderVars

AckWritten ==
  /\ RWrite /\ Head(ackQueue).type = "ACK" /\ Head(ackQueue).n = nWaited
  /\ \E a \in acks' : a.type = "ACK" /\ a.n = nWaited
  /\ UNCHANGED senderVars

AckReceived ==
  /\ SPoll
  /\ sIn = NoInput /\ sIn'.status = "ok"
  /\ sIn'.pkt.type = "ACK" /\ sIn'.pkt.n = nWaited
  /\ UNCHANGED receiverVars

LinkFairness ==
  /\ SF_vars(ResendArrives) /\ SF_vars(Received)
  /\ SF_vars(AckWritten) /\ SF_vars(AckReceived)

(* The whole file is written and the receiver ends with its last ACK, if   *)
(* no one gives up: lost packets are sent again (sender.c:192-256) and     *)
(* lost ACKs are repeated (receiver.c:213-228) until the last one.         *)
Completes == <>(rpc = "final" /\ Len(written) = NChunks)

(* Both programs end, in one way or the other: also when the last ACK is   *)
(* lost and the receiver is gone, and when nothing arrives at all          *)
(* (sender.c:87-95, receiver.c:42-51).  A receiver whose sender never      *)
(* reaches it waits for ever.                                              *)
BothEnd == <>[]Stopped
=============================================================================
