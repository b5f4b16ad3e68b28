------------------------------- MODULE Faults -------------------------------
(***************************************************************************)
(* The transfer when the calls the two programs make fail: poll, read and  *)
(* write return -1, malloc returns NULL.  What happens next is what the    *)
(* code does then: it gives up, or goes on with what it has -- the reply   *)
(* it read before, the revents of the poll before, a packet it sent and    *)
(* did not keep.  A write to the socket that fails is a lost datagram      *)
(* (Link), a packet that no memory is found for when it is decoded is a    *)
(* corrupted one.                                                          *)
(***************************************************************************)
EXTENDS TransferInvariant

CONSTANTS
  Failing,      \* the calls that may fail
  MaxFailures   \* bound: how many calls fail

Calls == {"socket read", "give up", "eof packet", "keep", "number", "payload",
          "receiver poll", "receiver read", "packet", "reply", "queue reply",
          "queue packet", "file write"}

ASSUME FaultsAssumption == Failing \subseteq Calls /\ MaxFailures \in Nat

VARIABLES
  buf_ack,   \* the reply that was read last, as it decodes
  pollin,    \* did the receiver's last successful poll see a datagram?
  failures,  \* how many calls failed
  lost       \* did one fail that loses a packet or a payload?

faultVars == <<buf_ack, pollin, failures, lost>>
allVars == <<vars, faultVars>>

FaultsTypeOK ==
  /\ TypeOK
  /\ buf_ack \in {Garbled} \cup [status : {"ok"}, pkt : AckPacket]
  /\ pollin \in BOOLEAN /\ failures \in 0 .. MaxFailures /\ lost \in BOOLEAN

(* buf_ack is not initialised: no decoder accepts its bytes. *)
FaultsInit ==
  /\ Init
  /\ buf_ack = Garbled /\ pollin = FALSE
  /\ failures = 0 /\ lost = FALSE

(* The calls whose failure leaves the data alone: what is sent is kept,    *)
(* and what is delivered is written.                                       *)
KeepData == Calls \ {"keep", "number", "payload", "file write"}

(* One more call fails. *)
Fails(call) ==
  /\ call \in Failing /\ failures < MaxFailures
  /\ failures' = failures + 1
  /\ lost' = (lost \/ call \notin KeepData)

-----------------------------------------------------------------------------
(***************************************************************************)
(* The sender.                                                             *)
(***************************************************************************)
(* The read of the socket fails, with a reply still in it: the bytes of    *)
(* the one before are decoded and acted upon once more.                    *)
SSocketReadFails ==
  /\ Fails("socket read")
  /\ spc = "read" /\ sIdle' = 0
  /\ OnBad(buf_ack) \/ OnFinal(buf_ack) \/ OnAck(buf_ack) \/ OnNack(buf_ack)
  /\ UNCHANGED <<linkVars, seqNum, isLastAckNum, pos, readErrors, buf_ack>>

(* poll fails, or memory for anything but a packet to send is not there:   *)
(* the loop returns, or dies of the null pointer.                          *)
SGivesUp ==
  /\ Fails("give up")
  /\ spc \notin SEnded
  /\ spc' \in {"timeout", "crashed"}
  /\ UNCHANGED <<linkVars, seqNum, size_buffer, timer, firstAck, isLastAckNum,
                 buf, sIdle, pos, readErrors, buf_ack>>

(* No memory for the packet of length 0: the turn ends, the next one tries *)
(* again.                                                                  *)
SNoEofPacket ==
  /\ Fails("eof packet")
  /\ spc = "write" /\ pos = NChunks
  /\ spc' = "poll" /\ sIdle' = 0
  /\ UNCHANGED <<linkVars, seqNum, size_buffer, timer, firstAck, isLastAckNum,
                 buf, pos, readErrors, buf_ack>>

\* Mistaken steps: one gives up the rest of the file with the payload, one
\* takes the end of the file for a payload.
SWriteTheLast ==
  /\ spc = "write" /\ pos < NChunks
  /\ pos' = NChunks /\ spc' = "scan"
  /\ UNCHANGED <<rIn, sIn, size_buffer, timer, firstAck, isLastAckNum, buf,
                 readErrors, buf_ack>>

SWriteUnread ==
  /\ spc = "write"
  /\ pos' = pos + 1 /\ spc' = "scan"
  /\ UNCHANGED <<rIn, sIn, size_buffer, timer, firstAck, isLastAckNum, buf,
                 readErrors, buf_ack>>

(* A payload is read, and sent with what becomes of it, but not kept. *)
SWritePayload ==
  /\ spc = "write" /\ pos < NChunks
  /\ pos' = pos + 1 /\ spc' = "scan"
  /\ UNCHANGED <<rIn, sIn, size_buffer, timer, firstAck, isLastAckNum, buf,
                 readErrors, buf_ack>>

(* queue_push has no memory for a node: the packet is sent all the same.   *)
SNotKept ==
  /\ Fails("keep") /\ SWritePayload
  /\ Number([seqNum |-> seqNum, length |-> 1, n |-> created])

(* create_packet fails after it has numbered the packet: bytes that were   *)
(* never encoded are sent.                                                 *)
SNoPayload ==
  /\ Fails("payload") /\ SWritePayload
  /\ Number([seqNum |-> seqNum, length |-> GARBAGE, n |-> created])

(* create_packet fails before it has numbered the packet. *)
SNotNumbered ==
  /\ Fails("number") /\ SWritePayload
  /\ data' \in Sent(data, [seqNum |-> seqNum, length |-> GARBAGE,
                           n |-> created])
  /\ sIdle' = 0
  /\ UNCHANGED <<acks, created, seqNum>>

SenderFault ==
  \/ SSocketReadFails \/ SGivesUp \/ SNoEofPacket
  \/ SNotKept \/ SNoPayload \/ SNotNumbered

-----------------------------------------------------------------------------
(***************************************************************************)
(* The receiver.                                                           *)
(***************************************************************************)
AfterPoll == IF pollin THEN "read" ELSE "poll"

(* No memory for a queue, or for the time: the loop returns, or dies.      *)
RGivesUp ==
  /\ Fails("give up")
  /\ rpc = "poll" /\ rpc' = "timeout"
  /\ UNCHANGED <<linkVars, waitedSeqNum, finalSeqNum, isFinalSeqNum, pktQueue,
                 ackQueue, rIdle, written, nWaited>>

(* poll fails, and only says so: revents is what the poll before found.    *)
RPollFails ==
  /\ Fails("receiver poll")
  /\ rpc = "poll" /\ ~ RSilent
  /\ \E pollout \in {TRUE, ~ RMayBlock} :
       rpc' = IF pollout /\ ackQueue # << >> THEN "write" ELSE AfterPoll
  /\ UNCHANGED <<linkVars, waitedSeqNum, finalSeqNum, isFinalSeqNum, pktQueue,
                 ackQueue, rIdle, written, nWaited>>

(* The receiver then reads a socket that may be empty, and waits. *)
Blocked == rpc = "read" /\ rIn = NoInput

RUnblocks ==
  /\ Blocked
  /\ ArriveAtReceiver /\ rIn' # NoInput
  /\ UNCHANGED <<acks, sIn, created, receiverVars>>

(* The read fails: the clock is reset, the datagram stays. *)
RSocketReadFails ==
  /\ Fails("receiver read")
  /\ rpc = "read" /\ ~ Blocked
  /\ rpc' = "poll" /\ rIdle' = 0
  /\ UNCHANGED <<linkVars, waitedSeqNum, finalSeqNum, isFinalSeqNum, pktQueue,
                 ackQueue, written, nWaited>>

(* No memory for the packet, or for the reply to one that is not kept: the *)
(* loop is left.                                                           *)
RNoPacket ==
  /\ Fails("packet")
  /\ ~ Blocked /\ ReadThen("timeout")
  /\ Unmoved /\ UNCHANGED ackQueue

(* The same for the reply to a payload, which has been written already.    *)
RNoReply ==
  /\ Fails("reply")
  /\ ReadThen("timeout")
  /\ PayloadArrives(PushArrived, FALSE)
  /\ WriteRun(InOrder(PushArrived))
  /\ UNCHANGED ackQueue

(* queue_push frees the reply it has no memory for: all is done as if it   *)
(* was queued.                                                             *)
RReplyNotQueued ==
  /\ Fails("queue reply")
  /\ RReadSocket
  /\ \/ /\ \/ rIn.status \in {"bad", "tr"}
           \/ rIn.status = "ok" /\ ~ Accepts(rIn.pkt)
        /\ Unmoved
     \/ EofArrives
     \/ /\ PayloadArrives(PushArrived, Ends(InOrder(PushArrived)))
        /\ WriteRun(InOrder(PushArrived))
  /\ UNCHANGED ackQueue

(* queue_ordered_push has no memory: the packet is dropped, as one that is *)
(* queued already.                                                         *)
Refused == [pushed |-> FALSE, queue |-> pktQueue]

RNotQueued ==
  /\ Fails("queue packet")
  /\ RReadSocket
  /\ PayloadArrives(Refused, Ends(<< >>)) /\ UNCHANGED written
  /\ Reply("ACK", waitedSeqNum', nWaited', Ends(<< >>))

\* A mistaken step, which writes the whole payload once more.
WrittenAgain(ns, i) == InsertAt(ns, i, ns[i])

WrittenShort(ns, i) == RemoveAt(ns, i)

(* write to the file fails, or writes less: the packet counts as written.  *)
RFileWriteFails ==
  /\ Fails("file write")
  /\ RReadSocket
  /\ LET run == InOrder(PushArrived)
     IN  /\ PayloadArrives(PushArrived, Ends(run))
         /\ \E i \in 1 .. Len(run) :
              written' =
                written \o WrittenShort([k \in 1 .. Len(run) |-> run[k].n], i)
         /\ Reply("ACK", waitedSeqNum', nWaited', Ends(run))

ReceiverFault ==
  \/ RGivesUp \/ RPollFails \/ RSocketReadFails \/ RNoPacket \/ RNoReply
  \/ RReplyNotQueued \/ RNotQueued \/ RFileWriteFails

-----------------------------------------------------------------------------
(* The steps in which no call fails.  A reply that is read stays in        *)
(* buf_ack; after its writes the receiver reads if its last poll says so.  *)
SenderStep ==
  /\ SenderNext
  /\ buf_ack' = IF spc = "read" THEN sIn ELSE buf_ack
  /\ UNCHANGED <<receiverVars, pollin, failures, lost>>

ReceiverStep ==
  /\ \/ RPoll /\ pollin' = (rIn' # NoInput)
     \/ /\ \/ WriteThen(AfterPoll) \/ RUnblocks
           \/ RConnect \/ RTimeout \/ RReadInvalid \/ RReadTruncated
           \/ RReadOutside \/ RReadEof \/ RReadPayload
        /\ UNCHANGED pollin
  /\ UNCHANGED <<senderVars, buf_ack, failures, lost>>

Second == Tick /\ UNCHANGED faultVars

(* Nothing is left to do when the receiver reads an empty socket and the   *)
(* sender has ended.                                                       *)
FaultsTerminated ==
  /\ Stopped \/ (spc \in SEnded /\ Blocked)
  /\ UNCHANGED allVars

FaultsNext ==
  \/ SenderStep \/ ReceiverStep \/ Second \/ FaultsTerminated
  \/ SenderFault /\ UNCHANGED <<receiverVars, pollin>>
  \/ ReceiverFault /\ UNCHANGED <<senderVars, buf_ack, pollin>>

FaultsSpec == FaultsInit /\ [][FaultsNext]_allVars

FairFaultsSpec ==
  /\ FaultsSpec
  /\ WF_allVars(SenderStep) /\ WF_allVars(ReceiverStep) /\ WF_allVars(Second)
  /\ LinkFairness

-----------------------------------------------------------------------------
(* Nothing that was to be sent, and nothing that arrived, was dropped.     *)
Kept == ~ lost /\ readErrors = 0

(* Calls that fail without dropping a packet or a payload break nothing:   *)
(* what makes the transfer correct still holds after replies that find no  *)
(* memory, packets that are refused, reads and polls that fail             *)
(* (receiver.c:54-59, 104-120; queue_receiver.c:18-22, 60-66).             *)
SafeIfKept == Kept => SafetyInv

(* Decoding the last reply once more does no harm (sender.c:267-271): it   *)
(* has been acted upon, and an ACK in it speaks of no packet that is still *)
(* kept.                                                                   *)
Acted ==
  buf_ack.status = "ok" /\ spc # "acked" =>
    /\ Truthful(buf_ack.pkt, created, nWaited)
    /\ base - buf_ack.pkt.n <= MaxLag
    /\ buf_ack.pkt.type = "ACK" => buf_ack.pkt.n <= base

RereadInv == Kept => Acted

(* Whatever fails, no payload is written twice or out of order.  A write   *)
(* that failed leaves a hole (queue_receiver.c:219), a payload that was    *)
(* not numbered another (sender.c:31): never a repetition.                 *)
WrittenOnce == \A i, j \in 1 .. Len(written) : i < j => written[i] < written[j]

(* Whatever fails, a program that ends successfully has been told the      *)
(* truth: the receiver has moved past every packet that was numbered, and  *)
(* the sender will not be asked for one it did not keep (sender.c:274,     *)
(* receiver.c:86).                                                         *)
EndMeansReached ==
  spc = "acked" \/ rpc = "final" => nWaited = created /\ isLastAckNum

(* A receiver that ends successfully may have an incomplete file: a        *)
(* payload is lost when its packet could not be made (sender.c:31) or      *)
(* written to the file (queue_receiver.c:219).  But it lacks no more than  *)
(* one payload for each call that failed: none that follows is lost with   *)
(* it, and none because a packet was not kept, a reply not queued or the   *)
(* queue emptied by an ACK (sender.c:179, queue_sender.c:79-114).          *)
LossIsCounted == rpc = "final" => NChunks - Len(written) <= failures

-----------------------------------------------------------------------------
(***************************************************************************)
(* Why.  A call that fails may leave a gap: a number that no packet of the *)
(* sender's queue has, so that the queue is no longer the last Len(buf)    *)
(* numbers, and an ACK may find its packet missing and empty the queue     *)
(* (queue_sender.c:86).  But there are no more gaps than failures, and as  *)
(* long as those, two windows and the lag of the link fit into the         *)
(* sequence numbers, a number still stands for one packet only.            *)
(***************************************************************************)
gaps == readErrors + failures

FewGaps ==
  MaxLag + 2 * (MAX_BUFFER_SIZE + MaxReadErrors + MaxFailures) < SeqSpace

(* The oldest number the sender still looks for. *)
front == IF buf = << >> THEN created ELSE buf[1].n

(* The receiver has moved past the packet of length 0. *)
Reached == nWaited = created /\ isLastAckNum

(* A packet that was sent when count were numbered, and whether the last   *)
(* of them ended the file.                                                 *)
Numbered(d, count, ended) ==
  /\ d.seqNum = ToUint8(d.n) /\ d.n < count
  /\ IF d.length = EOF_LENGTH THEN ended /\ d.n = count - 1
     ELSE ended => d.n < count - 1

SenderGaps ==
  /\ seqNum = ToUint8(created)
  /\ Len(buf) <= MAX_BUFFER_SIZE
  /\ \A i \in 1 .. Len(buf) :
        /\ Numbered(buf[i], created, isLastAckNum)
        /\ created - buf[i].n <= Len(buf) - i + 1 + gaps
  /\ \A i, j \in 1 .. Len(buf) : i < j => buf[i].n < buf[j].n
  /\ spc = "write" => Len(buf) < MAX_BUFFER_SIZE /\ ~ isLastAckNum
  /\ spc = "acked" => Reached

ReceiverGaps ==
  /\ front <= nWaited + MAX_BUFFER_SIZE + gaps /\ nWaited <= created
  /\ waitedSeqNum = ToUint8(nWaited)
  /\ \A i \in 1 .. Len(pktQueue) :
        /\ nWaited < pktQueue[i].n
        /\ pktQueue[i].n < nWaited + MAX_BUFFER_SIZE
        /\ Numbered(pktQueue[i], created, isLastAckNum)
  /\ \A i, j \in 1 .. Len(pktQueue) :
        i < j => pktQueue[i].n < pktQueue[j].n
  /\ isFinalSeqNum => isLastAckNum /\ finalSeqNum = ToUint8(created - 1)
  /\ rpc = "final" => Reached

WrittenGaps ==
  WrittenOnce /\ \A i \in 1 .. Len(written) : written[i] < nWaited

DataGaps ==
  /\ \A d \in data :
        d.length # GARBAGE => Numbered(d, created, isLastAckNum)
  /\ rIn.status \in {"ok", "tr"} =>
        /\ Numbered(rIn.pkt, created, isLastAckNum)
        /\ nWaited - rIn.pkt.n <= MaxLag

(* A reply is read in the turn that it arrives in, or the read fails: at   *)
(* most one packet is numbered before.                                     *)
Overtaking ==
  failures + (IF spc \in {"poll", "write"} /\ ~ isLastAckNum THEN 0 ELSE 1)

ReplyGaps ==
  /\ \A i \in 1 .. Len(ackQueue) :
        /\ Truthful(ackQueue[i], created, nWaited)
        /\ ackQueue[i].trFlag => Reached
  /\ \A a \in acks : Truthful(a, created, nWaited)
  /\ sIn.status = "ok" =>
        /\ Truthful(sIn.pkt, created, nWaited)
        /\ created - sIn.pkt.n <= MaxLag + Overtaking
  /\ buf_ack.status = "ok" =>
        /\ Truthful(buf_ack.pkt, created, nWaited)
        /\ front - buf_ack.pkt.n <= MaxLag + MAX_BUFFER_SIZE + gaps

(* However many packets and payloads are dropped, each number stands for   *)
(* the packet it was meant for, and each program knows no more than is     *)
(* true (sender.c:274, 283, 311; receiver.c:153-207).                      *)
GapsInv ==
  SenderGaps /\ ReceiverGaps /\ WrittenGaps /\ DataGaps /\ ReplyGaps
=============================================================================
