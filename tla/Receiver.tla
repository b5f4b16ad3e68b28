------------------------------ MODULE Receiver ------------------------------
(***************************************************************************)
(* The program of receiver.c.  It first waits, without a time limit, for   *)
(* the first datagram (wait_for_client).  One turn of read_write_loop then *)
(* is                                                                      *)
(*                                                                         *)
(*   poll  --> write (every queued ACK) --> read (one datagram)            *)
(*                                                                         *)
(* and rpc is the stage it is at.                                          *)
(***************************************************************************)
EXTENDS Link, QueueReceiver

CONSTANTS
  RIdleLimit,   \* the seconds of silence after which to give up (10 s)
  RIdleCap,     \* bound: seconds of silence are counted up to this
  RMayBlock,    \* may poll return without POLLOUT?
  AckBound      \* bound: poll does so while fewer ACKs than this are queued

ASSUME ReceiverAssumption ==
  /\ RIdleLimit \in Nat /\ RIdleCap \in Nat /\ AckBound \in Nat
  /\ RMayBlock \in BOOLEAN

VARIABLES
  rpc,            \* the stage of the loop, or how the program ended
  waitedSeqNum,   \* the sequence number of the next packet to deliver
  finalSeqNum,    \* that of the packet of length 0, once it has arrived
  isFinalSeqNum,  \* has the packet of length 0 arrived?
  pktQueue,       \* the packets that arrived ahead of the one waited for
  ackQueue,       \* the ACKs and NACKs to send; trFlag marks the last one
  rIdle,          \* the seconds since tpGlobal
  written,        \* what was written to the file: the n of its packets
  nWaited         \* the absolute number waitedSeqNum stands for

receiverVars == <<rpc, waitedSeqNum, finalSeqNum, isFinalSeqNum, pktQueue,
                  ackQueue, rIdle, written, nWaited>>

REnded == {"final", "timeout"}

(* What the two queues hold. *)
EarlyPacket == [seqNum : Uint8, length : {1}, n : Nat]
QueuedAck == [type : {"ACK", "NACK"}, seqNum : Uint8,
              window : {MAX_BUFFER_SIZE}, n : Nat, trFlag : BOOLEAN]

ReceiverTypeOK ==
  /\ rpc \in {"wait", "poll", "write", "read"} \cup REnded
  /\ waitedSeqNum \in Uint8 /\ finalSeqNum \in Uint8
  /\ isFinalSeqNum \in BOOLEAN
  /\ pktQueue \in Seq(EarlyPacket)
  /\ ackQueue \in Seq(QueuedAck)
  /\ rpc = "write" => ackQueue # << >>
  /\ rIdle \in 0 .. RIdleCap
  /\ written \in Seq(Nat)
  /\ nWaited \in Nat

ReceiverInit ==
  /\ rpc = "wait"
  /\ waitedSeqNum = 0 /\ finalSeqNum = ToUint8(-1) /\ isFinalSeqNum = FALSE
  /\ pktQueue = << >> /\ ackQueue = << >>
  /\ rIdle = 0 /\ written = << >> /\ nWaited = 0

(* POLLIN is set when the socket buffer has a datagram. *)
AfterWrite(in) == IF in = NoInput THEN "poll" ELSE "read"

-----------------------------------------------------------------------------
(* The first datagram tells the address of the sender.  It is peeked at    *)
(* and stays in the socket buffer.                                         *)
RConnect ==
  /\ rpc = "wait"
  /\ ArriveAtReceiver /\ rIn' # NoInput
  /\ rpc' = "poll" /\ rIdle' = 0
  /\ UNCHANGED <<acks, sIn, created, waitedSeqNum, finalSeqNum, isFinalSeqNum,
                 pktQueue, ackQueue, written, nWaited>>

\* A mistaken test, which waits for the last ACK once the end is known.
RSilentBeforeEof == rIdle > RIdleLimit /\ ~ isFinalSeqNum

RSilent == rIdle > RIdleLimit

RTimeout ==
  /\ rpc = "poll" /\ RSilent
  /\ rpc' = "timeout"
  /\ UNCHANGED <<linkVars, waitedSeqNum, finalSeqNum, isFinalSeqNum, pktQueue,
                 ackQueue, rIdle, written, nWaited>>

RPoll ==
  /\ rpc = "poll" /\ ~ RSilent
  /\ ArriveAtReceiver
  /\ \/ rpc' = IF ackQueue # << >> THEN "write" ELSE AfterWrite(rIn')
     \/ /\ RMayBlock /\ Len(ackQueue) < AckBound
        /\ rpc' = AfterWrite(rIn')
  /\ UNCHANGED <<acks, sIn, created, waitedSeqNum, finalSeqNum, isFinalSeqNum,
                 pktQueue, ackQueue, rIdle, written, nWaited>>

(* One turn of the inner loop.  The program ends once it has written the   *)
(* last ACK, whatever is still queued behind it.                           *)
WriteThen(stage) ==
  /\ rpc = "write"
  /\ LET ack == Head(ackQueue)
     IN  /\ acks' \in Sent(acks, [type |-> ack.type, seqNum |-> ack.seqNum,
                                  window |-> ack.window, n |-> ack.n])
         /\ ackQueue' = Tail(ackQueue)
         /\ rpc' = IF ack.trFlag THEN "final"
                   ELSE IF ackQueue' # << >> THEN "write" ELSE stage
  /\ UNCHANGED <<data, rIn, sIn, created, waitedSeqNum, finalSeqNum,
                 isFinalSeqNum, pktQueue, rIdle, written, nWaited>>

RWrite == WriteThen(AfterWrite(rIn))

-----------------------------------------------------------------------------
(* What every read of the socket does, and the reply it queues. *)
ReadThen(stage) ==
  /\ rpc = "read"
  /\ rIn' = NoInput /\ rIdle' = 0 /\ rpc' = stage
  /\ UNCHANGED <<data, acks, sIn, created>>

RReadSocket == ReadThen("poll")

\* Mistaken replies: the last one is never marked, or every one is that
\* follows the packet of length 0.
ReplyUnmarked(type, seq, count, last) ==
  ackQueue' = Append(ackQueue, [type |-> type, seqNum |-> seq, n |-> count,
                                window |-> MAX_BUFFER_SIZE, trFlag |-> FALSE])
ReplyMarked(type, seq, count, last) ==
  ackQueue' = Append(ackQueue, [type |-> type, seqNum |-> seq, n |-> count,
                                window |-> MAX_BUFFER_SIZE,
                                trFlag |-> isFinalSeqNum])

Reply(type, seq, count, last) ==
  ackQueue' = Append(ackQueue, [type |-> type, seqNum |-> seq, n |-> count,
                                window |-> MAX_BUFFER_SIZE, trFlag |-> last])

Unmoved == UNCHANGED <<waitedSeqNum, finalSeqNum, isFinalSeqNum, pktQueue,
                       written, nWaited>>

RReadInvalid ==
  /\ RReadSocket /\ rIn = Garbled
  /\ Reply("ACK", waitedSeqNum, nWaited, FALSE)
  /\ Unmoved

\* A mistaken reply, which acknowledges the packet without its payload.
RReadTruncatedAcks ==
  /\ RReadSocket /\ rIn.status = "tr"
  /\ Reply("ACK", Plus(rIn.pkt.seqNum, 1), rIn.pkt.n + 1, FALSE)
  /\ Unmoved

RReadTruncated ==
  /\ RReadSocket /\ rIn.status = "tr"
  /\ Reply("NACK", rIn.pkt.seqNum, rIn.pkt.n, FALSE)
  /\ Unmoved

\* A mistaken acceptance, of every packet.
AcceptsAll(pkt) == TRUE

Accepts(pkt) == InWindow(pkt.seqNum, waitedSeqNum, MAX_BUFFER_SIZE)

RReadOutside ==
  /\ RReadSocket /\ rIn.status = "ok" /\ ~ Accepts(rIn.pkt)
  /\ Reply("ACK", waitedSeqNum, nWaited, FALSE)
  /\ Unmoved

(* The packet of length 0 is the last one when it is the one waited for.   *)
EofArrives ==
  /\ rIn.status = "ok"
  /\ Accepts(rIn.pkt) /\ rIn.pkt.length = EOF_LENGTH
  /\ isFinalSeqNum' = TRUE /\ finalSeqNum' = rIn.pkt.seqNum
  /\ LET step == IF rIn.pkt.seqNum = waitedSeqNum THEN 1 ELSE 0
     IN  waitedSeqNum' = Plus(waitedSeqNum, step) /\ nWaited' = nWaited + step
  /\ UNCHANGED <<pktQueue, written>>

RReadEof ==
  /\ RReadSocket /\ EofArrives
  /\ Reply("ACK", waitedSeqNum', nWaited', rIn.pkt.seqNum = waitedSeqNum)

(* The packet is queued, unless push says that it is not, and every packet *)
(* that is now in order is taken out to be written.                        *)
InOrder(push) ==
  IF push.pushed THEN queue_payload_write(push.queue, waitedSeqNum).written
  ELSE << >>

Ends(run) == isFinalSeqNum /\ Plus(waitedSeqNum, Len(run)) = finalSeqNum

PayloadArrives(push, ends) ==
  /\ rIn.status = "ok"
  /\ Accepts(rIn.pkt) /\ rIn.pkt.length # EOF_LENGTH
  /\ LET run  == InOrder(push)
         step == IF ends THEN 1 ELSE 0
     IN  /\ pktQueue' = IF push.pushed
                        THEN queue_payload_write(push.queue, waitedSeqNum).queue
                        ELSE pktQueue
         /\ waitedSeqNum' = Plus(Plus(waitedSeqNum, Len(run)), step)
         /\ nWaited' = nWaited + Len(run) + step
  /\ UNCHANGED <<finalSeqNum, isFinalSeqNum>>

PushArrived ==
  queue_ordered_push(pktQueue, rIn.pkt, waitedSeqNum, MAX_BUFFER_SIZE)

(* What queue_payload_write adds to the file. *)
WriteRun(run) == written' = written \o [i \in 1 .. Len(run) |-> run[i].n]

(* A packet that is queued already changes nothing; even so the end of the *)
(* file may be recognised and its ACK marked the last.                     *)
RReadPayload ==
  /\ RReadSocket
  /\ LET run == InOrder(PushArrived)
     IN  /\ PayloadArrives(PushArrived, Ends(run))
         /\ WriteRun(run)
         /\ Reply("ACK", waitedSeqNum', nWaited', Ends(run))

ReceiverNext ==
  \/ RConnect \/ RTimeout \/ RPoll \/ RWrite
  \/ RReadInvalid \/ RReadTruncated
  \/ RReadOutside \/ RReadEof \/ RReadPayload
=============================================================================
