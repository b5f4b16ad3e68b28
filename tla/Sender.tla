------------------------------- MODULE Sender -------------------------------
(***************************************************************************)
(* The program of sender.c.  One turn of read_write_loop is                *)
(*                                                                         *)
(*   poll  --> write (a new packet) --> scan (one retransmission)          *)
(*                                          --> read (one ACK or NACK)     *)
(*                                                                         *)
(* and spc is the stage it is at.  The file to send is NChunks payloads    *)
(* long; the packet that ends it has length 0.                             *)
(***************************************************************************)
EXTENDS Link, QueueSender

CONSTANTS
  NChunks,        \* the payloads of the file
  DefaultTimer,   \* the retransmission timer before the first ACK (3 s)
  IdleLimit,      \* the seconds of silence after which to give up (10 s)
  AgeCap,         \* bound: ages of packets are counted up to this
  IdleCap,        \* bound: seconds of silence are counted up to this
  MayBlock,       \* may poll return without POLLOUT?
  MaxReadErrors   \* bound: how often reading the file may fail

ASSUME SenderAssumption ==
  /\ NChunks \in Nat /\ DefaultTimer \in Nat /\ IdleLimit \in Nat
  /\ AgeCap \in Nat \ {0} /\ IdleCap \in Nat
  /\ MayBlock \in BOOLEAN /\ MaxReadErrors \in Nat

VARIABLES
  spc,            \* the stage of the loop, or how the program ended
  seqNum,         \* the sequence number of the next packet
  size_buffer,    \* the most packets that may wait for their ACK
  timer,          \* the retransmission timer
  firstAck,       \* has no ACK set the timer yet?
  isLastAckNum,   \* was the packet of length 0 sent?
  buf,            \* buf_structure: the packets not acknowledged yet
  sIdle,          \* the seconds since tpGlobal
  pos,            \* how many payloads were read from the file
  readErrors      \* how many reads of the file failed

senderVars == <<spc, seqNum, size_buffer, timer, firstAck, isLastAckNum, buf,
                sIdle, pos, readErrors>>

(* What 2*(now - 0), the difference to the timestamp 0, overflows to. *)
Overflowed == -1

SEnded == {"acked", "timeout", "crashed"}

(* A packet of the queue. *)
QueuedPacket == [seqNum : Uint8, length : {EOF_LENGTH, 1}, n : Nat,
                 age : 0 .. AgeCap \cup {Nacked}]

SenderTypeOK ==
  /\ spc \in {"poll", "write", "scan", "read"} \cup SEnded
  /\ seqNum \in Uint8
  /\ size_buffer \in {1, MAX_BUFFER_SIZE}
  /\ timer \in {Overflowed} \cup Nat
  /\ firstAck \in BOOLEAN /\ isLastAckNum \in BOOLEAN
  /\ buf \in Seq(QueuedPacket)
  /\ sIdle \in 0 .. IdleCap
  /\ pos \in 0 .. NChunks /\ readErrors \in 0 .. MaxReadErrors

SenderInit ==
  /\ spc = "poll" /\ seqNum = 0 /\ size_buffer = 1 /\ timer = DefaultTimer
  /\ firstAck = TRUE /\ isLastAckNum = FALSE /\ buf = << >>
  /\ sIdle = 0 /\ pos = 0 /\ readErrors = 0

(* The datagram of a queued packet, and a queued packet sent just now. *)
Datagram(p) == [seqNum |-> p.seqNum, length |-> p.length, n |-> p.n]
Queued(d) == [seqNum |-> d.seqNum, length |-> d.length, n |-> d.n, age |-> 0]

\* A mistaken limit, one packet more than the window.
CanSendOneMore == Len(buf) <= size_buffer /\ ~ isLastAckNum

CanSend == Len(buf) < size_buffer /\ ~ isLastAckNum

(* POLLIN is set when the socket buffer has a datagram. *)
AfterScan(in) == IF in = NoInput THEN "poll" ELSE "read"

-----------------------------------------------------------------------------
(* No exchange for more than IdleLimit seconds: the program ends. *)
Silent == sIdle > IdleLimit

STimeout ==
  /\ spc = "poll" /\ Silent
  /\ spc' = "timeout"
  /\ UNCHANGED <<linkVars, seqNum, size_buffer, timer, firstAck, isLastAckNum,
                 buf, sIdle, pos, readErrors>>

SPoll ==
  /\ spc = "poll" /\ ~ Silent
  /\ ArriveAtSender
  /\ \E pollout \in {TRUE, ~ MayBlock} :
       spc' = IF pollout /\ CanSend THEN "write"
              ELSE IF pollout THEN "scan"
              ELSE AfterScan(sIn')
  /\ UNCHANGED <<data, rIn, created, seqNum, size_buffer, timer, firstAck,
                 isLastAckNum, buf, sIdle, pos, readErrors>>

(* A packet gets the next sequence number; the link ages. *)
Number(d) ==
  /\ d.seqNum = seqNum /\ d.n = created
  /\ seqNum' = Plus(seqNum, 1)
  /\ created' = created + 1
  /\ data' \in Sent(Alive(data, created'), d)
  /\ acks' = Alive(acks, created')
  /\ sIdle' = 0

SSendData ==
  /\ spc = "write" /\ pos < NChunks
  /\ LET d == [seqNum |-> seqNum, length |-> 1, n |-> created]
     IN  Number(d) /\ buf' = queue_push(buf, Queued(d))
  /\ pos' = pos + 1
  /\ spc' = "scan"
  /\ UNCHANGED <<rIn, sIn, size_buffer, timer, firstAck, isLastAckNum,
                 readErrors>>

(* read returns -1: the packet is numbered, then given up for its length,  *)
(* and the bytes of a buffer nothing was encoded into are sent.            *)
SReadFails ==
  /\ spc = "write" /\ readErrors < MaxReadErrors
  /\ Number([seqNum |-> seqNum, length |-> GARBAGE, n |-> created])
  /\ readErrors' = readErrors + 1
  /\ spc' = "scan"
  /\ UNCHANGED <<rIn, sIn, size_buffer, timer, firstAck, isLastAckNum, buf,
                 pos>>

(* read returns 0: the packet of length 0; the rest of the turn is skipped *)
SSendEof ==
  /\ spc = "write" /\ pos = NChunks
  /\ LET d == [seqNum |-> seqNum, length |-> EOF_LENGTH, n |-> created]
     IN  Number(d) /\ buf' = queue_push(buf, Queued(d))
  /\ isLastAckNum' = TRUE
  /\ spc' = "poll"
  /\ UNCHANGED <<rIn, sIn, size_buffer, timer, firstAck, pos, readErrors>>

-----------------------------------------------------------------------------
(* The scan stops at the first packet beyond the receiver's window.  *)
InScan(i) == \A j \in 1 .. i : Minus(buf[j].seqNum, buf[1].seqNum) < size_buffer

\* A mistaken rule, which sends again only what a NACK asks for.
DueIfNacked(i) == InScan(i) /\ buf[i].age = Nacked

Due(i) == /\ InScan(i)
          /\ buf[i].age > timer \/ buf[i].age = Nacked

(* The first packet that is due is sent again -- or a later one that is,   *)
(* when poll did not say that the socket could be written for the first.   *)
SResend(i) ==
  /\ spc = "scan" /\ Due(i)
  /\ MayBlock \/ \A j \in 1 .. i - 1 : ~ Due(j)
  /\ ArriveAtSender
  /\ buf' = [buf EXCEPT ![i].age = 0]
  /\ data' \in Sent(data, Datagram(buf[i]))
  /\ spc' = AfterScan(sIn')
  /\ UNCHANGED <<rIn, created, seqNum, size_buffer, timer, firstAck,
                 isLastAckNum, sIdle, pos, readErrors>>

SNoResend ==
  /\ spc = "scan"
  /\ IF \E i \in 1 .. Len(buf) : Due(i)
     THEN MayBlock /\ ArriveAtSender
     ELSE UNCHANGED <<acks, sIn>>
  /\ spc' = AfterScan(sIn')
  /\ UNCHANGED <<data, rIn, created, seqNum, size_buffer, timer, firstAck,
                 isLastAckNum, buf, sIdle, pos, readErrors>>

-----------------------------------------------------------------------------
(* What every read of the socket does.  What the reply decodes to, in, is  *)
(* then acted upon.                                                        *)
ReadSocket ==
  /\ spc = "read"
  /\ sIn' = NoInput /\ sIdle' = 0
  /\ UNCHANGED <<data, acks, rIn, created, seqNum, isLastAckNum, pos,
                 readErrors>>

OnBad(in) ==
  /\ in = Garbled
  /\ spc' = "poll"
  /\ UNCHANGED <<size_buffer, timer, firstAck, buf>>

\* Mistaken tests: before the end of the file, and for the number before.
IsFinalAckEarly(a) == a.seqNum = seqNum
IsFinalAckOffByOne(a) == isLastAckNum /\ a.seqNum = Minus(seqNum, 1)

IsFinalAck(a) == isLastAckNum /\ a.seqNum = seqNum

(* The last sequence number is acknowledged: the program ends. *)
OnFinal(in) ==
  /\ in.status = "ok" /\ IsFinalAck(in.pkt)
  /\ spc' = "acked"
  /\ UNCHANGED <<size_buffer, timer, firstAck, buf>>

(* The first ACK sets the timer to twice the age of the packet it          *)
(* acknowledges, however often that packet was sent.                       *)
NewTimer(age) ==
  IF age = Nacked THEN Overflowed
  ELSE IF 2 * age < AgeCap THEN 2 * age ELSE AgeCap - 1

\* A mistaken window test for an ACK, which looks at its upper end only.
DeleteUnlessBeyond(a) ==
  IF InWindowSupOnly(Minus(a.seqNum, 1), buf[1].seqNum, a.window)
  THEN queue_delete(buf, Minus(a.seqNum, 1))
  ELSE buf

Acknowledged(a) ==
  IF InWindow(Minus(a.seqNum, 1), buf[1].seqNum, a.window)
  THEN queue_delete(buf, Minus(a.seqNum, 1))
  ELSE buf

OnAck(in) ==
  /\ in.status = "ok"
  /\ in.pkt.type = "ACK" /\ ~ IsFinalAck(in.pkt)
  /\ size_buffer' = in.pkt.window
  /\ LET s == Minus(in.pkt.seqNum, 1)
     IN  IF firstAck /\ ~ queue_find_ack(buf, s)
         THEN spc' = "poll" /\ UNCHANGED <<timer, firstAck, buf>>
         ELSE /\ firstAck' = FALSE
              /\ timer' = IF firstAck THEN NewTimer(buf[FindIndex(buf, s)].age)
                          ELSE timer
              \* the head of the queue is read before its size is tested
              /\ IF buf = << >>
                 THEN spc' = "crashed" /\ buf' = buf
                 ELSE spc' = "poll" /\ buf' = Acknowledged(in.pkt)

OnNack(in) ==
  /\ in.status = "ok"
  /\ in.pkt.type = "NACK" /\ ~ IsFinalAck(in.pkt)
  /\ buf' = queue_find_nack(buf, in.pkt.seqNum)
  /\ spc' = "poll"
  /\ UNCHANGED <<size_buffer, timer, firstAck>>

SReadBad == ReadSocket /\ OnBad(sIn)
SReadFinal == ReadSocket /\ OnFinal(sIn)
SReadAck == ReadSocket /\ OnAck(sIn)
SReadNack == ReadSocket /\ OnNack(sIn)

SenderNext ==
  \/ STimeout \/ SPoll
  \/ SSendData \/ SReadFails \/ SSendEof
  \/ \E i \in 1 .. Len(buf) : SResend(i)
  \/ SNoResend
  \/ SReadBad \/ SReadFinal \/ SReadAck \/ SReadNack
=============================================================================
