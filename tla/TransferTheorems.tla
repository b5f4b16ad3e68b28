--------------------------- MODULE TransferTheorems ---------------------------
(***************************************************************************)
(* First the transfer without failing calls.  The types of the two         *)
(* programs and the link, for every modulus, window, file and set of link  *)
(* faults: TypeOK is inductive because it says, beside the types, that a   *)
(* receiver at its "write" stage has an ACK to write (receiver.c:59) and   *)
(* that a datagram the receiver decodes is not the garbage of a failed     *)
(* read.  Then SafetyInv, an inductive invariant of the transfer on a link *)
(* that is Timely; the safety properties, and that the transfer implements *)
(* FileTransfer, follow from it.                                           *)
(*                                                                         *)
(* Then what the transfer keeps when calls fail, for every set of calls    *)
(* that may and every number of failures (Faults): the types, whatever is  *)
(* lost; as long as no packet or payload is dropped, the invariant that    *)
(* makes the transfer correct; and when they are dropped, that nothing is  *)
(* written twice or out of order and that a program that ends successfully *)
(* has been told the truth.                                                *)
(***************************************************************************)
EXTENDS Faults, QueueTheorems

(* The facts about the constants the proofs use. *)
LEMMA Constants ==
  /\ 0 \in Uint8
  /\ MAX_BUFFER_SIZE \in Nat \ {0}
  /\ AgeCap \in Nat \ {0} /\ IdleCap \in Nat /\ RIdleCap \in Nat
  /\ NChunks \in Nat /\ DefaultTimer \in Nat /\ MaxReadErrors \in Nat
  /\ \A x \in Int, y \in Int : Plus(x, y) \in Uint8 /\ Minus(x, y) \in Uint8
  /\ Uint8 \subseteq Int
<1>1. \A x \in Int, y \in Int : Plus(x, y) \in Uint8 /\ Minus(x, y) \in Uint8
  <2> SUFFICES ASSUME NEW x \in Int, NEW y \in Int
               PROVE  Plus(x, y) \in Uint8 /\ Minus(x, y) \in Uint8
    OBVIOUS
  <2>1. x + y \in Int /\ x - y \in Int  OBVIOUS
  <2> QED  BY <2>1, Division DEF Plus, Minus
<1> QED
  BY <1>1, SeqSpaceAssumption, LinkAssumption, SenderAssumption,
     ReceiverAssumption DEF Uint8

(* The initial values have their types. *)
LEMMA InitType == Init => TypeOK
<1> SUFFICES ASSUME Init  PROVE TypeOK  OBVIOUS
<1>0. LinkInit /\ SenderInit /\ ReceiverInit  BY DEF Init
<1>1. LinkTypeOK  BY <1>0 DEF LinkInit, LinkTypeOK
<1>2. SenderTypeOK
  <2>1. buf \in Seq(QueuedPacket)  BY <1>0, EmptySeq DEF SenderInit
  <2>2. /\ seqNum \in Uint8 /\ timer \in Nat /\ sIdle \in 0 .. IdleCap
        /\ pos \in 0 .. NChunks /\ readErrors \in 0 .. MaxReadErrors
    BY <1>0, Constants DEF SenderInit
  <2> QED  BY <1>0, <2>1, <2>2 DEF SenderInit, SenderTypeOK
<1>3. ReceiverTypeOK
  <2>1. /\ pktQueue \in Seq(EarlyPacket) /\ ackQueue \in Seq(QueuedAck)
        /\ written \in Seq(Nat)
    BY <1>0, EmptySeq DEF ReceiverInit
  <2>2. finalSeqNum \in Uint8  BY <1>0, Division DEF ReceiverInit
  <2>3. waitedSeqNum \in Uint8 /\ rIdle \in 0 .. RIdleCap /\ nWaited \in Nat
    BY <1>0, Constants DEF ReceiverInit
  <2> QED  BY <1>0, <2>1, <2>2, <2>3 DEF ReceiverInit, ReceiverTypeOK
<1> QED  BY <1>1, <1>2, <1>3 DEF TypeOK

-----------------------------------------------------------------------------
(* What the link does to its datagrams. *)
LEMMA AliveSubset ==
  ASSUME NEW net, NEW count  PROVE Alive(net, count) \subseteq net
  BY DEF Alive

(* Sending adds at most the datagram. *)
LEMMA SentSubset ==
  ASSUME NEW net, NEW d, NEW after \in Sent(net, d)
  PROVE  after \subseteq net \cup {d}
  BY DEF Sent, If

(* Delivery adds no datagram. *)
LEMMA TakenSubset ==
  ASSUME NEW net, NEW d, NEW after \in Taken(net, d)
  PROVE  after \subseteq net
  BY DEF Taken, If

(* What the receiver's socket holds after a poll has its type. *)
LEMMA ArriveAtReceiverType ==
  ASSUME LinkTypeOK, ArriveAtReceiver
  PROVE  /\ data' \subseteq DataPacket
         /\ rIn' \in {NoInput, Garbled}
              \cup [status : {"ok", "tr"}, pkt : ReadablePacket]
<1>1. CASE UNCHANGED <<data, rIn>>  BY <1>1 DEF LinkTypeOK
<1>2. ASSUME NEW d \in Alive(data, created),
             data' \in Taken(data, d),
             rIn' \in (IF d.length = GARBAGE THEN {Garbled}
                       ELSE {Intact(d)} \cup If("corrupt", {Garbled})
                              \cup If("truncate", {Truncated(d)}))
      PROVE  /\ data' \subseteq DataPacket
             /\ rIn' \in {NoInput, Garbled}
                  \cup [status : {"ok", "tr"}, pkt : ReadablePacket]
  <2>1. d \in DataPacket  BY AliveSubset DEF LinkTypeOK
  <2>2. data' \subseteq DataPacket  BY <1>2, TakenSubset DEF LinkTypeOK
  <2>3. CASE d.length = GARBAGE  BY <1>2, <2>2, <2>3
  <2>4. CASE d.length # GARBAGE
    <3>1. d \in ReadablePacket  BY <2>1, <2>4 DEF ReadablePacket
    <3>2. rIn' \in {Intact(d), Garbled, Truncated(d)}  BY <1>2, <2>4 DEF If
    <3> QED  BY <2>2, <3>1, <3>2 DEF Intact, Truncated
  <2> QED  BY <2>3, <2>4
<1> QED  BY <1>1, <1>2 DEF ArriveAtReceiver

(* And so does what the sender's socket holds. *)
LEMMA ArriveAtSenderType ==
  ASSUME LinkTypeOK, ArriveAtSender
  PROVE  /\ acks' \subseteq AckPacket
         /\ sIn' \in {NoInput, Garbled} \cup [status : {"ok"}, pkt : AckPacket]
<1>1. CASE UNCHANGED <<acks, sIn>>  BY <1>1 DEF LinkTypeOK
<1>2. ASSUME NEW a \in Alive(acks, created),
             acks' \in Taken(acks, a),
             sIn' \in {Intact(a)} \cup If("corrupt", {Garbled})
      PROVE  /\ acks' \subseteq AckPacket
             /\ sIn' \in {NoInput, Garbled}
                  \cup [status : {"ok"}, pkt : AckPacket]
  <2>1. a \in AckPacket  BY AliveSubset DEF LinkTypeOK
  <2>2. acks' \subseteq AckPacket  BY <1>2, TakenSubset DEF LinkTypeOK
  <2>3. sIn' \in {Intact(a), Garbled}  BY <1>2 DEF If
  <2> QED  BY <2>1, <2>2, <2>3 DEF Intact
<1> QED  BY <1>1, <1>2 DEF ArriveAtSender

-----------------------------------------------------------------------------
(* A numbered packet is sent, and the numbers stay in their range. *)
LEMMA NumberType ==
  ASSUME LinkTypeOK, SenderTypeOK, NEW d \in DataPacket, Number(d),
         UNCHANGED <<rIn, sIn>>
  PROVE  LinkTypeOK' /\ seqNum' \in Uint8 /\ sIdle' \in 0 .. IdleCap
<1>1. seqNum \in Int  BY Constants DEF SenderTypeOK
<1>2. seqNum' \in Uint8  BY <1>1, Constants DEF Number
<1>3. created' \in Nat  BY DEF Number, LinkTypeOK
<1>4. data' \subseteq DataPacket
  <2>1. data' \subseteq Alive(data, created') \cup {d}
    BY SentSubset DEF Number
  <2> QED  BY <2>1, AliveSubset DEF LinkTypeOK
<1>5. acks' \subseteq AckPacket  BY AliveSubset DEF Number, LinkTypeOK
<1>6. sIdle' \in 0 .. IdleCap  BY Constants DEF Number
<1> QED  BY <1>2, <1>3, <1>4, <1>5, <1>6 DEF LinkTypeOK

(* An ACK is handled without leaving the types. *)
LEMMA OnAckType ==
  ASSUME SenderTypeOK, NEW in, in.pkt \in AckPacket, OnAck(in)
  PROVE  /\ spc' \in {"poll", "crashed"}
         /\ size_buffer' \in {1, MAX_BUFFER_SIZE}
         /\ timer' \in {Overflowed} \cup Nat
         /\ firstAck' \in BOOLEAN
         /\ buf' \in Seq(QueuedPacket)
<1> DEFINE s == Minus(in.pkt.seqNum, 1)
<1>2. size_buffer' \in {1, MAX_BUFFER_SIZE}
  BY DEF OnAck, AckPacket
<1>3. buf \in Seq(QueuedPacket)  BY DEF SenderTypeOK
<1>4. FindIndex(buf, s) \in 0 .. Len(buf)  BY <1>3, FindIndexPosition
<1>5. CASE firstAck /\ ~ queue_find_ack(buf, s)
  BY <1>2, <1>5 DEF OnAck, SenderTypeOK
<1>6. CASE ~ (firstAck /\ ~ queue_find_ack(buf, s))
  <2>1. /\ firstAck' = FALSE
        /\ timer' = IF firstAck THEN NewTimer(buf[FindIndex(buf, s)].age)
                    ELSE timer
        /\ IF buf = << >> THEN spc' = "crashed" /\ buf' = buf
           ELSE spc' = "poll" /\ buf' = Acknowledged(in.pkt)
    BY <1>6 DEF OnAck
  <2>2. timer' \in {Overflowed} \cup Nat
    <3>1. CASE firstAck
      <4>1. FindIndex(buf, s) \in 1 .. Len(buf)
        BY <1>4, <1>6, <3>1 DEF queue_find_ack
      <4>2. buf[FindIndex(buf, s)] \in QueuedPacket
        BY <1>3, <4>1, ElementOfSeq
      <4> DEFINE age == buf[FindIndex(buf, s)].age
      <4>3. age \in 0 .. AgeCap \cup {Nacked}  BY <4>2 DEF QueuedPacket
      <4>4. timer' = NewTimer(age)  BY <2>1, <3>1
      <4> HIDE DEF age
      <4> QED  BY <4>3, <4>4, Constants DEF NewTimer
    <3>2. CASE ~ firstAck  BY <2>1, <3>2 DEF SenderTypeOK
    <3> QED  BY <3>1, <3>2
  <2>3. buf' \in Seq(QueuedPacket)
    BY <1>3, <2>1, DeleteType DEF Acknowledged
  <2> QED  BY <1>2, <2>1, <2>2, <2>3
<1> QED  BY <1>5, <1>6

(* A NACK changes the age of a queued packet, and nothing else. *)
LEMMA FindNackType ==
  ASSUME NEW q \in Seq(QueuedPacket), NEW s
  PROVE  queue_find_nack(q, s) \in Seq(QueuedPacket)
<1>1. FindIndex(q, s) \in 0 .. Len(q)  BY FindIndexPosition
<1>2. CASE FindIndex(q, s) = 0  BY <1>2 DEF queue_find_nack
<1>3. CASE FindIndex(q, s) # 0
  <2> DEFINE i == FindIndex(q, s)
             e == [q[i] EXCEPT !.age = Nacked]
  <2>1. i \in 1 .. Len(q)  BY <1>1, <1>3
  <2>2. q[i] \in QueuedPacket  BY <2>1, ElementOfSeq
  <2>3. e \in QueuedPacket  BY <2>2 DEF QueuedPacket
  <2>4. queue_find_nack(q, s) = [q EXCEPT ![i] = e]
    BY <1>3 DEF queue_find_nack
  <2> HIDE DEF i, e
  <2> QED  BY <2>1, <2>3, <2>4, ExceptSeq
<1> QED  BY <1>2, <1>3

(* Every step of the sender keeps the types. *)
LEMMA SenderStepType ==
  ASSUME TypeOK, SenderNext, UNCHANGED receiverVars
  PROVE  TypeOK'
<1>1. LinkTypeOK /\ SenderTypeOK /\ ReceiverTypeOK  BY DEF TypeOK
<1>2. ReceiverTypeOK'
  BY <1>1 DEF receiverVars, ReceiverTypeOK
<1>3. CASE STimeout
  BY <1>1, <1>2, <1>3
  DEF STimeout, TypeOK, LinkTypeOK, SenderTypeOK, SEnded, linkVars
<1>4. CASE SPoll
  <2>1. /\ acks' \subseteq AckPacket
        /\ sIn' \in {NoInput, Garbled} \cup [status : {"ok"}, pkt : AckPacket]
    BY <1>1, <1>4, ArriveAtSenderType DEF SPoll
  <2>2. LinkTypeOK'  BY <1>1, <1>4, <2>1 DEF SPoll, LinkTypeOK
  <2>3. SenderTypeOK'
    BY <1>1, <1>4 DEF SPoll, SenderTypeOK, AfterScan
  <2> QED  BY <1>2, <2>2, <2>3 DEF TypeOK
<1>5. CASE SSendData
  <2> DEFINE d == [seqNum |-> seqNum, length |-> 1, n |-> created]
  <2>1. d \in DataPacket
    BY <1>1 DEF DataPacket, SenderTypeOK, LinkTypeOK
  <2>2. Number(d) /\ buf' = Append(buf, Queued(d))
    BY <1>5 DEF SSendData, queue_push
  <2>3. Queued(d) \in QueuedPacket
    BY <1>1, Constants
    DEF Queued, QueuedPacket, SenderTypeOK, LinkTypeOK
  <2>4. LinkTypeOK' /\ seqNum' \in Uint8 /\ sIdle' \in 0 .. IdleCap
    <3> HIDE DEF d
    <3> QED  BY <1>1, <1>5, <2>1, <2>2, NumberType DEF SSendData
  <2>5. buf' \in Seq(QueuedPacket)
    BY <1>1, <2>2, <2>3, AppendProperties DEF SenderTypeOK
  <2>6. pos' \in 0 .. NChunks
    BY <1>1, <1>5, Constants DEF SSendData, SenderTypeOK
  <2>7. SenderTypeOK'
    BY <1>1, <1>5, <2>4, <2>5, <2>6 DEF SSendData, SenderTypeOK
  <2> QED  BY <1>2, <2>4, <2>7 DEF TypeOK
<1>6. CASE SReadFails
  <2> DEFINE d == [seqNum |-> seqNum, length |-> GARBAGE, n |-> created]
  <2>1. d \in DataPacket
    BY <1>1 DEF DataPacket, SenderTypeOK, LinkTypeOK
  <2>2. Number(d)  BY <1>6 DEF SReadFails
  <2>3. LinkTypeOK' /\ seqNum' \in Uint8 /\ sIdle' \in 0 .. IdleCap
    <3> HIDE DEF d
    <3> QED  BY <1>1, <1>6, <2>1, <2>2, NumberType DEF SReadFails
  <2>4. readErrors' \in 0 .. MaxReadErrors
    BY <1>1, <1>6, Constants DEF SReadFails, SenderTypeOK
  <2>5. SenderTypeOK'
    BY <1>1, <1>6, <2>3, <2>4 DEF SReadFails, SenderTypeOK
  <2> QED  BY <1>2, <2>3, <2>5 DEF TypeOK
<1>7. CASE SSendEof
  <2> DEFINE d == [seqNum |-> seqNum, length |-> EOF_LENGTH, n |-> created]
  <2>1. d \in DataPacket
    BY <1>1 DEF DataPacket, SenderTypeOK, LinkTypeOK
  <2>2. Number(d) /\ buf' = Append(buf, Queued(d))
    BY <1>7 DEF SSendEof, queue_push
  <2>3. Queued(d) \in QueuedPacket
    BY <1>1, Constants
    DEF Queued, QueuedPacket, SenderTypeOK, LinkTypeOK
  <2>4. LinkTypeOK' /\ seqNum' \in Uint8 /\ sIdle' \in 0 .. IdleCap
    <3> HIDE DEF d
    <3> QED  BY <1>1, <1>7, <2>1, <2>2, NumberType DEF SSendEof
  <2>5. buf' \in Seq(QueuedPacket)
    BY <1>1, <2>2, <2>3, AppendProperties DEF SenderTypeOK
  <2>6. SenderTypeOK'
    BY <1>1, <1>7, <2>4, <2>5 DEF SSendEof, SenderTypeOK
  <2> QED  BY <1>2, <2>4, <2>6 DEF TypeOK
<1>8. ASSUME NEW i \in 1 .. Len(buf), SResend(i)
      PROVE  TypeOK'
  <2> DEFINE e == [buf[i] EXCEPT !.age = 0]
  <2>1. buf[i] \in QueuedPacket  BY <1>1, ElementOfSeq DEF SenderTypeOK
  <2>2. e \in QueuedPacket
    <3>1. 0 \in 0 .. AgeCap  BY Constants
    <3> QED  BY <2>1, <3>1 DEF QueuedPacket
  <2>3. buf' = [buf EXCEPT ![i] = e]  BY <1>8 DEF SResend
  <2>4. buf' \in Seq(QueuedPacket)
    <3> HIDE DEF e
    <3> QED  BY <1>1, <2>2, <2>3, ExceptSeq DEF SenderTypeOK
  <2>5. Datagram(buf[i]) \in DataPacket
    BY <2>1 DEF Datagram, DataPacket, QueuedPacket
  <2>6. data' \subseteq DataPacket
    BY <1>1, <1>8, <2>5, SentSubset DEF SResend, LinkTypeOK
  <2>7. /\ acks' \subseteq AckPacket
        /\ sIn' \in {NoInput, Garbled} \cup [status : {"ok"}, pkt : AckPacket]
    BY <1>1, <1>8, ArriveAtSenderType DEF SResend
  <2>8. LinkTypeOK'  BY <1>1, <1>8, <2>6, <2>7 DEF SResend, LinkTypeOK
  <2>9. SenderTypeOK'
    BY <1>1, <1>8, <2>4 DEF SResend, SenderTypeOK, AfterScan
  <2> QED  BY <1>2, <2>8, <2>9 DEF TypeOK
<1>9. CASE SNoResend
  <2>1. /\ acks' \subseteq AckPacket
        /\ sIn' \in {NoInput, Garbled} \cup [status : {"ok"}, pkt : AckPacket]
    <3>1. ArriveAtSender  BY <1>9 DEF SNoResend, ArriveAtSender
    <3> QED  BY <1>1, <3>1, ArriveAtSenderType
  <2>2. LinkTypeOK'  BY <1>1, <1>9, <2>1 DEF SNoResend, LinkTypeOK
  <2>3. SenderTypeOK'
    BY <1>1, <1>9 DEF SNoResend, SenderTypeOK, AfterScan
  <2> QED  BY <1>2, <2>2, <2>3 DEF TypeOK
<1>10. ASSUME ReadSocket  PROVE LinkTypeOK' /\ sIdle' \in 0 .. IdleCap
  BY <1>1, <1>10, Constants DEF ReadSocket, LinkTypeOK
<1>11. CASE SReadBad
  BY <1>1, <1>2, <1>10, <1>11
  DEF SReadBad, OnBad, ReadSocket, SenderTypeOK, TypeOK
<1>12. CASE SReadFinal
  BY <1>1, <1>2, <1>10, <1>12
  DEF SReadFinal, OnFinal, ReadSocket, SenderTypeOK, TypeOK, SEnded
<1>13. CASE SReadAck
  <2>1. ReadSocket /\ OnAck(sIn)  BY <1>13 DEF SReadAck
  <2>2. sIn.pkt \in AckPacket
    BY <1>1, <2>1 DEF OnAck, LinkTypeOK, NoInput, Garbled
  <2>3. SenderTypeOK'
    BY <1>1, <1>10, <2>1, <2>2, OnAckType
    DEF ReadSocket, SenderTypeOK, SEnded
  <2> QED  BY <1>2, <1>10, <2>1, <2>3 DEF TypeOK
<1>14. CASE SReadNack
  <2>1. ReadSocket  BY <1>14 DEF SReadNack, OnNack
  <2>2. buf' \in Seq(QueuedPacket)
    BY <1>1, <1>14, FindNackType DEF SReadNack, OnNack, SenderTypeOK
  <2>3. SenderTypeOK'
    BY <1>1, <1>10, <1>14, <2>1, <2>2
    DEF SReadNack, OnNack, ReadSocket, SenderTypeOK
  <2> QED  BY <1>2, <1>10, <2>1, <2>3 DEF TypeOK
<1> QED
  BY <1>3, <1>4, <1>5, <1>6, <1>7, <1>8, <1>9, <1>11, <1>12, <1>13, <1>14
  DEF SenderNext

-----------------------------------------------------------------------------
(* A reply is queued behind the others. *)
LEMMA ReplyType ==
  ASSUME ReceiverTypeOK, NEW type \in {"ACK", "NACK"}, NEW seq \in Uint8,
         NEW count \in Nat, NEW last \in BOOLEAN,
         Reply(type, seq, count, last)
  PROVE  ackQueue' \in Seq(QueuedAck)
<1> DEFINE ack == [type |-> type, seqNum |-> seq, n |-> count,
                   window |-> MAX_BUFFER_SIZE, trFlag |-> last]
<1>1. ack \in QueuedAck  BY DEF QueuedAck
<1>2. ackQueue' = Append(ackQueue, ack)  BY DEF Reply
<1> HIDE DEF ack
<1> QED  BY <1>1, <1>2, AppendProperties DEF ReceiverTypeOK

(* What is taken out of the queue to be written, and its numbers.          *)
LEMMA RunType ==
  ASSUME NEW push, push.queue \in Seq(EarlyPacket)
  PROVE  /\ InOrder(push) \in Seq(EarlyPacket) /\ Len(InOrder(push)) \in Nat
         /\ [i \in 1 .. Len(InOrder(push)) |-> InOrder(push)[i].n] \in Seq(Nat)
<1> DEFINE run == InOrder(push)
<1>1. queue_payload_write(push.queue, waitedSeqNum).written \in Seq(EarlyPacket)
  BY PayloadWriteType
<1>2. run \in Seq(EarlyPacket)  BY <1>1, EmptySeq DEF InOrder
<1> HIDE DEF run
<1>3. Len(run) \in Nat /\ \A i \in 1 .. Len(run) : run[i] \in EarlyPacket
  BY <1>2, LenProperties, ElementOfSeq
<1>4. \A i \in 1 .. Len(run) : run[i].n \in Nat  BY <1>3 DEF EarlyPacket
<1>5. [i \in 1 .. Len(run) |-> run[i].n] \in Seq(Nat)
  BY <1>3, <1>4, IsASeq
<1> QED  BY <1>2, <1>3, <1>5 DEF run

(* A payload is queued and written without leaving the types, whatever     *)
(* became of its push.                                                     *)
LEMMA PayloadType ==
  ASSUME ReceiverTypeOK, NEW push, push.queue \in Seq(EarlyPacket),
         NEW ends \in BOOLEAN, PayloadArrives(push, ends)
  PROVE  /\ waitedSeqNum' \in Uint8 /\ finalSeqNum' \in Uint8
         /\ isFinalSeqNum' \in BOOLEAN /\ pktQueue' \in Seq(EarlyPacket)
         /\ nWaited' \in Nat
         /\ WriteRun(InOrder(push)) => written' \in Seq(Nat)
<1> DEFINE out  == queue_payload_write(push.queue, waitedSeqNum)
           run  == InOrder(push)
           next == Plus(waitedSeqNum, Len(run))
           step == IF ends THEN 1 ELSE 0
<1>1. /\ pktQueue' = IF push.pushed THEN out.queue ELSE pktQueue
      /\ waitedSeqNum' = Plus(next, step)
      /\ nWaited' = nWaited + Len(run) + step
      /\ UNCHANGED <<finalSeqNum, isFinalSeqNum>>
  BY DEF PayloadArrives
<1>2. out.queue \in Seq(EarlyPacket)  BY PayloadWriteType
<1> HIDE DEF out
<1>3. WriteRun(run) => written' = written \o [i \in 1 .. Len(run) |-> run[i].n]
  BY DEF WriteRun
<1>4. Len(run) \in Nat /\ [i \in 1 .. Len(run) |-> run[i].n] \in Seq(Nat)
  BY RunType
<1> HIDE DEF run
<1>5. pktQueue' \in Seq(EarlyPacket)  BY <1>1, <1>2 DEF ReceiverTypeOK
<1>6. WriteRun(run) => written' \in Seq(Nat)
  BY <1>3, <1>4, ConcatProperties DEF ReceiverTypeOK
<1>7. next \in Uint8
  BY <1>4, Constants DEF ReceiverTypeOK
<1> HIDE DEF next
<1>8. waitedSeqNum' \in Uint8 /\ nWaited' \in Nat
  <2>1. step \in Int /\ step \in Nat  OBVIOUS
  <2> HIDE DEF step
  <2>2. next \in Int  BY <1>7, Constants
  <2>3. waitedSeqNum' \in Uint8  BY <1>1, <2>1, <2>2, Constants
  <2> QED  BY <1>1, <1>4, <2>1, <2>3 DEF ReceiverTypeOK
<1> QED  BY <1>1, <1>5, <1>6, <1>8 DEF ReceiverTypeOK, run

(* The queue after the push of a payload that arrived. *)
LEMMA PushArrivedType ==
  ASSUME LinkTypeOK, ReceiverTypeOK, rIn.status = "ok",
         rIn.pkt.length # EOF_LENGTH
  PROVE  PushArrived.queue \in Seq(EarlyPacket)
<1>1. rIn.pkt \in ReadablePacket  BY DEF LinkTypeOK, NoInput, Garbled
<1>2. rIn.pkt \in EarlyPacket
  BY <1>1 DEF ReadablePacket, DataPacket, EarlyPacket
<1> QED  BY <1>2, PushType DEF ReceiverTypeOK, PushArrived

LEMMA ReadPayloadType ==
  ASSUME LinkTypeOK, ReceiverTypeOK, RReadPayload
  PROVE  ReceiverTypeOK'
<1> DEFINE push == PushArrived
           ends == Ends(InOrder(push))
<1>1. /\ PayloadArrives(push, ends) /\ WriteRun(InOrder(push))
      /\ Reply("ACK", waitedSeqNum', nWaited', ends)
      /\ rIdle' = 0 /\ rpc' = "poll"
  BY DEF RReadPayload, RReadSocket, ReadThen
<1>2. rIn.status = "ok" /\ rIn.pkt.length # EOF_LENGTH
  BY <1>1 DEF PayloadArrives
<1>3. push.queue \in Seq(EarlyPacket)  BY <1>2, PushArrivedType
<1>4. ends \in BOOLEAN  BY DEF Ends, ReceiverTypeOK
<1> HIDE DEF push, ends
<1>5. /\ waitedSeqNum' \in Uint8 /\ finalSeqNum' \in Uint8
      /\ isFinalSeqNum' \in BOOLEAN /\ pktQueue' \in Seq(EarlyPacket)
      /\ written' \in Seq(Nat) /\ nWaited' \in Nat
  BY <1>1, <1>3, <1>4, PayloadType
<1>6. ackQueue' \in Seq(QueuedAck)  BY <1>1, <1>4, <1>5, ReplyType
<1> QED  BY <1>1, <1>5, <1>6, Constants DEF ReceiverTypeOK

(* The packet of length 0 arrives without leaving the types. *)
LEMMA EofType ==
  ASSUME LinkTypeOK, ReceiverTypeOK, EofArrives
  PROVE  /\ waitedSeqNum' \in Uint8 /\ finalSeqNum' \in Uint8
         /\ isFinalSeqNum' \in BOOLEAN /\ nWaited' \in Nat
         /\ UNCHANGED <<pktQueue, written>>
<1> DEFINE step == IF rIn.pkt.seqNum = waitedSeqNum THEN 1 ELSE 0
<1>1. rIn.pkt.seqNum \in Uint8
  BY DEF EofArrives, LinkTypeOK, NoInput, Garbled, ReadablePacket, DataPacket
<1>2. /\ isFinalSeqNum' = TRUE /\ finalSeqNum' = rIn.pkt.seqNum
      /\ waitedSeqNum' = Plus(waitedSeqNum, step)
      /\ nWaited' = nWaited + step
      /\ UNCHANGED <<pktQueue, written>>
  BY DEF EofArrives
<1> QED  BY <1>1, <1>2, Constants DEF ReceiverTypeOK

(* A reply goes out without leaving the types. *)
LEMMA WriteType ==
  ASSUME LinkTypeOK, ReceiverTypeOK, NEW stage \in {"poll", "read"},
         WriteThen(stage)
  PROVE  LinkTypeOK' /\ ReceiverTypeOK'
<1> DEFINE ack == Head(ackQueue)
           sent == [type |-> ack.type, seqNum |-> ack.seqNum,
                    window |-> ack.window, n |-> ack.n]
<1>1. ackQueue \in Seq(QueuedAck) /\ ackQueue # << >>
  BY DEF WriteThen, ReceiverTypeOK
<1>2. ack \in QueuedAck /\ Tail(ackQueue) \in Seq(QueuedAck)
  BY <1>1, HeadTailProperties
<1>3. sent \in AckPacket  BY <1>2 DEF QueuedAck, AckPacket
<1>4. /\ acks' \in Sent(acks, sent) /\ ackQueue' = Tail(ackQueue)
      /\ rpc' = IF ack.trFlag THEN "final"
                ELSE IF ackQueue' # << >> THEN "write" ELSE stage
      /\ UNCHANGED <<data, rIn, sIn, created, waitedSeqNum, finalSeqNum,
                     isFinalSeqNum, pktQueue, rIdle, written, nWaited>>
  BY DEF WriteThen
<1> HIDE DEF ack, sent
<1>5. acks' \subseteq AckPacket
  BY <1>3, <1>4, SentSubset DEF LinkTypeOK
<1>6. LinkTypeOK'  BY <1>4, <1>5 DEF LinkTypeOK
<1>7. ReceiverTypeOK'
  BY <1>2, <1>4 DEF ReceiverTypeOK, REnded
<1> QED  BY <1>6, <1>7

(* Every step of the receiver keeps the types. *)
LEMMA ReceiverStepType ==
  ASSUME TypeOK, ReceiverNext, UNCHANGED senderVars
  PROVE  TypeOK'
<1>1. LinkTypeOK /\ SenderTypeOK /\ ReceiverTypeOK  BY DEF TypeOK
<1>2. SenderTypeOK'
  BY <1>1 DEF senderVars, SenderTypeOK
<1>3. ASSUME ArriveAtReceiver, UNCHANGED <<acks, sIn, created>>
      PROVE  LinkTypeOK'
  BY <1>1, <1>3, ArriveAtReceiverType DEF LinkTypeOK
<1>4. CASE RConnect
  <2>1. LinkTypeOK'  BY <1>3, <1>4 DEF RConnect
  <2>2. ReceiverTypeOK'
    BY <1>1, <1>4, Constants DEF RConnect, ReceiverTypeOK
  <2> QED  BY <1>2, <2>1, <2>2 DEF TypeOK
<1>5. CASE RTimeout
  BY <1>1, <1>2, <1>5
  DEF RTimeout, TypeOK, LinkTypeOK, ReceiverTypeOK, REnded, linkVars
<1>6. CASE RPoll
  <2>1. LinkTypeOK'  BY <1>3, <1>6 DEF RPoll
  <2>2. ReceiverTypeOK'
    BY <1>1, <1>6 DEF RPoll, ReceiverTypeOK, AfterWrite
  <2> QED  BY <1>2, <2>1, <2>2 DEF TypeOK
<1>7. CASE RWrite
  <2>1. AfterWrite(rIn) \in {"poll", "read"}  BY DEF AfterWrite
  <2>2. LinkTypeOK' /\ ReceiverTypeOK'
    BY <1>1, <1>7, <2>1, WriteType DEF RWrite
  <2> QED  BY <1>2, <2>2 DEF TypeOK
<1>8. ASSUME RReadSocket  PROVE LinkTypeOK'
  BY <1>1, <1>8 DEF RReadSocket, ReadThen, LinkTypeOK
<1>9. ASSUME RReadSocket, Unmoved, ackQueue' \in Seq(QueuedAck)
      PROVE  TypeOK'
  <2>1. ReceiverTypeOK'
    BY <1>1, <1>9, Constants DEF RReadSocket, ReadThen, Unmoved, ReceiverTypeOK
  <2> QED  BY <1>2, <1>8, <1>9, <2>1 DEF TypeOK
<1>10. ASSUME Reply("ACK", waitedSeqNum, nWaited, FALSE)
       PROVE  ackQueue' \in Seq(QueuedAck)
  BY <1>1, <1>10, ReplyType DEF ReceiverTypeOK
<1>11. CASE RReadInvalid
  BY <1>9, <1>10, <1>11 DEF RReadInvalid
<1>12. CASE RReadTruncated
  <2>1. rIn.pkt \in DataPacket
    BY <1>1, <1>12
    DEF RReadTruncated, LinkTypeOK, NoInput, Garbled, ReadablePacket
  <2>2. rIn.pkt.seqNum \in Uint8 /\ rIn.pkt.n \in Nat
    BY <2>1 DEF DataPacket
  <2>3. ackQueue' \in Seq(QueuedAck)
    BY <1>1, <1>12, <2>2, ReplyType DEF RReadTruncated
  <2> QED  BY <1>9, <1>12, <2>3 DEF RReadTruncated
<1>13. CASE RReadOutside
  BY <1>9, <1>10, <1>13 DEF RReadOutside
<1>14. CASE RReadEof
  <2> DEFINE last == rIn.pkt.seqNum = waitedSeqNum
  <2>1. /\ EofArrives /\ RReadSocket /\ rIdle' = 0 /\ rpc' = "poll"
        /\ Reply("ACK", waitedSeqNum', nWaited', last)
    BY <1>14 DEF RReadEof, RReadSocket, ReadThen
  <2>2. last \in BOOLEAN  OBVIOUS
  <2> HIDE DEF last
  <2>3. waitedSeqNum' \in Uint8 /\ nWaited' \in Nat
    BY <1>1, <2>1, EofType
  <2>4. ackQueue' \in Seq(QueuedAck)  BY <1>1, <2>1, <2>2, <2>3, ReplyType
  <2>5. ReceiverTypeOK'
    BY <1>1, <2>1, <2>4, EofType, Constants DEF ReceiverTypeOK
  <2> QED  BY <1>2, <1>8, <2>1, <2>5 DEF TypeOK
<1>15. CASE RReadPayload
  <2>1. ReceiverTypeOK'  BY <1>1, <1>15, ReadPayloadType
  <2>2. RReadSocket  BY <1>15 DEF RReadPayload
  <2> QED  BY <1>2, <1>8, <2>1, <2>2 DEF TypeOK
<1> QED
  BY <1>4, <1>5, <1>6, <1>7, <1>11, <1>12, <1>13, <1>14, <1>15
  DEF ReceiverNext

-----------------------------------------------------------------------------
(* Time passes without leaving the types. *)
LEMMA TickType ==
  ASSUME TypeOK, Tick
  PROVE  TypeOK'
<1>1. LinkTypeOK /\ SenderTypeOK /\ ReceiverTypeOK  BY DEF TypeOK
<1>2. buf \in Seq(QueuedPacket) /\ Len(buf) \in Nat
  BY <1>1, LenProperties DEF SenderTypeOK
<1>3. \A i \in 1 .. Len(buf) : Older(buf[i]) \in QueuedPacket
  <2>1. ASSUME NEW p \in QueuedPacket  PROVE Older(p) \in QueuedPacket
    <3>1. CASE p.age = Nacked \/ p.age = AgeCap  BY <3>1 DEF Older
    <3>2. CASE ~ (p.age = Nacked \/ p.age = AgeCap)
      <4>1. p.age + 1 \in 0 .. AgeCap
        BY <3>2, Constants DEF QueuedPacket
      <4>2. Older(p) = [p EXCEPT !.age = p.age + 1]  BY <3>2 DEF Older
      <4> QED  BY <4>1, <4>2 DEF QueuedPacket
    <3> QED  BY <3>1, <3>2
  <2>2. \A i \in 1 .. Len(buf) : buf[i] \in QueuedPacket
    BY <1>2, ElementOfSeq
  <2> QED  BY <2>1, <2>2
<1>4. buf' \in Seq(QueuedPacket)
  <2>1. Aged \in Seq(QueuedPacket)  BY <1>2, <1>3, IsASeq DEF Aged
  <2> QED  BY <2>1 DEF Tick
<1>5. sIdle' \in 0 .. IdleCap /\ rIdle' \in 0 .. RIdleCap
  BY <1>1, Constants DEF Tick, SenderTypeOK, ReceiverTypeOK
<1>6. LinkTypeOK'  BY <1>1 DEF Tick, linkVars, LinkTypeOK
<1>7. SenderTypeOK'  BY <1>1, <1>4, <1>5 DEF Tick, SenderTypeOK
<1>8. ReceiverTypeOK'  BY <1>1, <1>5 DEF Tick, ReceiverTypeOK
<1> QED  BY <1>6, <1>7, <1>8 DEF TypeOK

(* TypeOK is inductive. *)
LEMMA StepType == TypeOK /\ [Next]_vars => TypeOK'
<1> SUFFICES ASSUME TypeOK, [Next]_vars  PROVE TypeOK'
  OBVIOUS
<1>1. CASE SenderNext /\ UNCHANGED receiverVars  BY <1>1, SenderStepType
<1>2. CASE ReceiverNext /\ UNCHANGED senderVars  BY <1>2, ReceiverStepType
<1>3. CASE Tick  BY <1>3, TickType
<1>4. CASE UNCHANGED vars
  BY <1>4
  DEF vars, linkVars, senderVars, receiverVars, TypeOK, LinkTypeOK,
      SenderTypeOK, ReceiverTypeOK
<1> QED  BY <1>1, <1>2, <1>3, <1>4 DEF Next, Terminated

(* In every reachable state every variable has its type: sequence numbers  *)
(* and distances stay within their uint8_t, the queues hold packets the    *)
(* loops can handle, and the "write" stage has an ACK to write.            *)
THEOREM TypeCorrect == Spec => []TypeOK
<1>1. Init => TypeOK  BY InitType
<1>2. TypeOK /\ [Next]_vars => TypeOK'  BY StepType
<1> QED  BY <1>1, <1>2, PTL DEF Spec

-----------------------------------------------------------------------------
(* The facts about the constants the proofs use. *)
LEMMA TimelyConstants ==
  ASSUME Timely
  PROVE  /\ MAX_BUFFER_SIZE \in Nat \ {0} /\ MaxLag \in Nat /\ NChunks \in Nat
         /\ SeqSpace \in Nat \ {0} /\ MaxReadErrors = 0
         /\ 2 * MAX_BUFFER_SIZE <= SeqSpace
         /\ MAX_BUFFER_SIZE <= SeqSpace
         /\ MaxLag + MAX_BUFFER_SIZE < SeqSpace
  BY Constants, SeqSpaceAssumption, LinkAssumption DEF Timely

(* The types of what carries an absolute number. *)
LEMMA Numbers ==
  ASSUME TypeOK
  PROVE  /\ created \in Nat /\ nWaited \in Nat /\ pos \in 0 .. NChunks
         /\ buf \in Seq(QueuedPacket) /\ Len(buf) \in Nat
         /\ pktQueue \in Seq(EarlyPacket) /\ Len(pktQueue) \in Nat
         /\ ackQueue \in Seq(QueuedAck) /\ Len(ackQueue) \in Nat
         /\ written \in Seq(Nat) /\ Len(written) \in Nat
         /\ data \subseteq DataPacket /\ acks \subseteq AckPacket
         /\ base \in Int
         /\ \A i \in 1 .. Len(buf) : buf[i] \in QueuedPacket /\ buf[i].n \in Nat
         /\ \A i \in 1 .. Len(pktQueue) :
              pktQueue[i] \in EarlyPacket /\ pktQueue[i].n \in Nat
         /\ \A i \in 1 .. Len(ackQueue) :
              ackQueue[i] \in QueuedAck /\ ackQueue[i].n \in Nat
         /\ \A d \in data : d.n \in Nat
         /\ \A a \in acks : a.n \in Nat
<1>1. LinkTypeOK /\ SenderTypeOK /\ ReceiverTypeOK  BY DEF TypeOK
<1>2. /\ buf \in Seq(QueuedPacket) /\ Len(buf) \in Nat
      /\ \A i \in 1 .. Len(buf) : buf[i] \in QueuedPacket
  BY <1>1, LenProperties, ElementOfSeq DEF SenderTypeOK
<1>3. /\ pktQueue \in Seq(EarlyPacket) /\ Len(pktQueue) \in Nat
      /\ \A i \in 1 .. Len(pktQueue) : pktQueue[i] \in EarlyPacket
  BY <1>1, LenProperties, ElementOfSeq DEF ReceiverTypeOK
<1>4. /\ ackQueue \in Seq(QueuedAck) /\ Len(ackQueue) \in Nat
      /\ \A i \in 1 .. Len(ackQueue) : ackQueue[i] \in QueuedAck
  BY <1>1, LenProperties, ElementOfSeq DEF ReceiverTypeOK
<1>5. written \in Seq(Nat) /\ Len(written) \in Nat
  BY <1>1, LenProperties DEF ReceiverTypeOK
<1>6. \A p \in QueuedPacket : p.n \in Nat  BY DEF QueuedPacket
<1>7. \A p \in EarlyPacket : p.n \in Nat  BY DEF EarlyPacket
<1>8. \A p \in QueuedAck : p.n \in Nat  BY DEF QueuedAck
<1>9. /\ data \subseteq DataPacket /\ acks \subseteq AckPacket
      /\ created \in Nat /\ nWaited \in Nat /\ pos \in 0 .. NChunks
  BY <1>1 DEF LinkTypeOK, SenderTypeOK, ReceiverTypeOK
<1>10. /\ \A d \in data : d.n \in Nat
       /\ \A a \in acks : a.n \in Nat
  BY <1>9 DEF DataPacket, AckPacket
<1>11. base \in Int  BY <1>2, <1>9 DEF base
<1> QED
  BY <1>2, <1>3, <1>4, <1>5, <1>6, <1>7, <1>8, <1>9, <1>10, <1>11

(* The datagrams in the two socket buffers. *)
LEMMA Inputs ==
  ASSUME TypeOK
  PROVE  /\ rIn.status \in {"ok", "tr"} =>
              rIn.pkt \in ReadablePacket /\ rIn.pkt.n \in Nat
         /\ sIn.status = "ok" => sIn.pkt \in AckPacket /\ sIn.pkt.n \in Nat
<1>1. LinkTypeOK  BY DEF TypeOK
<1>2. rIn.status \in {"ok", "tr"} => rIn.pkt \in ReadablePacket
  BY <1>1 DEF LinkTypeOK, NoInput, Garbled
<1>3. sIn.status = "ok" => sIn.pkt \in AckPacket
  BY <1>1 DEF LinkTypeOK, NoInput, Garbled
<1> QED  BY <1>2, <1>3 DEF ReadablePacket, DataPacket, AckPacket

(* What was true of a packet or a reply stays true as the programs go on.  *)
LEMMA GenuineStays ==
  ASSUME NEW d, NEW c1 \in Int, NEW c2 \in Int, d.n \in Int, c1 <= c2,
         Genuine(d, c1)
  PROVE  Genuine(d, c2)
  BY DEF Genuine

(* The same for a reply: both counts only grow. *)
LEMMA TruthfulStays ==
  ASSUME NEW a, NEW c1 \in Int, NEW c2 \in Int, NEW w1 \in Int, NEW w2 \in Int,
         a.n \in Int, c1 <= c2, w1 <= w2, Truthful(a, c1, w1)
  PROVE  Truthful(a, c2, w2)
  BY DEF Truthful

-----------------------------------------------------------------------------
(* Both programs begin at number 0, with nothing under way. *)
LEMMA InitSafety == Timely /\ Init => SafetyInv
<1> SUFFICES ASSUME Timely, Init  PROVE SafetyInv  OBVIOUS
<1>1. LinkInit /\ SenderInit /\ ReceiverInit  BY DEF Init
<1>2. ToUint8(0) = 0  BY SmallNumber, Constants
<1>3. Len(buf) = 0 /\ base = 0
  <2>1. buf = << >> /\ created = 0  BY <1>1 DEF LinkInit, SenderInit
  <2>2. Len(buf) = 0  BY <2>1
  <2>3. base = created - Len(buf)  BY DEF base
  <2> QED  BY <2>1, <2>2, <2>3
<1>4. ~ AtEnd /\ nWaited = 0
  BY <1>1, Constants DEF ReceiverInit, AtEnd
<1>5. SenderInv
  BY <1>1, <1>2, <1>3, Constants DEF LinkInit, SenderInit, SenderInv
<1>6. ReceiverInv
  BY <1>1, <1>2, <1>3, <1>4 DEF LinkInit, ReceiverInit, ReceiverInv
<1>7. WrittenInv
  BY <1>1, <1>4 DEF ReceiverInit, WrittenInv
<1>8. DataInv /\ ReplyInv
  BY <1>1 DEF LinkInit, ReceiverInit, DataInv, ReplyInv, NoInput
<1> QED  BY <1>5, <1>6, <1>7, <1>8 DEF SafetyInv

-----------------------------------------------------------------------------
(* How far the programs can be apart. *)
LEMMA Bounds ==
  ASSUME Timely, TypeOK, SafetyInv
  PROVE  /\ created = base + Len(buf) /\ Len(buf) \in 0 .. MAX_BUFFER_SIZE
         /\ base <= nWaited /\ nWaited <= created
         /\ created <= base + MAX_BUFFER_SIZE /\ 0 <= base
         /\ created <= NChunks + 1
<1>1. created = base + Len(buf)  BY Numbers DEF base
<1>2. /\ Len(buf) <= MAX_BUFFER_SIZE /\ base >= 0
      /\ IF isLastAckNum THEN created = NChunks + 1 ELSE created = pos
      /\ base <= nWaited /\ nWaited <= created
  BY DEF SafetyInv, SenderInv, ReceiverInv
<1>3. /\ created \in Nat /\ nWaited \in Nat /\ pos \in 0 .. NChunks
      /\ Len(buf) \in Nat /\ base \in Int
      /\ MAX_BUFFER_SIZE \in Nat \ {0} /\ NChunks \in Nat
  BY Numbers, TimelyConstants
<1> QED  BY ONLY <1>1, <1>2, <1>3

(* The same as numbers alone. *)
LEMMA Counts ==
  ASSUME Timely, TypeOK, SafetyInv
  PROVE  /\ created \in Nat /\ nWaited \in Nat /\ base \in Nat
         /\ base <= nWaited /\ nWaited <= created
         /\ created <= base + MAX_BUFFER_SIZE /\ created <= NChunks + 1
         /\ MAX_BUFFER_SIZE \in Nat \ {0} /\ MaxLag \in Nat /\ NChunks \in Nat
         /\ SeqSpace \in Nat \ {0} /\ 2 * MAX_BUFFER_SIZE <= SeqSpace
         /\ MaxLag + MAX_BUFFER_SIZE < SeqSpace
<1>1. created \in Nat /\ nWaited \in Nat /\ base \in Int  BY Numbers
<1>2. /\ base <= nWaited /\ nWaited <= created /\ 0 <= base
      /\ created <= base + MAX_BUFFER_SIZE /\ created <= NChunks + 1
  BY Bounds
<1> QED  BY <1>1, <1>2, TimelyConstants

(* A step of the sender leaves what the receiver and the link know true,   *)
(* as long as it does not forget a packet the receiver still waits for.    *)
LEMMA ReceiverSideStays ==
  ASSUME Timely, TypeOK, TypeOK', SafetyInv, UNCHANGED receiverVars, rIn' = rIn,
         created <= created', isFinalSeqNum => created' = created,
         base' <= nWaited, acks' \subseteq acks,
         \A d \in data' :
            d.length # GARBAGE => d \in data \/ Genuine(d, created'),
         sIn'.status = "ok" =>
            \/ sIn' = sIn /\ base' = base
            \/ sIn'.pkt \in acks /\ base' - sIn'.pkt.n <= MaxLag
  PROVE  ReceiverInv' /\ WrittenInv' /\ DataInv' /\ ReplyInv'
<1>1. created \in Int /\ created' \in Int /\ nWaited \in Int
  BY Numbers DEF TypeOK, LinkTypeOK
<1>2. /\ nWaited' = nWaited /\ pktQueue' = pktQueue /\ ackQueue' = ackQueue
      /\ written' = written /\ waitedSeqNum' = waitedSeqNum /\ rpc' = rpc
      /\ isFinalSeqNum' = isFinalSeqNum /\ finalSeqNum' = finalSeqNum
  BY DEF receiverVars
<1>3. ReceiverInv'
  <2>1. ReceiverInv  BY DEF SafetyInv
  <2>2. \A i \in 1 .. Len(pktQueue) : Genuine(pktQueue[i], created')
    <3> SUFFICES ASSUME NEW i \in 1 .. Len(pktQueue)
                 PROVE  Genuine(pktQueue[i], created')
      OBVIOUS
    <3>1. Genuine(pktQueue[i], created) /\ pktQueue[i].n \in Int
      BY <2>1, Numbers DEF ReceiverInv
    <3> QED  BY <1>1, <3>1, GenuineStays
  <2>3. nWaited <= created'  BY <1>1, <2>1 DEF ReceiverInv
  <2> QED  BY <1>2, <2>1, <2>2, <2>3 DEF ReceiverInv, AtEnd
<1>4. WrittenInv'  BY <1>2 DEF SafetyInv, WrittenInv, AtEnd
<1>5. DataInv'
  <2>1. DataInv  BY DEF SafetyInv
  <2>2. \A d \in data : d.length # GARBAGE => Genuine(d, created')
    BY <1>1, <2>1, Numbers, GenuineStays DEF DataInv
  <2>3. rIn.status \in {"ok", "tr"} => Genuine(rIn.pkt, created')
    BY <1>1, <2>1, Inputs, GenuineStays DEF DataInv
  <2> QED  BY <1>2, <2>1, <2>2, <2>3 DEF DataInv
<1>6. ReplyInv'
  <2>1. ReplyInv  BY DEF SafetyInv
  <2>2. \A i \in 1 .. Len(ackQueue) : Truthful(ackQueue[i], created', nWaited)
    <3> SUFFICES ASSUME NEW i \in 1 .. Len(ackQueue)
                 PROVE  Truthful(ackQueue[i], created', nWaited)
      OBVIOUS
    <3>1. Truthful(ackQueue[i], created, nWaited) /\ ackQueue[i].n \in Int
      BY <2>1, Numbers DEF ReplyInv
    <3> QED  BY <1>1, <3>1, TruthfulStays
  <2>3. \A a \in acks : Truthful(a, created', nWaited)
    BY <1>1, <2>1, Numbers, TruthfulStays DEF ReplyInv
  <2>4. sIn.status = "ok" => Truthful(sIn.pkt, created', nWaited)
    BY <1>1, <2>1, Inputs, TruthfulStays DEF ReplyInv
  <2> QED  BY <1>2, <2>1, <2>2, <2>3, <2>4 DEF ReplyInv, AtEnd
<1> QED  BY <1>3, <1>4, <1>5, <1>6

(* A step of the receiver leaves what the sender and the link know true,   *)
(* as long as the receiver only moves forward.                             *)
LEMMA SenderSideStays ==
  ASSUME Timely, TypeOK, TypeOK', SafetyInv, UNCHANGED senderVars,
         created' = created, sIn' = sIn, data' \subseteq data,
         nWaited <= nWaited', nWaited' <= created,
         \A a \in acks' : a \in acks \/ Truthful(a, created, nWaited')
  PROVE  /\ SenderInv'
         /\ \A d \in data' : d.length # GARBAGE => Genuine(d, created')
         /\ \A a \in acks' : Truthful(a, created', nWaited')
         /\ sIn'.status = "ok" =>
               /\ Truthful(sIn'.pkt, created', nWaited')
               /\ base' - sIn'.pkt.n <= MaxLag
         /\ base' = base
<1>1. created \in Int /\ nWaited \in Int /\ nWaited' \in Int
  BY Numbers DEF TypeOK, ReceiverTypeOK
<1>2. /\ spc' = spc /\ seqNum' = seqNum /\ isLastAckNum' = isLastAckNum
      /\ buf' = buf /\ pos' = pos /\ base' = base
  BY DEF senderVars, base
<1>3. SenderInv'
  <2>1. SenderInv  BY DEF SafetyInv
  <2>2. AtEnd => AtEnd'
    BY <1>1, Bounds, TimelyConstants DEF AtEnd
  <2> QED  BY <1>2, <2>1, <2>2 DEF SenderInv
<1>4. \A d \in data' : d.length # GARBAGE => Genuine(d, created')
  BY DEF SafetyInv, DataInv
<1>5. \A a \in acks' : Truthful(a, created', nWaited')
  <2>1. \A a \in acks : Truthful(a, created, nWaited')
    BY <1>1, Numbers, TruthfulStays DEF SafetyInv, ReplyInv
  <2> QED  BY <2>1
<1>6. sIn.status = "ok" => /\ Truthful(sIn.pkt, created, nWaited')
                           /\ base - sIn.pkt.n <= MaxLag
  BY <1>1, Inputs, TruthfulStays DEF SafetyInv, ReplyInv
<1> QED  BY <1>2, <1>3, <1>4, <1>5, <1>6

-----------------------------------------------------------------------------
(* The datagrams that arrive were in transit and are not too old. *)
LEMMA ArrivedAtSender ==
  ASSUME Timely, TypeOK, SafetyInv, ArriveAtSender
  PROVE  /\ acks' \subseteq acks
         /\ sIn'.status = "ok" =>
               \/ sIn' = sIn
               \/ sIn'.pkt \in acks /\ base - sIn'.pkt.n <= MaxLag
<1>1. CASE UNCHANGED <<acks, sIn>>  BY <1>1
<1>2. CASE \E a \in Alive(acks, created) :
             /\ acks' \in Taken(acks, a)
             /\ sIn' \in {Intact(a)} \cup If("corrupt", {Garbled})
  <2>1. PICK a \in Alive(acks, created) :
               /\ acks' \in Taken(acks, a)
               /\ sIn' \in {Intact(a)} \cup If("corrupt", {Garbled})
    BY <1>2
  <2>2. a \in acks /\ created - a.n <= MaxLag  BY DEF Alive
  <2>3. acks' \subseteq acks  BY <2>1, TakenSubset
  <2>4. base - a.n <= MaxLag
    <3>1. a.n \in Int /\ base \in Int /\ created \in Int  BY <2>2, Numbers
    <3>2. base <= created /\ MaxLag \in Int  BY Counts
    <3> QED  BY <2>2, <3>1, <3>2
  <2>5. sIn' = Intact(a) \/ sIn' = Garbled  BY <2>1 DEF If
  <2> QED  BY <2>2, <2>3, <2>4, <2>5 DEF Intact, Garbled
<1> QED  BY <1>1, <1>2 DEF ArriveAtSender

(* What arrives at the receiver is a packet under way, and not too old. *)
LEMMA ArrivedAtReceiver ==
  ASSUME Timely, TypeOK, SafetyInv, ArriveAtReceiver
  PROVE  /\ data' \subseteq data
         /\ rIn'.status \in {"ok", "tr"} =>
               Genuine(rIn'.pkt, created) /\ nWaited - rIn'.pkt.n <= MaxLag
<1>0. DataInv  BY DEF SafetyInv
<1>1. CASE UNCHANGED <<data, rIn>>  BY <1>0, <1>1 DEF DataInv
<1>2. CASE \E d \in Alive(data, created) :
             /\ data' \in Taken(data, d)
             /\ rIn' \in (IF d.length = GARBAGE THEN {Garbled}
                          ELSE {Intact(d)} \cup If("corrupt", {Garbled})
                                 \cup If("truncate", {Truncated(d)}))
  <2>1. PICK d \in Alive(data, created) :
               /\ data' \in Taken(data, d)
               /\ rIn' \in (IF d.length = GARBAGE THEN {Garbled}
                            ELSE {Intact(d)} \cup If("corrupt", {Garbled})
                                   \cup If("truncate", {Truncated(d)}))
    BY <1>2
  <2>2. d \in data /\ created - d.n <= MaxLag  BY DEF Alive
  <2>3. data' \subseteq data  BY <2>1, TakenSubset
  <2>4. nWaited - d.n <= MaxLag
    <3>1. d.n \in Int /\ nWaited \in Int /\ created \in Int  BY <2>2, Numbers
    <3>2. nWaited <= created /\ MaxLag \in Int  BY Bounds, TimelyConstants
    <3> QED  BY <2>2, <3>1, <3>2
  <2>5. \/ rIn' = Garbled
        \/ d.length # GARBAGE /\ (rIn' = Intact(d) \/ rIn' = Truncated(d))
    BY <2>1 DEF If
  <2>6. d.length # GARBAGE => Genuine(d, created)  BY <1>0, <2>2 DEF DataInv
  <2> QED  BY <2>3, <2>4, <2>5, <2>6 DEF Intact, Truncated, Garbled
<1> QED  BY <1>1, <1>2 DEF ArriveAtReceiver

-----------------------------------------------------------------------------
(* A packet gets the next number, and joins the queue and the link.        *)
LEMMA SendSafety ==
  ASSUME Timely, TypeOK, TypeOK', SafetyInv, UNCHANGED receiverVars,
         spc = "write", UNCHANGED <<rIn, sIn>>, spc' \in {"poll", "scan"},
         NEW len \in {EOF_LENGTH, 1}, len = EOF_LENGTH <=> pos = NChunks,
         Number([seqNum |-> seqNum, length |-> len, n |-> created]),
         buf' = Append(buf, Queued([seqNum |-> seqNum, length |-> len,
                                    n |-> created])),
         isLastAckNum' = (pos = NChunks),
         pos' = IF pos = NChunks THEN pos ELSE pos + 1
  PROVE  SafetyInv'
<1> DEFINE d == [seqNum |-> seqNum, length |-> len, n |-> created]
<1>1. SenderInv /\ ReceiverInv  BY DEF SafetyInv
<1>2. /\ ~ isLastAckNum /\ created = pos /\ Len(buf) < MAX_BUFFER_SIZE
      /\ seqNum = ToUint8(created)
  BY <1>1 DEF SenderInv
<1>3. /\ seqNum' = Plus(seqNum, 1) /\ created' = created + 1
      /\ data' \in Sent(Alive(data, created'), d)
      /\ acks' = Alive(acks, created')
  BY DEF Number
<1>4. Genuine(d, created')
  BY <1>2, <1>3, Numbers DEF Genuine, GARBAGE, EOF_LENGTH
<1>5. \A e \in data' : e \in data \/ e = d
  <2> HIDE DEF d
  <2>1. data' \subseteq Alive(data, created') \cup {d}  BY <1>3, SentSubset
  <2> QED  BY <2>1, AliveSubset
<1>6. acks' \subseteq acks  BY <1>3, AliveSubset
<1>7. /\ Len(buf') = Len(buf) + 1
      /\ \A i \in 1 .. Len(buf) : buf'[i] = buf[i]
      /\ buf'[Len(buf) + 1] = Queued(d)
  <2>1. buf \in Seq(QueuedPacket) /\ Queued(d) \in QueuedPacket
    BY <1>2, Numbers, Constants, Division, TimelyConstants
    DEF Queued, QueuedPacket, TypeOK, SenderTypeOK
  <2>2. buf' = Append(buf, Queued(d))  OBVIOUS
  <2> HIDE DEF d
  <2> QED  BY <2>1, <2>2, AppendProperties
<1>8. base' = base
  <2>1. base = created - Len(buf) /\ base' = created' - Len(buf')  BY DEF base
  <2>2. /\ created \in Nat /\ Len(buf) \in Nat
        /\ created' = created + 1 /\ Len(buf') = Len(buf) + 1
    BY <1>3, <1>7, Numbers
  <2> QED  BY ONLY <2>1, <2>2
<1>9. SenderInv'
  <2>1. seqNum' = ToUint8(created')
    BY <1>2, <1>3, Numbers, PlusRemainder
  <2>2. Len(buf') <= MAX_BUFFER_SIZE /\ base' >= 0
    BY <1>1, <1>2, <1>7, <1>8, Numbers, TimelyConstants DEF SenderInv
  <2>3. ASSUME NEW i \in 1 .. Len(buf')
        PROVE  buf'[i].n = base' + i - 1 /\ Genuine(buf'[i], created')
    <3>1. CASE i \in 1 .. Len(buf)
      <4>1. buf[i].n = base + i - 1 /\ Genuine(buf[i], created)
        BY <1>1, <3>1 DEF SenderInv
      <4>2. Genuine(buf[i], created')
        <5>1. buf[i].n \in Int /\ created \in Int /\ created + 1 \in Int
              /\ created <= created + 1
          BY <3>1, Numbers
        <5> QED  BY <1>3, <4>1, <5>1, GenuineStays
      <4> QED  BY <1>7, <1>8, <3>1, <4>1, <4>2
    <3>2. CASE i = Len(buf) + 1
      <4>1. /\ Queued(d).n = created /\ Queued(d).seqNum = d.seqNum
            /\ Queued(d).length = d.length /\ d.n = created
        BY DEF Queued
      <4>2. Genuine(Queued(d), created')  BY <1>4, <4>1 DEF Genuine
      <4>3. created = base + i - 1
        BY <3>2, Numbers DEF base
      <4> QED  BY <1>7, <1>8, <3>2, <4>1, <4>2, <4>3
    <3> QED  BY <1>7, <3>1, <3>2, Numbers
  <2>4. IF isLastAckNum' THEN created' = NChunks + 1 ELSE created' = pos'
    BY <1>2, <1>3, Counts
  <2> QED  BY <2>1, <2>2, <2>3, <2>4 DEF SenderInv
<1>10. isFinalSeqNum => created' = created
  BY <1>1, <1>2, Numbers, TimelyConstants DEF ReceiverInv
<1>11. created <= created' /\ base' <= nWaited
  BY <1>1, <1>3, <1>8, Numbers DEF ReceiverInv
<1>12. \A e \in data' : e.length # GARBAGE => e \in data \/ Genuine(e, created')
  <2> HIDE DEF d
  <2> QED  BY <1>4, <1>5
<1>13. ReceiverInv' /\ WrittenInv' /\ DataInv' /\ ReplyInv'
  BY <1>6, <1>8, <1>10, <1>11, <1>12, ReceiverSideStays
<1> QED  BY <1>9, <1>13 DEF SafetyInv

(* A step that keeps the numbers of the queue keeps what the sender knows. *)
LEMMA SameQueue ==
  ASSUME Timely, TypeOK, SafetyInv,
         UNCHANGED <<created, seqNum, pos, isLastAckNum, nWaited>>,
         Len(buf') = Len(buf),
         \A i \in 1 .. Len(buf) :
            /\ buf'[i].n = buf[i].n /\ buf'[i].seqNum = buf[i].seqNum
            /\ buf'[i].length = buf[i].length,
         spc' = "write" => Len(buf) < MAX_BUFFER_SIZE /\ ~ isLastAckNum,
         spc' = "acked" => AtEnd
  PROVE  SenderInv' /\ base' = base
<1>1. SenderInv  BY DEF SafetyInv
<1>2. base' = base  BY DEF base
<1>3. \A i \in 1 .. Len(buf) : Genuine(buf'[i], created)
  BY <1>1 DEF SenderInv, Genuine
<1> QED  BY <1>1, <1>2, <1>3 DEF SenderInv, AtEnd

(* A packet that is asked for, or late, is sent once more. *)
LEMMA ResendSafety ==
  ASSUME Timely, TypeOK, TypeOK', SafetyInv, UNCHANGED receiverVars,
         NEW i \in 1 .. Len(buf), SResend(i)
  PROVE  SafetyInv'
<1>1. SenderInv  BY DEF SafetyInv
<1>2. /\ buf \in Seq(QueuedPacket) /\ buf[i] \in QueuedPacket
      /\ buf' = [buf EXCEPT ![i].age = 0]
  BY Numbers DEF SResend
<1>3. /\ Len(buf') = Len(buf)
      /\ \A j \in 1 .. Len(buf) :
           /\ buf'[j].n = buf[j].n /\ buf'[j].seqNum = buf[j].seqNum
           /\ buf'[j].length = buf[j].length
  <2> DEFINE e == [buf[i] EXCEPT !.age = 0]
  <2>1. e.n = buf[i].n /\ e.seqNum = buf[i].seqNum /\ e.length = buf[i].length
    BY <1>2 DEF QueuedPacket
  <2>2. buf' = [buf EXCEPT ![i] = e]  BY <1>2
  <2>3. e \in QueuedPacket
    <3>1. 0 \in 0 .. AgeCap  BY Constants
    <3> QED  BY <1>2, <3>1 DEF QueuedPacket
  <2> HIDE DEF e
  <2>4. /\ Len(buf') = Len(buf)
        /\ \A j \in 1 .. Len(buf) : buf'[j] = IF j = i THEN e ELSE buf[j]
    BY <1>2, <2>2, <2>3, ExceptSeq
  <2> QED  BY <2>1, <2>4
<1>4. UNCHANGED <<created, seqNum, pos, isLastAckNum, nWaited>>
  BY DEF SResend, receiverVars
<1>5. spc' \in {"poll", "read"} /\ rIn' = rIn  BY DEF SResend, AfterScan
<1>6. SenderInv' /\ base' = base  BY <1>3, <1>4, <1>5, SameQueue
<1>7. Genuine(Datagram(buf[i]), created)
  BY <1>1 DEF SenderInv, Genuine, Datagram
<1>8. \A d \in data' : d.length # GARBAGE => d \in data \/ Genuine(d, created')
  <2>1. data' \subseteq data \cup {Datagram(buf[i])}
    BY SentSubset DEF SResend
  <2> QED  BY <1>4, <1>7, <2>1
<1>9. /\ acks' \subseteq acks
      /\ sIn'.status = "ok" =>
            \/ sIn' = sIn
            \/ sIn'.pkt \in acks /\ base - sIn'.pkt.n <= MaxLag
  <2>1. ArriveAtSender  BY DEF SResend
  <2> QED  BY <2>1, ArrivedAtSender
<1>10. created <= created' /\ base' <= nWaited
  BY <1>4, <1>6, Counts
<1>11. ReceiverInv' /\ WrittenInv' /\ DataInv' /\ ReplyInv'
  BY <1>4, <1>5, <1>6, <1>8, <1>9, <1>10, ReceiverSideStays
<1> QED  BY <1>6, <1>11 DEF SafetyInv

(* The sender forgets the packets up to one the receiver has moved past.   *)
LEMMA ForgetSafety ==
  ASSUME Timely, TypeOK, TypeOK', SafetyInv, UNCHANGED receiverVars,
         UNCHANGED <<data, acks, rIn, created, seqNum, pos, isLastAckNum>>,
         sIn' = NoInput, spc' \notin {"write", "acked"},
         NEW k \in 0 .. Len(buf), buf' = SubSeq(buf, k + 1, Len(buf)),
         base + k <= nWaited
  PROVE  SafetyInv'
<1>1. SenderInv  BY DEF SafetyInv
<1>2. buf \in Seq(QueuedPacket) /\ Len(buf) \in Nat  BY Numbers
<1>3. /\ Len(buf') = Len(buf) - k
      /\ \A i \in 1 .. Len(buf) - k : buf'[i] = buf[k + i]
  <2>1. k + 1 \in Nat \ {0} /\ Len(buf) \in 0 .. Len(buf)  BY <1>2
  <2>2. /\ Len(buf') = IF k + 1 <= Len(buf) THEN Len(buf) - (k + 1) + 1 ELSE 0
        /\ \A i \in 1 .. Len(buf) - (k + 1) + 1 : buf'[i] = buf[k + 1 + i - 1]
    BY <1>2, <2>1, Piece
  <2> QED  BY <1>2, <2>2
<1>4. base' = base + k
  BY <1>2, <1>3, Numbers DEF base
<1>5. SenderInv'
  <2>0. base \in Int /\ 0 <= base /\ Len(buf) <= MAX_BUFFER_SIZE
    BY <1>1, Numbers DEF SenderInv
  <2>1. Len(buf') <= MAX_BUFFER_SIZE /\ base' >= 0
    BY <1>2, <1>3, <1>4, <2>0, TimelyConstants
  <2>2. ASSUME NEW i \in 1 .. Len(buf')
        PROVE  buf'[i].n = base' + i - 1 /\ Genuine(buf'[i], created')
    <3>1. k + i \in 1 .. Len(buf) /\ i \in 1 .. Len(buf) - k
      BY <1>2, <1>3
    <3>2. buf[k + i].n = base + (k + i) - 1 /\ Genuine(buf[k + i], created)
      BY <1>1, <3>1 DEF SenderInv
    <3>3. buf'[i] = buf[k + i] /\ created' = created  BY <1>3, <3>1
    <3>4. base + (k + i) - 1 = base' + i - 1  BY <1>2, <1>4, <2>0, <3>1
    <3> QED  BY <3>2, <3>3, <3>4
  <2> QED  BY <1>1, <2>1, <2>2 DEF SenderInv
<1>6. ReceiverInv' /\ WrittenInv' /\ DataInv' /\ ReplyInv'
  <2>1. created <= created' /\ base' <= nWaited /\ created' = created
    BY <1>4, Numbers
  <2>2. sIn'.status # "ok"  BY DEF NoInput
  <2>3. \A d \in data' : d \in data  OBVIOUS
  <2> QED  BY <2>1, <2>2, <2>3, ReceiverSideStays
<1> QED  BY <1>5, <1>6 DEF SafetyInv

(* A packet of the sender's queue is found by its sequence number.         *)
LEMMA FindPosition ==
  ASSUME Timely, TypeOK, SafetyInv, NEW k \in 1 .. Len(buf)
  PROVE  FindIndex(buf, ToUint8(base + k - 1)) = k
<1>1. SenderInv  BY DEF SafetyInv
<1>2. /\ buf \in Seq(QueuedPacket) /\ Len(buf) \in Nat /\ base \in Int
      /\ k \in Int
  BY Numbers
<1>3. \A i \in 1 .. Len(buf) : buf[i].seqNum = ToUint8(base + i - 1)
  BY <1>1 DEF SenderInv, Genuine
<1> DEFINE s == ToUint8(base + k - 1)
           f == FindIndex(buf, s)
<1>4. buf[k].seqNum = s  BY <1>3
<1>5. /\ f \in 0 .. Len(buf)
      /\ f # 0 => buf[f].seqNum = s
      /\ f # 0 /\ f <= k
  <2> HIDE DEF s
  <2> QED  BY <1>2, <1>4, FindIndexPosition
<1> HIDE DEF f
<1>6. f \in 1 .. Len(buf) /\ f \in Int  BY <1>2, <1>5
<1>7. ToUint8(base + f - 1) = ToUint8(base + k - 1)  BY <1>3, <1>5, <1>6
<1>8. Len(buf) <= MAX_BUFFER_SIZE  BY <1>1 DEF SenderInv
<1>9. /\ (base + f - 1) - (base + k - 1) < SeqSpace
      /\ (base + k - 1) - (base + f - 1) < SeqSpace
      /\ base + f - 1 \in Int /\ base + k - 1 \in Int
  BY <1>2, <1>5, <1>6, <1>8, TimelyConstants
<1>10. base + f - 1 = base + k - 1  BY <1>7, <1>9, SameRemainder
<1>11. f = k  BY <1>2, <1>6, <1>10
<1> QED  BY <1>11 DEF f

(* An ACK that passes the window test names the packet it was meant for,   *)
(* and any other one is older than the queue.                              *)
LEMMA AckMeaning ==
  ASSUME Timely, TypeOK, SafetyInv, NEW in, in.pkt \in AckPacket,
         in.pkt.type = "ACK", Truthful(in.pkt, created, nWaited),
         base - in.pkt.n <= MaxLag, buf # << >>
  PROVE  LET n == in.pkt.n
         IN  /\ n <= nWaited
             /\ Acknowledged(in.pkt) =
                  IF base < n THEN SubSeq(buf, n - base + 1, Len(buf)) ELSE buf
<1> DEFINE n == in.pkt.n
           s == Minus(in.pkt.seqNum, 1)
           w == in.pkt.window
<1>1. SenderInv  BY DEF SafetyInv
<1>2. /\ n \in Int /\ w = MAX_BUFFER_SIZE /\ in.pkt.seqNum = ToUint8(n)
      /\ n <= nWaited /\ base - n <= MaxLag
  BY DEF Truthful, AckPacket
<1> HIDE DEF n
<1>3. s = ToUint8(n - 1)
  <2>1. Minus(ToUint8(n), 1) = ToUint8(n - 1)  BY <1>2, MinusConstant
  <2> QED  BY <1>2, <2>1
<1>4. /\ buf \in Seq(QueuedPacket) /\ Len(buf) \in Nat /\ Len(buf) >= 1
      /\ base \in Int /\ nWaited \in Int
  BY Numbers, EmptySeq
<1>5. buf[1].seqNum = ToUint8(base)
  <2>1. 1 \in 1 .. Len(buf)  BY <1>4
  <2>2. buf[1].n = base + 1 - 1 /\ Genuine(buf[1], created)
    BY <1>1, <2>1 DEF SenderInv
  <2> QED  BY <1>4, <2>2 DEF Genuine
<1> HIDE DEF s, w
<1>6. InWindow(s, buf[1].seqNum, w) <=> base <= n - 1
  <2>1. n - 1 \in Int /\ n - 1 - base < MAX_BUFFER_SIZE
    BY <1>2, <1>4, Bounds, TimelyConstants
  <2>2. MAX_BUFFER_SIZE - SeqSpace <= n - 1 - base
    BY <1>2, <1>4, TimelyConstants
  <2>3. /\ MAX_BUFFER_SIZE \in Nat /\ 1 <= MAX_BUFFER_SIZE
        /\ MAX_BUFFER_SIZE <= SeqSpace
    BY TimelyConstants
  <2>4. /\ n - 1 - base < SeqSpace
        /\ base <= n - 1 => n - 1 < base + MAX_BUFFER_SIZE
    BY <1>4, <2>1, <2>3, TimelyConstants
  <2>5. InWindow(ToUint8(n - 1), ToUint8(base), MAX_BUFFER_SIZE)
          <=> base <= n - 1 /\ n - 1 < base + MAX_BUFFER_SIZE
    BY <1>4, <2>1, <2>2, <2>3, <2>4, WindowTest
  <2> QED  BY <1>2, <1>3, <1>5, <2>4, <2>5
<1>7. Acknowledged(in.pkt) =
        IF InWindow(s, buf[1].seqNum, w) THEN queue_delete(buf, s) ELSE buf
  BY DEF Acknowledged, s, w
<1>8. ASSUME base < n
      PROVE  queue_delete(buf, s) = SubSeq(buf, n - base + 1, Len(buf))
  <2>1. n - base \in 1 .. Len(buf) /\ base + (n - base) - 1 = n - 1
    BY <1>2, <1>4, <1>8, Bounds
  <2>2. FindIndex(buf, ToUint8(base + (n - base) - 1)) = n - base
    BY <2>1, FindPosition
  <2>3. FindIndex(buf, s) = n - base /\ n - base # 0
    BY <1>3, <2>1, <2>2
  <2> QED  BY <2>3 DEF queue_delete
<1>9. base <= n - 1 <=> base < n  BY <1>2, <1>4
<1>10. Acknowledged(in.pkt) =
         IF base < n THEN SubSeq(buf, n - base + 1, Len(buf)) ELSE buf
  BY <1>6, <1>7, <1>8, <1>9
<1> QED  BY <1>2, <1>10 DEF n

(* An ACK moves the beginning of the sender's queue up to what it says. *)
LEMMA ReadAckSafety ==
  ASSUME Timely, TypeOK, TypeOK', SafetyInv, UNCHANGED receiverVars, SReadAck
  PROVE  SafetyInv'
<1>1. /\ UNCHANGED <<data, acks, rIn, created, seqNum, pos, isLastAckNum>>
      /\ sIn' = NoInput /\ sIn.status = "ok" /\ sIn.pkt.type = "ACK"
  BY DEF SReadAck, OnAck, ReadSocket
<1>2. spc' \notin {"write", "acked"}  BY DEF SReadAck, OnAck
<1>3. buf \in Seq(QueuedPacket) /\ Len(buf) \in Nat /\ base \in Int
  BY Numbers
<1>4. buf' = buf \/ (buf # << >> /\ buf' = Acknowledged(sIn.pkt))
  BY DEF SReadAck, OnAck
<1>5. CASE buf' = buf
  <2>1. buf' = SubSeq(buf, 0 + 1, Len(buf))
    BY <1>3, <1>5, SubSeqFull
  <2>2. base + 0 <= nWaited /\ 0 \in 0 .. Len(buf)
    BY <1>3, Bounds
  <2> QED  BY <1>1, <1>2, <2>1, <2>2, ForgetSafety
<1>6. CASE /\ buf' # buf
           /\ buf # << >> /\ buf' = Acknowledged(sIn.pkt)
  <2> DEFINE k == sIn.pkt.n - base
  <2>1. sIn.pkt.n \in Int  BY <1>1, Inputs
  <2>2. /\ sIn.pkt.n <= nWaited
        /\ base < sIn.pkt.n /\ buf' = SubSeq(buf, k + 1, Len(buf))
    BY <1>1, <1>6, AckMeaning, Inputs DEF SafetyInv, ReplyInv
  <2>3. k \in 0 .. Len(buf) /\ base + k <= nWaited
    <3>1. nWaited \in Int /\ nWaited <= base + Len(buf)
      BY Numbers, Bounds
    <3>2. /\ base \in Int /\ Len(buf) \in Nat
          /\ base < sIn.pkt.n /\ sIn.pkt.n <= nWaited
      BY <1>3, <2>2
    <3> QED  BY ONLY <2>1, <3>1, <3>2
  <2> HIDE DEF k
  <2> QED  BY <1>1, <1>2, <2>2, <2>3, ForgetSafety
<1> QED  BY <1>4, <1>5, <1>6

(* The ACK that ends the sender is the one of the end of the file.         *)
LEMMA FinalSafety ==
  ASSUME Timely, TypeOK, TypeOK', SafetyInv, UNCHANGED receiverVars,
         NEW in, in.pkt \in AckPacket, Truthful(in.pkt, created, nWaited),
         base - in.pkt.n <= MaxLag, OnFinal(in), sIn' \in {sIn, NoInput},
         UNCHANGED <<data, acks, rIn, created, seqNum, pos, isLastAckNum>>
  PROVE  SafetyInv'
<1> DEFINE n == in.pkt.n
<1>1. /\ UNCHANGED <<data, acks, rIn, created, seqNum, pos, isLastAckNum, buf>>
      /\ spc' = "acked" /\ isLastAckNum /\ in.pkt.seqNum = seqNum
  BY DEF OnFinal, IsFinalAck
<1>2. SenderInv /\ ReceiverInv /\ ReplyInv  BY DEF SafetyInv
<1>3. /\ n \in Int /\ in.pkt.seqNum = ToUint8(n)
      /\ in.pkt.type = "NACK" => n < created
      /\ in.pkt.type = "ACK" => n <= nWaited
      /\ base - n <= MaxLag /\ in.pkt.type \in {"ACK", "NACK"}
  BY DEF Truthful, AckPacket
<1> HIDE DEF n
<1>4. ToUint8(n) = ToUint8(created)
  BY <1>1, <1>2, <1>3 DEF SenderInv
<1>5. created - n < SeqSpace /\ n - created < SeqSpace
  <2>1. /\ created \in Int /\ base \in Int /\ nWaited \in Int
        /\ nWaited <= created /\ created <= base + MAX_BUFFER_SIZE
    BY Counts
  <2> QED  BY <1>3, <2>1, TimelyConstants
<1>6. n = created  BY <1>3, <1>4, <1>5, Numbers, SameRemainder
<1>7. created <= nWaited  BY <1>3, <1>6, Numbers
<1>8. AtEnd
  <2>1. created = NChunks + 1  BY <1>1, <1>2 DEF SenderInv
  <2> QED  BY <1>7, <2>1, Counts DEF AtEnd
<1>9. nWaited' = nWaited  BY DEF receiverVars
<1>10. SenderInv' /\ base' = base
  BY <1>1, <1>8, <1>9, SameQueue
<1>11. ReceiverInv' /\ WrittenInv' /\ DataInv' /\ ReplyInv'
  <2>1. created <= created' /\ base' <= nWaited /\ created' = created
    BY <1>1, <1>10, Counts
  <2>2. sIn'.status = "ok" => sIn' = sIn /\ base' = base
    BY <1>10 DEF NoInput
  <2> QED  BY <1>1, <2>1, <2>2, ReceiverSideStays
<1> QED  BY <1>10, <1>11 DEF SafetyInv

(* A NACK makes a packet due, and changes no number. *)
LEMMA NackNumbers ==
  ASSUME NEW q \in Seq(QueuedPacket), NEW s
  PROVE  /\ Len(queue_find_nack(q, s)) = Len(q)
         /\ \A i \in 1 .. Len(q) :
              /\ queue_find_nack(q, s)[i].n = q[i].n
              /\ queue_find_nack(q, s)[i].seqNum = q[i].seqNum
              /\ queue_find_nack(q, s)[i].length = q[i].length
<1>1. FindIndex(q, s) \in 0 .. Len(q)  BY FindIndexPosition
<1>2. CASE FindIndex(q, s) = 0  BY <1>2 DEF queue_find_nack
<1>3. CASE FindIndex(q, s) # 0
  <2> DEFINE i == FindIndex(q, s)
             e == [q[i] EXCEPT !.age = Nacked]
  <2>1. i \in 1 .. Len(q)  BY <1>1, <1>3
  <2>2. q[i] \in QueuedPacket  BY <2>1, ElementOfSeq
  <2>3. /\ e \in QueuedPacket
        /\ e.n = q[i].n /\ e.seqNum = q[i].seqNum /\ e.length = q[i].length
    BY <2>2 DEF QueuedPacket
  <2>4. queue_find_nack(q, s) = [q EXCEPT ![i] = e]
    BY <1>3 DEF queue_find_nack
  <2> HIDE DEF i, e
  <2>5. /\ Len([q EXCEPT ![i] = e]) = Len(q)
        /\ \A j \in 1 .. Len(q) :
             [q EXCEPT ![i] = e][j] = IF j = i THEN e ELSE q[j]
    BY <2>1, <2>3, ExceptSeq
  <2> QED  BY <2>3, <2>4, <2>5
<1> QED  BY <1>2, <1>3

(* The steps of the sender that neither number a packet nor forget one.    *)
LEMMA SameQueueSafety ==
  ASSUME Timely, TypeOK, TypeOK', SafetyInv, UNCHANGED receiverVars,
         UNCHANGED <<data, rIn, created, seqNum, pos, isLastAckNum>>,
         acks' \subseteq acks,
         sIn'.status = "ok" =>
            sIn' = sIn \/ (sIn'.pkt \in acks /\ base - sIn'.pkt.n <= MaxLag),
         Len(buf') = Len(buf),
         \A i \in 1 .. Len(buf) :
            /\ buf'[i].n = buf[i].n /\ buf'[i].seqNum = buf[i].seqNum
            /\ buf'[i].length = buf[i].length,
         spc' = "write" => Len(buf) < MAX_BUFFER_SIZE /\ ~ isLastAckNum,
         spc' # "acked"
  PROVE  SafetyInv'
<1>1. nWaited' = nWaited  BY DEF receiverVars
<1>2. SenderInv' /\ base' = base  BY <1>1, SameQueue
<1>3. created <= created' /\ base' <= nWaited
  BY <1>2, Counts
<1>4. ReceiverInv' /\ WrittenInv' /\ DataInv' /\ ReplyInv'
  BY <1>2, <1>3, ReceiverSideStays
<1> QED  BY <1>2, <1>4 DEF SafetyInv

(* Every step of the sender keeps the invariant. *)
LEMMA SenderStepSafety ==
  ASSUME Timely, TypeOK, TypeOK', SafetyInv, SenderNext, UNCHANGED receiverVars
  PROVE  SafetyInv'
<1>1. SenderInv  BY DEF SafetyInv
<1>2. /\ buf \in Seq(QueuedPacket) /\ Len(buf) \in Nat
      /\ size_buffer \in {1, MAX_BUFFER_SIZE} /\ 1 <= MAX_BUFFER_SIZE
      /\ MAX_BUFFER_SIZE \in Nat
      /\ pos \in 0 .. NChunks /\ NChunks \in Nat
      /\ readErrors \in 0 .. MaxReadErrors /\ MaxReadErrors = 0
      /\ isLastAckNum \in BOOLEAN
  <2>1. SenderTypeOK  BY DEF TypeOK
  <2>2. MAX_BUFFER_SIZE \in Nat \ {0} /\ NChunks \in Nat /\ MaxReadErrors = 0
    BY TimelyConstants
  <2>3. buf \in Seq(QueuedPacket) /\ Len(buf) \in Nat  BY Numbers
  <2> QED  BY <2>1, <2>2, <2>3 DEF SenderTypeOK
<1>3. CASE STimeout
  <2>1. /\ UNCHANGED <<data, rIn, created, seqNum, pos, isLastAckNum, buf>>
        /\ UNCHANGED <<acks, sIn>> /\ spc' = "timeout"
    BY <1>3 DEF STimeout, linkVars
  <2> QED  BY <2>1, SameQueueSafety
<1>4. CASE SPoll
  <2>1. /\ UNCHANGED <<data, rIn, created, seqNum, pos, isLastAckNum, buf>>
        /\ spc' # "acked"
        /\ spc' = "write" => CanSend
    BY <1>4 DEF SPoll, AfterScan
  <2>2. CanSend => Len(buf) < MAX_BUFFER_SIZE /\ ~ isLastAckNum
    BY <1>2 DEF CanSend
  <2>3. /\ acks' \subseteq acks
        /\ sIn'.status = "ok" =>
              sIn' = sIn \/ (sIn'.pkt \in acks /\ base - sIn'.pkt.n <= MaxLag)
    <3>1. ArriveAtSender  BY <1>4 DEF SPoll
    <3> QED  BY <3>1, ArrivedAtSender
  <2> QED  BY <2>1, <2>2, <2>3, SameQueueSafety
<1>5. CASE SSendData
  <2>1. pos # NChunks /\ pos < NChunks /\ 1 \in {EOF_LENGTH, 1}
        /\ 1 # EOF_LENGTH
    BY <1>2, <1>5 DEF SSendData, EOF_LENGTH
  <2>2. /\ spc = "write" /\ UNCHANGED <<rIn, sIn>> /\ spc' \in {"poll", "scan"}
        /\ Number([seqNum |-> seqNum, length |-> 1, n |-> created])
        /\ buf' = Append(buf, Queued([seqNum |-> seqNum, length |-> 1,
                                      n |-> created]))
        /\ isLastAckNum' = isLastAckNum /\ pos' = pos + 1
    BY <1>5 DEF SSendData, queue_push
  <2>3. isLastAckNum' = (pos = NChunks)
        /\ pos' = IF pos = NChunks THEN pos ELSE pos + 1
    BY <1>1, <1>2, <2>1, <2>2 DEF SenderInv
  <2> QED  BY <2>1, <2>2, <2>3, SendSafety
<1>6. CASE SReadFails  BY <1>2, <1>6 DEF SReadFails
<1>7. CASE SSendEof
  <2>1. pos = NChunks /\ EOF_LENGTH \in {EOF_LENGTH, 1}
    BY <1>7 DEF SSendEof
  <2>2. /\ spc = "write" /\ UNCHANGED <<rIn, sIn>> /\ spc' \in {"poll", "scan"}
        /\ Number([seqNum |-> seqNum, length |-> EOF_LENGTH, n |-> created])
        /\ buf' = Append(buf, Queued([seqNum |-> seqNum, length |-> EOF_LENGTH,
                                      n |-> created]))
        /\ isLastAckNum' = TRUE /\ pos' = pos
    BY <1>7 DEF SSendEof, queue_push
  <2>3. isLastAckNum' = (pos = NChunks)
        /\ pos' = IF pos = NChunks THEN pos ELSE pos + 1
    BY <2>1, <2>2
  <2> QED  BY <2>1, <2>2, <2>3, SendSafety
<1>8. ASSUME NEW i \in 1 .. Len(buf), SResend(i)  PROVE SafetyInv'
  BY <1>8, ResendSafety
<1>9. CASE SNoResend
  <2>1. /\ UNCHANGED <<data, rIn, created, seqNum, pos, isLastAckNum, buf>>
        /\ spc' \notin {"write", "acked"}
    BY <1>9 DEF SNoResend, AfterScan
  <2>2. /\ acks' \subseteq acks
        /\ sIn'.status = "ok" =>
              sIn' = sIn \/ (sIn'.pkt \in acks /\ base - sIn'.pkt.n <= MaxLag)
    <3>1. ArriveAtSender  BY <1>9 DEF SNoResend, ArriveAtSender
    <3> QED  BY <3>1, ArrivedAtSender
  <2> QED  BY <2>1, <2>2, SameQueueSafety
<1>10. CASE SReadBad
  <2>1. /\ UNCHANGED <<data, rIn, created, seqNum, pos, isLastAckNum, buf, acks>>
        /\ spc' = "poll" /\ sIn'.status # "ok"
    BY <1>10 DEF SReadBad, OnBad, ReadSocket, NoInput
  <2> QED  BY <2>1, SameQueueSafety
<1>11. CASE SReadFinal
  <2>1. OnFinal(sIn) /\ ReadSocket  BY <1>11 DEF SReadFinal
  <2>2. /\ sIn.pkt \in AckPacket /\ Truthful(sIn.pkt, created, nWaited)
        /\ base - sIn.pkt.n <= MaxLag
    BY <2>1, Inputs DEF OnFinal, SafetyInv, ReplyInv
  <2>3. /\ sIn' \in {sIn, NoInput}
        /\ UNCHANGED <<data, acks, rIn, created, seqNum, pos, isLastAckNum>>
    BY <2>1 DEF ReadSocket
  <2> QED  BY <2>1, <2>2, <2>3, FinalSafety
<1>12. CASE SReadAck  BY <1>12, ReadAckSafety
<1>13. CASE SReadNack
  <2>1. /\ UNCHANGED <<data, rIn, created, seqNum, pos, isLastAckNum, acks>>
        /\ spc' = "poll" /\ sIn'.status # "ok"
        /\ buf' = queue_find_nack(buf, sIn.pkt.seqNum)
    BY <1>13 DEF SReadNack, OnNack, ReadSocket, NoInput
  <2>2. /\ Len(buf') = Len(buf)
        /\ \A i \in 1 .. Len(buf) :
             /\ buf'[i].n = buf[i].n /\ buf'[i].seqNum = buf[i].seqNum
             /\ buf'[i].length = buf[i].length
    BY <1>2, <2>1, NackNumbers
  <2> QED  BY <2>1, <2>2, SameQueueSafety
<1> QED
  BY <1>3, <1>4, <1>5, <1>6, <1>7, <1>8, <1>9, <1>10, <1>11, <1>12, <1>13
  DEF SenderNext

(* As time passes the packets only grow older. *)
LEMMA TickSafety ==
  ASSUME Timely, TypeOK, TypeOK', SafetyInv, Tick
  PROVE  SafetyInv'
<1>1. /\ buf \in Seq(QueuedPacket) /\ Len(buf) \in Nat
      /\ \A i \in 1 .. Len(buf) : buf[i] \in QueuedPacket
  BY Numbers
<1>2. Len(buf') = Len(buf) /\ \A i \in 1 .. Len(buf) : buf'[i] = Older(buf[i])
  BY <1>1 DEF Tick, Aged
<1>3. ASSUME NEW p \in QueuedPacket
      PROVE  /\ Older(p).n = p.n /\ Older(p).seqNum = p.seqNum
             /\ Older(p).length = p.length
  BY DEF Older, QueuedPacket
<1>4. \A i \in 1 .. Len(buf) :
         /\ buf'[i].n = buf[i].n /\ buf'[i].seqNum = buf[i].seqNum
         /\ buf'[i].length = buf[i].length
  BY <1>1, <1>2, <1>3
<1>5. UNCHANGED <<data, acks, rIn, sIn, created, spc, seqNum, isLastAckNum, pos,
                  rpc, waitedSeqNum, finalSeqNum, isFinalSeqNum, pktQueue,
                  ackQueue, written, nWaited>>
  BY DEF Tick, linkVars
<1>6. SenderInv  BY DEF SafetyInv
<1>7. SenderInv' /\ base' = base
  BY <1>2, <1>4, <1>5, <1>6, SameQueue DEF SenderInv
<1>8. ReceiverInv' /\ WrittenInv' /\ DataInv' /\ ReplyInv'
  BY <1>5, <1>7 DEF SafetyInv, ReceiverInv, WrittenInv, DataInv, ReplyInv, AtEnd
<1> QED  BY <1>7, <1>8 DEF SafetyInv

-----------------------------------------------------------------------------
(* The receiver accepts the packets it has not delivered yet, and those    *)
(* only: each lies in its window.                                          *)
LEMMA AcceptMeaning ==
  ASSUME Timely, TypeOK, SafetyInv, rIn.status = "ok"
  PROVE  /\ Accepts(rIn.pkt) <=> nWaited <= rIn.pkt.n
         /\ rIn.pkt.n < created /\ rIn.pkt.n < nWaited + MAX_BUFFER_SIZE
<1> DEFINE n == rIn.pkt.n
<1>1. /\ n \in Int /\ rIn.pkt.seqNum = ToUint8(n) /\ n < created
      /\ nWaited - n <= MaxLag
  BY Inputs DEF SafetyInv, DataInv, Genuine
<1> HIDE DEF n
<1>2. /\ waitedSeqNum = ToUint8(nWaited) /\ nWaited \in Int
      /\ created \in Int /\ base \in Int /\ base <= nWaited
      /\ created <= base + MAX_BUFFER_SIZE
  BY Counts DEF SafetyInv, ReceiverInv
<1>3. /\ MAX_BUFFER_SIZE \in Nat /\ 1 <= MAX_BUFFER_SIZE
      /\ MAX_BUFFER_SIZE <= SeqSpace /\ SeqSpace \in Nat
  BY TimelyConstants
<1>4. n - nWaited < MAX_BUFFER_SIZE  BY <1>1, <1>2, <1>3
<1>5. MAX_BUFFER_SIZE - SeqSpace <= n - nWaited
  BY <1>1, <1>2, <1>3, TimelyConstants
<1>6. n < nWaited + MAX_BUFFER_SIZE /\ n - nWaited < SeqSpace
  BY <1>1, <1>2, <1>3, <1>4
<1>7. InWindow(ToUint8(n), ToUint8(nWaited), MAX_BUFFER_SIZE)
        <=> nWaited <= n /\ n < nWaited + MAX_BUFFER_SIZE
  BY <1>1, <1>2, <1>3, <1>5, <1>6, WindowTest
<1>8. Accepts(rIn.pkt) <=> nWaited <= n  BY <1>1, <1>2, <1>6, <1>7 DEF Accepts
<1> QED  BY <1>1, <1>6, <1>8 DEF n

(* The replies that are queued after one more, or after none. *)
LEMMA ReplySafety ==
  ASSUME Timely, TypeOK, SafetyInv,
         NEW type \in {"ACK", "NACK"}, NEW count \in Nat, NEW reached \in Nat,
         NEW last \in BOOLEAN,
         ackQueue' = ackQueue \/ Reply(type, ToUint8(count), count, last),
         type = "NACK" => count < created, type = "ACK" => count <= reached,
         nWaited <= reached
  PROVE  \A i \in 1 .. Len(ackQueue') :
            /\ Truthful(ackQueue'[i], created, reached)
            /\ ackQueue'[i].trFlag => last \/ AtEnd
<1> DEFINE ack == [type |-> type, seqNum |-> ToUint8(count), n |-> count,
                   window |-> MAX_BUFFER_SIZE, trFlag |-> last]
<1>1. ack \in QueuedAck
  BY Division DEF QueuedAck
<1>2. ackQueue \in Seq(QueuedAck) /\ Len(ackQueue) \in Nat  BY Numbers
<1>3. Truthful(ack, created, reached) /\ (ack.trFlag => last)  BY DEF Truthful
<1>4. ackQueue' = ackQueue \/ ackQueue' = Append(ackQueue, ack)  BY DEF Reply
<1> HIDE DEF ack
<1>5. /\ Len(ackQueue') \in {Len(ackQueue), Len(ackQueue) + 1}
      /\ \A i \in 1 .. Len(ackQueue) : ackQueue'[i] = ackQueue[i]
      /\ Len(ackQueue') = Len(ackQueue) + 1 =>
            ackQueue'[Len(ackQueue) + 1] = ack
  <2>1. CASE ackQueue' = ackQueue  BY <1>2, <2>1
  <2>2. CASE ackQueue' = Append(ackQueue, ack)
    BY <1>1, <1>2, <2>2, AppendProperties
  <2> QED  BY <1>4, <2>1, <2>2
<1>6. ASSUME NEW i \in 1 .. Len(ackQueue)
      PROVE  /\ Truthful(ackQueue[i], created, reached)
             /\ ackQueue[i].trFlag => AtEnd
  <2>1. /\ Truthful(ackQueue[i], created, nWaited)
        /\ ackQueue[i].trFlag => AtEnd
        /\ ackQueue[i].n \in Int
    <3>1. ReplyInv  BY DEF SafetyInv
    <3>2. ackQueue[i].n \in Int  BY Numbers
    <3> QED  BY <3>1, <3>2 DEF ReplyInv
  <2>2. created \in Int /\ nWaited \in Int /\ reached \in Int /\ created <= created
    BY Numbers
  <2> QED  BY <2>1, <2>2, TruthfulStays
<1> SUFFICES ASSUME NEW i \in 1 .. Len(ackQueue')
             PROVE  /\ Truthful(ackQueue'[i], created, reached)
                    /\ ackQueue'[i].trFlag => last \/ AtEnd
  OBVIOUS
<1>7. \/ i \in 1 .. Len(ackQueue)
      \/ i = Len(ackQueue) + 1 /\ Len(ackQueue') = Len(ackQueue) + 1
  BY <1>2, <1>5
<1> QED  BY <1>3, <1>5, <1>6, <1>7

(* The steps of the receiver that deliver nothing. *)
LEMMA UnmovedSafety ==
  ASSUME Timely, TypeOK, TypeOK', SafetyInv, UNCHANGED senderVars, Unmoved,
         created' = created, sIn' = sIn, data' \subseteq data,
         rIn'.status \in {"ok", "tr"} =>
            Genuine(rIn'.pkt, created) /\ nWaited - rIn'.pkt.n <= MaxLag,
         \A a \in acks' : a \in acks \/ Truthful(a, created, nWaited),
         \A i \in 1 .. Len(ackQueue') :
            /\ Truthful(ackQueue'[i], created, nWaited)
            /\ ackQueue'[i].trFlag => AtEnd,
         rpc' = "final" => AtEnd
  PROVE  SafetyInv'
<1>1. /\ waitedSeqNum' = waitedSeqNum /\ finalSeqNum' = finalSeqNum
      /\ isFinalSeqNum' = isFinalSeqNum /\ pktQueue' = pktQueue
      /\ written' = written /\ nWaited' = nWaited
  BY DEF Unmoved
<1>2. nWaited <= nWaited' /\ nWaited' <= created  BY <1>1, Counts
<1>3. /\ SenderInv'
      /\ \A d \in data' : d.length # GARBAGE => Genuine(d, created')
      /\ \A a \in acks' : Truthful(a, created', nWaited')
      /\ sIn'.status = "ok" =>
            /\ Truthful(sIn'.pkt, created', nWaited')
            /\ base' - sIn'.pkt.n <= MaxLag
      /\ base' = base
  <2>1. \A a \in acks' : a \in acks \/ Truthful(a, created, nWaited')  BY <1>1
  <2> QED  BY <1>2, <2>1, SenderSideStays
<1>4. ReceiverInv'  BY <1>1, <1>3 DEF SafetyInv, ReceiverInv, AtEnd
<1>5. WrittenInv'  BY <1>1 DEF SafetyInv, WrittenInv, AtEnd
<1>6. DataInv'  BY <1>1, <1>3 DEF DataInv
<1>7. ReplyInv'  BY <1>1, <1>3 DEF ReplyInv, AtEnd
<1> QED  BY <1>3, <1>4, <1>5, <1>6, <1>7 DEF SafetyInv

(* The packet of length 0 is remembered, or ends the file when every       *)
(* payload before it was delivered.                                        *)
LEMMA EofSafety ==
  ASSUME Timely, TypeOK, TypeOK', SafetyInv, UNCHANGED senderVars, RReadSocket,
         EofArrives,
         \/ ackQueue' = ackQueue
         \/ Reply("ACK", waitedSeqNum', nWaited', rIn.pkt.seqNum = waitedSeqNum)
  PROVE  SafetyInv'
<1> DEFINE n == rIn.pkt.n
           last == rIn.pkt.seqNum = waitedSeqNum
           step == IF last THEN 1 ELSE 0
<1>1. /\ rIn.status = "ok" /\ Accepts(rIn.pkt) /\ rIn.pkt.length = EOF_LENGTH
      /\ rIn' = NoInput /\ rpc' = "poll"
      /\ UNCHANGED <<data, acks, sIn, created, pktQueue, written>>
      /\ isFinalSeqNum' = TRUE /\ finalSeqNum' = rIn.pkt.seqNum
      /\ waitedSeqNum' = Plus(waitedSeqNum, step)
      /\ nWaited' = nWaited + step
      /\ ackQueue' = ackQueue \/ Reply("ACK", waitedSeqNum', nWaited', last)
  BY DEF EofArrives, RReadSocket, ReadThen
<1>2. ReceiverInv /\ WrittenInv /\ DataInv  BY DEF SafetyInv
<1>3. /\ n \in Int /\ rIn.pkt.seqNum = ToUint8(n) /\ n = NChunks
      /\ nWaited <= n /\ n < nWaited + MAX_BUFFER_SIZE /\ n < created
  BY <1>1, <1>2, Inputs, AcceptMeaning DEF DataInv, Genuine
<1> HIDE DEF n
<1>4. /\ created = NChunks + 1 /\ nWaited \in Nat /\ created \in Nat
      /\ NChunks \in Nat /\ nWaited <= created
  BY <1>3, Counts
<1>5. waitedSeqNum = ToUint8(nWaited)  BY <1>2 DEF ReceiverInv
<1>6. last => nWaited = NChunks
  <2>1. n - nWaited < SeqSpace /\ nWaited - n < SeqSpace
    BY <1>3, <1>4, TimelyConstants
  <2> QED  BY <1>3, <1>4, <1>5, <2>1, SameRemainder
<1>7. last \in BOOLEAN /\ step \in Nat /\ (last => step = 1) /\ (~ last => step = 0)
  OBVIOUS
<1> HIDE DEF last, step
<1>8. waitedSeqNum' = ToUint8(nWaited')
  BY <1>1, <1>4, <1>5, <1>7, PlusRemainder
<1>9. nWaited' \in Nat /\ nWaited <= nWaited' /\ nWaited' <= created
  BY <1>1, <1>3, <1>4, <1>6, <1>7
<1>10. last => AtEnd'  BY <1>1, <1>4, <1>6, <1>7 DEF AtEnd
<1>11. /\ SenderInv'
       /\ \A d \in data' : d.length # GARBAGE => Genuine(d, created')
       /\ \A a \in acks' : Truthful(a, created', nWaited')
       /\ sIn'.status = "ok" =>
             /\ Truthful(sIn'.pkt, created', nWaited')
             /\ base' - sIn'.pkt.n <= MaxLag
       /\ base' = base
  <2>1. data' \subseteq data /\ \A a \in acks' : a \in acks  BY <1>1
  <2> QED  BY <1>1, <1>9, <2>1, SenderSideStays
<1>12. ReceiverInv'
  <2>1. base' <= nWaited' /\ nWaited' <= created'
    BY <1>1, <1>4, <1>9, <1>11, Counts
  <2>2. ASSUME NEW i \in 1 .. Len(pktQueue)
        PROVE  nWaited' < pktQueue[i].n /\ Genuine(pktQueue[i], created)
    <3>1. nWaited < pktQueue[i].n /\ Genuine(pktQueue[i], created)
      BY <1>2 DEF ReceiverInv
    <3>2. pktQueue[i].n \in Int /\ pktQueue[i].n < created
      BY <3>1, Numbers DEF Genuine
    <3> QED  BY <1>1, <1>4, <1>6, <1>7, <3>1, <3>2
  <2> QED  BY <1>1, <1>2, <1>3, <1>4, <1>8, <2>1, <2>2 DEF ReceiverInv
<1>13. WrittenInv'
  BY <1>1, <1>2, <1>3, <1>4, <1>6, <1>7 DEF WrittenInv, AtEnd
<1>14. DataInv'  BY <1>1, <1>11 DEF DataInv, NoInput
<1>15. ReplyInv'
  <2>1. \/ ackQueue' = ackQueue
        \/ Reply("ACK", ToUint8(nWaited'), nWaited', last)
    BY <1>1, <1>8
  <2>2. \A i \in 1 .. Len(ackQueue') :
           /\ Truthful(ackQueue'[i], created, nWaited')
           /\ ackQueue'[i].trFlag => last \/ AtEnd
    BY <1>7, <1>9, <2>1, ReplySafety
  <2>3. AtEnd => AtEnd'  BY <1>4, <1>9 DEF AtEnd
  <2> QED  BY <1>1, <1>10, <1>11, <2>2, <2>3 DEF ReplyInv
<1> QED  BY <1>11, <1>12, <1>13, <1>14, <1>15 DEF SafetyInv

-----------------------------------------------------------------------------
(* What a payload that is accepted does to the queue: the packets that are *)
(* delivered and the ones that are kept (receiver.c:182-197).              *)
Pushed == queue_ordered_push(pktQueue, rIn.pkt, waitedSeqNum, MAX_BUFFER_SIZE)
Out  == queue_payload_write(Pushed.queue, waitedSeqNum)
Run  == IF Pushed.pushed THEN Out.written ELSE << >>
Rest == IF Pushed.pushed THEN Out.queue ELSE pktQueue

(* The packets delivered are the next ones of the file, without a gap, and *)
(* the ones kept come after a gap.                                         *)
Delivers(run, rest) ==
  /\ \A i \in 1 .. Len(run) : run[i].n = nWaited + i - 1
  /\ nWaited + Len(run) <= NChunks /\ nWaited + Len(run) <= created
  /\ \A i \in 1 .. Len(rest) :
       /\ nWaited + Len(run) < rest[i].n /\ rest[i].n < NChunks
       /\ Genuine(rest[i], created)
  /\ Ordered(rest)

LEMMA PayloadMeaning ==
  ASSUME Timely, TypeOK, SafetyInv, rIn.status = "ok", Accepts(rIn.pkt),
         rIn.pkt.length # EOF_LENGTH
  PROVE  /\ Run \in Seq(EarlyPacket) /\ Rest \in Seq(EarlyPacket)
         /\ \A i \in 1 .. Len(Run) : Run[i].n = nWaited + i - 1
         /\ nWaited + Len(Run) <= NChunks /\ nWaited + Len(Run) <= created
         /\ \A i \in 1 .. Len(Rest) :
              /\ nWaited + Len(Run) < Rest[i].n /\ Rest[i].n < NChunks
              /\ Genuine(Rest[i], created)
         /\ Ordered(Rest)
<1> DEFINE W == MAX_BUFFER_SIZE
           Payload(p) == Genuine(p, created) /\ p.n < NChunks
<1>1. ReceiverInv /\ DataInv  BY DEF SafetyInv
<1>2. /\ pktQueue \in Seq(EarlyPacket) /\ nWaited \in Int /\ created \in Int
      /\ waitedSeqNum = ToUint8(nWaited) /\ created <= NChunks + 1
      /\ created <= nWaited + W
  <2>1. created <= base + W /\ base <= nWaited /\ base \in Int /\ W \in Int
    BY Counts
  <2>2. pktQueue \in Seq(EarlyPacket)  BY Numbers
  <2> QED  BY <1>1, <2>1, <2>2, Counts DEF ReceiverInv
<1>3. W \in Nat \ {0} /\ 2 * W <= SeqSpace /\ W <= SeqSpace /\ NChunks \in Nat
  BY TimelyConstants
<1>4. rIn.pkt \in EarlyPacket /\ rIn.pkt.n \in Nat
  BY Inputs DEF ReadablePacket, DataPacket, EarlyPacket
<1>5. ASSUME NEW p \in EarlyPacket, Genuine(p, created)  PROVE Payload(p)
  <2>1. p.n \in Nat /\ p.n < created /\ p.n # NChunks
    BY <1>5 DEF EarlyPacket, Genuine, EOF_LENGTH
  <2> QED  BY <1>2, <1>3, <1>5, <2>1
<1>6. Payload(rIn.pkt) /\ InWindowOf(rIn.pkt, nWaited, W)
  <2>1. Genuine(rIn.pkt, created)  BY <1>1 DEF DataInv
  <2>2. nWaited <= rIn.pkt.n /\ rIn.pkt.n < nWaited + W  BY AcceptMeaning
  <2>3. Payload(rIn.pkt)  BY <1>4, <1>5, <2>1
  <2> QED  BY <1>4, <2>1, <2>2, <2>3 DEF InWindowOf, Genuine
<1>7. ASSUME NEW i \in 1 .. Len(pktQueue)
      PROVE  /\ Payload(pktQueue[i]) /\ InWindowOf(pktQueue[i], nWaited, W)
             /\ nWaited < pktQueue[i].n
  <2>1. nWaited < pktQueue[i].n /\ Genuine(pktQueue[i], created)
    BY <1>1 DEF ReceiverInv
  <2>2. pktQueue[i] \in EarlyPacket /\ pktQueue[i].n \in Int  BY Numbers
  <2>3. Payload(pktQueue[i])  BY <1>5, <2>1, <2>2
  <2> QED  BY <1>2, <1>3, <2>1, <2>2, <2>3 DEF InWindowOf, Genuine
<1>8. Ordered(pktQueue)  BY <1>1 DEF ReceiverInv, Ordered
<1>9. Ahead(pktQueue, nWaited, W)  BY <1>7, <1>8 DEF Ahead
<1> HIDE DEF W
<1>10. /\ Pushed.queue \in Seq(EarlyPacket)
       /\ Ahead(Pushed.queue, nWaited, W)
       /\ \A i \in 1 .. Len(Pushed.queue) :
            \/ Pushed.queue[i] = rIn.pkt
            \/ \E j \in 1 .. Len(pktQueue) : Pushed.queue[i] = pktQueue[j]
  <2>1. Pushed = queue_ordered_push(pktQueue, rIn.pkt, ToUint8(nWaited), W)
    BY <1>2 DEF Pushed, W
  <2> QED  BY <1>2, <1>3, <1>4, <1>6, <1>9, <2>1, PushOrder
<1>11. \A i \in 1 .. Len(Pushed.queue) : Payload(Pushed.queue[i])
  <2> HIDE DEF Payload
  <2> QED  BY <1>6, <1>7, <1>10
<1>12. /\ Out.written \in Seq(EarlyPacket) /\ Out.queue \in Seq(EarlyPacket)
       /\ Len(Out.written) \in Nat
       /\ Splits(Pushed.queue, nWaited, Out.written, Out.queue)
  <2> DEFINE q == Pushed.queue
  <2>1. q \in Seq(EarlyPacket) /\ Ahead(q, nWaited, W)  BY <1>10
  <2>2. Out = queue_payload_write(q, ToUint8(nWaited))  BY <1>2 DEF Out
  <2> HIDE DEF q
  <2>3. Splits(q, nWaited, Out.written, Out.queue)
    BY ONLY <1>2, <1>3, <2>1, <2>2, PayloadWriteOrder
  <2>4. Out.written \in Seq(EarlyPacket) /\ Out.queue \in Seq(EarlyPacket)
    BY <2>1, <2>2, PayloadWriteType
  <2> QED  BY <2>3, <2>4, LenProperties DEF q
<1>13. nWaited < NChunks /\ nWaited < created
  BY <1>2, <1>3, <1>4, <1>6 DEF InWindowOf, Genuine
<1>14. CASE Pushed.pushed
  <2>1. Run = Out.written /\ Rest = Out.queue  BY <1>14 DEF Run, Rest
  <2>2. nWaited + Len(Run) <= NChunks /\ nWaited + Len(Run) <= created
    <3>1. CASE Len(Run) = 0  BY <1>2, <1>3, <1>13, <3>1
    <3>2. CASE Len(Run) # 0
      <4>1. Len(Run) \in 1 .. Len(Run) /\ Len(Run) \in Nat
        BY <1>12, <2>1, <3>2
      <4>2. Run[Len(Run)].n = nWaited + Len(Run) - 1
        BY <1>12, <2>1, <4>1 DEF Splits
      <4>3. Payload(Run[Len(Run)])
        <5> HIDE DEF Payload
        <5> QED  BY <1>11, <1>12, <2>1, <4>1 DEF Splits
      <4> QED  BY <1>2, <1>3, <4>1, <4>2, <4>3 DEF Genuine
    <3> QED  BY <3>1, <3>2
  <2>3. \A i \in 1 .. Len(Rest) : Payload(Rest[i])
    <3> HIDE DEF Payload
    <3> QED  BY <1>11, <1>12, <2>1 DEF Splits
  <2> QED  BY <1>12, <2>1, <2>2, <2>3 DEF Splits
<1>15. CASE ~ Pushed.pushed
  <2>1. Run = << >> /\ Rest = pktQueue  BY <1>15 DEF Run, Rest
  <2>2. Len(Run) = 0 /\ Run \in Seq(EarlyPacket)  BY <2>1, EmptySeq
  <2>3. /\ nWaited + Len(Run) <= NChunks /\ nWaited + Len(Run) <= created
        /\ nWaited + Len(Run) = nWaited
    BY <1>2, <1>3, <1>13, <2>2
  <2>4. \A i \in 1 .. Len(Rest) :
           /\ nWaited + Len(Run) < Rest[i].n /\ Payload(Rest[i])
    BY <1>7, <2>1, <2>3
  <2>5. \A i \in 1 .. Len(Run) : FALSE  BY <2>2
  <2> QED  BY <1>2, <1>8, <2>1, <2>2, <2>3, <2>4, <2>5
<1> QED  BY <1>14, <1>15

(* An accepted payload is queued, and what is in order is written. *)
LEMMA PayloadSafety ==
  ASSUME Timely, TypeOK, TypeOK', SafetyInv, UNCHANGED senderVars,
         NEW run \in Seq(EarlyPacket), NEW rest \in Seq(EarlyPacket),
         NEW last \in BOOLEAN, Delivers(run, rest),
         last => isFinalSeqNum /\ Plus(waitedSeqNum, Len(run)) = finalSeqNum,
         rIn' = NoInput, rpc' # "final",
         UNCHANGED <<data, acks, sIn, created, finalSeqNum, isFinalSeqNum>>,
         pktQueue' = rest, WriteRun(run),
         waitedSeqNum' = Plus(Plus(waitedSeqNum, Len(run)),
                              IF last THEN 1 ELSE 0),
         nWaited' = nWaited + Len(run) + (IF last THEN 1 ELSE 0),
         ackQueue' = ackQueue \/ Reply("ACK", waitedSeqNum', nWaited', last)
  PROVE  SafetyInv'
<1> DEFINE c    == Len(run)
           next == Plus(waitedSeqNum, c)
           step == IF last THEN 1 ELSE 0
           ns   == [i \in 1 .. Len(run) |-> run[i].n]
<1>1. /\ rIn' = NoInput /\ rpc' # "final"
      /\ UNCHANGED <<data, acks, sIn, created, finalSeqNum, isFinalSeqNum>>
      /\ pktQueue' = rest
      /\ written' = written \o ns
      /\ waitedSeqNum' = Plus(next, step)
      /\ nWaited' = nWaited + c + step
      /\ ackQueue' = ackQueue \/ Reply("ACK", waitedSeqNum', nWaited', last)
      /\ last => isFinalSeqNum /\ next = finalSeqNum
  BY DEF WriteRun
<1>2. ReceiverInv /\ WrittenInv /\ DataInv  BY DEF SafetyInv
<1>3. /\ run \in Seq(EarlyPacket) /\ rest \in Seq(EarlyPacket)
      /\ \A i \in 1 .. c : run[i].n = nWaited + i - 1
      /\ nWaited + c <= NChunks /\ nWaited + c <= created
      /\ \A i \in 1 .. Len(rest) :
           /\ nWaited + c < rest[i].n /\ rest[i].n < NChunks
           /\ Genuine(rest[i], created)
      /\ Ordered(rest)
  BY DEF Delivers
<1>4. c \in Nat /\ ns \in Seq(Int) /\ Len(ns) = c /\ \A i \in 1 .. c : ns[i] = run[i].n
  <2>1. Len(run) \in Nat /\ \A i \in 1 .. Len(run) : run[i] \in EarlyPacket
    BY <1>3, LenProperties, ElementOfSeq
  <2>2. \A i \in 1 .. Len(run) : run[i].n \in Int  BY <2>1 DEF EarlyPacket
  <2> QED  BY <2>1, <2>2, IsASeq
<1>5. /\ nWaited \in Nat /\ created \in Nat /\ NChunks \in Nat
      /\ created <= NChunks + 1 /\ created <= nWaited + MAX_BUFFER_SIZE
      /\ MAX_BUFFER_SIZE \in Nat /\ MAX_BUFFER_SIZE <= SeqSpace
      /\ SeqSpace \in Nat \ {0} /\ nWaited <= created
  <2>1. /\ created \in Nat /\ nWaited \in Nat /\ base \in Nat
        /\ base <= nWaited /\ nWaited <= created
        /\ created <= base + MAX_BUFFER_SIZE /\ created <= NChunks + 1
        /\ MAX_BUFFER_SIZE \in Nat \ {0} /\ NChunks \in Nat
        /\ SeqSpace \in Nat \ {0} /\ 2 * MAX_BUFFER_SIZE <= SeqSpace
    BY Counts
  <2> QED  BY ONLY <2>1
<1>6. next = ToUint8(nWaited + c)
  BY <1>2, <1>4, <1>5, PlusRemainder DEF ReceiverInv
<1> HIDE DEF c, ns
<1>7. last \in BOOLEAN /\ step \in Nat /\ (last => step = 1) /\ (~ last => step = 0)
  OBVIOUS
<1>8. last => nWaited + c = NChunks /\ created = NChunks + 1
  <2> SUFFICES ASSUME last  PROVE nWaited + c = NChunks /\ created = NChunks + 1
    OBVIOUS
  <2>1. created = NChunks + 1 /\ finalSeqNum = ToUint8(NChunks)
    BY <1>2 DEF ReceiverInv
  <2>2. ToUint8(nWaited + c) = ToUint8(NChunks)  BY <1>1, <1>6, <2>1
  <2>3. /\ nWaited + c \in Int /\ nWaited + c - NChunks < SeqSpace
        /\ NChunks - (nWaited + c) < SeqSpace
    BY <1>3, <1>4, <1>5, <2>1
  <2> DEFINE x == nWaited + c
  <2> HIDE DEF x
  <2>4. x = NChunks
    <3>1. /\ x \in Int /\ ToUint8(x) = ToUint8(NChunks)
          /\ x - NChunks < SeqSpace /\ NChunks - x < SeqSpace
      BY <1>4, <1>5, <2>2, <2>3 DEF x
    <3> QED  BY ONLY <1>5, <3>1, SameRemainder
  <2> QED  BY <2>1, <2>4 DEF x
<1> HIDE DEF step
<1>9. waitedSeqNum' = ToUint8(nWaited')
  <2> DEFINE x == nWaited + c
  <2>1. x \in Int /\ step \in Int /\ nWaited' = x + step
    BY ONLY <1>1, <1>4, <1>5, <1>7
  <2>2. next = ToUint8(x) /\ waitedSeqNum' = Plus(next, step)  BY <1>1, <1>6
  <2> HIDE DEF next, x
  <2>3. Plus(ToUint8(x), step) = ToUint8(x + step)
    BY ONLY <2>1, PlusRemainder
  <2> QED  BY <2>1, <2>2, <2>3
<1> HIDE DEF next
<1>10. nWaited' \in Nat /\ nWaited <= nWaited' /\ nWaited' <= created
  BY <1>1, <1>3, <1>4, <1>5, <1>7, <1>8
<1>11. last => AtEnd'  BY <1>1, <1>7, <1>8 DEF AtEnd
<1>12. /\ SenderInv'
       /\ \A d \in data' : d.length # GARBAGE => Genuine(d, created')
       /\ \A a \in acks' : Truthful(a, created', nWaited')
       /\ sIn'.status = "ok" =>
             /\ Truthful(sIn'.pkt, created', nWaited')
             /\ base' - sIn'.pkt.n <= MaxLag
       /\ base' = base
  <2>1. data' \subseteq data /\ \A a \in acks' : a \in acks  BY <1>1
  <2> QED  BY <1>1, <1>10, <2>1, SenderSideStays
<1>13. ReceiverInv'
  <2>1. base' <= nWaited' /\ nWaited' <= created'
    BY <1>1, <1>5, <1>10, <1>12, Counts
  <2>2. ASSUME NEW i \in 1 .. Len(rest)
        PROVE  nWaited' < rest[i].n /\ Genuine(rest[i], created)
    <3>1. /\ nWaited + c < rest[i].n /\ rest[i].n < NChunks
          /\ Genuine(rest[i], created)
      BY <1>3
    <3>2. rest[i].n \in Int
      <4>1. rest[i] \in EarlyPacket  BY <1>3, ElementOfSeq
      <4> QED  BY <4>1 DEF EarlyPacket
    <3>3. nWaited' = nWaited + c + step  BY <1>1
    <3> QED  BY ONLY <1>4, <1>5, <1>7, <1>8, <3>1, <3>2, <3>3
  <2>3. \A i, j \in 1 .. Len(rest) : i < j => rest[i].n < rest[j].n
    BY <1>3 DEF Ordered
  <2> QED  BY <1>1, <1>2, <1>9, <2>1, <2>2, <2>3 DEF ReceiverInv
<1>14. WrittenInv'
  <2>1. /\ written \in Seq(Nat) /\ Len(written) = nWaited
        /\ \A i \in 1 .. nWaited : written[i] = i - 1
    <3>1. ~ AtEnd  BY <1>3, <1>4, <1>5 DEF AtEnd
    <3> QED  BY <1>2, <3>1, Numbers DEF WrittenInv
  <2>2. /\ Len(written') = nWaited + c
        /\ \A i \in 1 .. nWaited + c :
             written'[i] = IF i <= nWaited THEN written[i] ELSE ns[i - nWaited]
    <3>1. written \in Seq(Int)  BY <2>1, LenProperties, ElementOfSeq, IsASeq
    <3>2. /\ Len(written \o ns) = Len(written) + Len(ns)
          /\ \A i \in 1 .. Len(written) + Len(ns) :
               (written \o ns)[i] = IF i <= Len(written) THEN written[i]
                                    ELSE ns[i - Len(written)]
      BY <1>4, <3>1, ConcatProperties
    <3> QED  BY <1>1, <1>4, <2>1, <3>2
  <2>3. ASSUME NEW i \in 1 .. nWaited + c  PROVE written'[i] = i - 1
    <3>1. CASE i <= nWaited
      <4>1. i \in 1 .. nWaited  BY <1>4, <1>5, <3>1
      <4> QED  BY <2>1, <2>2, <3>1, <4>1
    <3>2. CASE ~ (i <= nWaited)
      <4>1. i - nWaited \in 1 .. c /\ nWaited + (i - nWaited) - 1 = i - 1
        BY <1>4, <1>5, <3>2
      <4>2. ns[i - nWaited] = nWaited + (i - nWaited) - 1  BY <1>3, <1>4, <4>1
      <4> QED  BY <2>2, <3>2, <4>1, <4>2
    <3> QED  BY <3>1, <3>2
  <2>4. Len(written') = IF AtEnd' THEN NChunks ELSE nWaited'
    BY <1>1, <1>3, <1>4, <1>5, <1>7, <1>8, <2>2 DEF AtEnd
  <2> QED  BY <2>2, <2>3, <2>4 DEF WrittenInv
<1>15. DataInv'  BY <1>1, <1>12 DEF DataInv, NoInput
<1>16. ReplyInv'
  <2>1. \/ ackQueue' = ackQueue
        \/ Reply("ACK", ToUint8(nWaited'), nWaited', last)
    BY <1>1, <1>9
  <2>2. \A i \in 1 .. Len(ackQueue') :
           /\ Truthful(ackQueue'[i], created, nWaited')
           /\ ackQueue'[i].trFlag => last \/ AtEnd
    BY <1>7, <1>10, <2>1, ReplySafety
  <2>3. AtEnd => AtEnd'  BY <1>5, <1>10 DEF AtEnd
  <2> QED  BY <1>1, <1>11, <1>12, <2>2, <2>3 DEF ReplyInv
<1> QED  BY <1>12, <1>13, <1>14, <1>15, <1>16 DEF SafetyInv

LEMMA ReadPayloadSafety ==
  ASSUME Timely, TypeOK, TypeOK', SafetyInv, UNCHANGED senderVars, RReadPayload
  PROVE  SafetyInv'
<1> DEFINE last == Ends(InOrder(PushArrived))
<1>1. /\ rIn.status = "ok" /\ Accepts(rIn.pkt) /\ rIn.pkt.length # EOF_LENGTH
      /\ rIn' = NoInput /\ rpc' = "poll"
      /\ UNCHANGED <<data, acks, sIn, created, finalSeqNum, isFinalSeqNum>>
      /\ pktQueue' = Rest /\ WriteRun(Run)
      /\ waitedSeqNum' = Plus(Plus(waitedSeqNum, Len(Run)),
                              IF last THEN 1 ELSE 0)
      /\ nWaited' = nWaited + Len(Run) + (IF last THEN 1 ELSE 0)
      /\ Reply("ACK", waitedSeqNum', nWaited', last)
      /\ last => isFinalSeqNum /\ Plus(waitedSeqNum, Len(Run)) = finalSeqNum
  BY DEF RReadPayload, PayloadArrives, InOrder, Ends, PushArrived,
         RReadSocket, ReadThen, Pushed, Out, Run, Rest
<1>2. /\ Run \in Seq(EarlyPacket) /\ Rest \in Seq(EarlyPacket)
      /\ Delivers(Run, Rest)
  BY <1>1, PayloadMeaning DEF Delivers
<1>3. last \in BOOLEAN  BY DEF Ends, TypeOK, ReceiverTypeOK
<1> HIDE DEF last
<1> QED  BY <1>1, <1>2, <1>3, PayloadSafety

-----------------------------------------------------------------------------
(* The reply at the head of the queue goes out. *)
LEMMA WriteSafety ==
  ASSUME Timely, TypeOK, TypeOK', SafetyInv, UNCHANGED senderVars,
         NEW stage \in {"poll", "read"}, WriteThen(stage)
  PROVE  SafetyInv'
<1> DEFINE ack  == Head(ackQueue)
           sent == [type |-> ack.type, seqNum |-> ack.seqNum,
                    window |-> ack.window, n |-> ack.n]
<1>1. /\ acks' \in Sent(acks, sent) /\ ackQueue' = Tail(ackQueue)
      /\ rpc' = "final" => ack.trFlag
      /\ UNCHANGED <<data, rIn, sIn, created>> /\ Unmoved
  BY DEF WriteThen, Unmoved
<1>2. ReplyInv /\ DataInv  BY DEF SafetyInv
<1>3. ackQueue \in Seq(QueuedAck) /\ ackQueue # << >> /\ Len(ackQueue) \in Nat
  BY Numbers DEF WriteThen, TypeOK, ReceiverTypeOK
<1>4. /\ Len(ackQueue) >= 1 /\ ack = ackQueue[1]
      /\ Len(ackQueue') = Len(ackQueue) - 1
      /\ \A i \in 1 .. Len(ackQueue') : ackQueue'[i] = ackQueue[i + 1]
  BY <1>1, <1>3, HeadTailProperties
<1>5. Truthful(ack, created, nWaited) /\ (ack.trFlag => AtEnd)
  BY <1>2, <1>3, <1>4 DEF ReplyInv
<1>6. Truthful(sent, created, nWaited)  BY <1>5 DEF Truthful
<1> HIDE DEF ack, sent
<1>7. \A a \in acks' : a \in acks \/ Truthful(a, created, nWaited)
  <2>1. acks' \subseteq acks \cup {sent}  BY <1>1, SentSubset
  <2> QED  BY <1>6, <2>1
<1>8. \A i \in 1 .. Len(ackQueue') :
         /\ Truthful(ackQueue'[i], created, nWaited)
         /\ ackQueue'[i].trFlag => AtEnd
  <2>1. \A i \in 1 .. Len(ackQueue') : i + 1 \in 1 .. Len(ackQueue)
    BY <1>3, <1>4
  <2> QED  BY <1>2, <1>4, <2>1 DEF ReplyInv
<1>9. /\ created' = created /\ sIn' = sIn /\ data' \subseteq data
      /\ rIn'.status \in {"ok", "tr"} =>
            Genuine(rIn'.pkt, created) /\ nWaited - rIn'.pkt.n <= MaxLag
      /\ rpc' = "final" => AtEnd /\ Unmoved
  BY <1>1, <1>2, <1>5 DEF DataInv
<1>10. Unmoved  BY <1>1
<1> QED  BY <1>7, <1>8, <1>9, <1>10, UnmovedSafety

(* A datagram that delivers nothing is answered. *)
LEMMA AnswerSafety ==
  ASSUME Timely, TypeOK, TypeOK', SafetyInv, UNCHANGED senderVars,
         RReadSocket, Unmoved, NEW type \in {"ACK", "NACK"}, NEW count \in Nat,
         Reply(type, ToUint8(count), count, FALSE),
         type = "NACK" => count < created, type = "ACK" => count <= nWaited
  PROVE  SafetyInv'
<1>1. /\ created' = created /\ sIn' = sIn /\ data' = data /\ acks' = acks
      /\ rIn' = NoInput /\ rpc' = "poll"
  BY DEF RReadSocket, ReadThen
<1>2. \A i \in 1 .. Len(ackQueue') :
         /\ Truthful(ackQueue'[i], created, nWaited)
         /\ ackQueue'[i].trFlag => AtEnd
  <2>1. nWaited \in Nat /\ nWaited <= nWaited /\ FALSE \in BOOLEAN  BY Numbers
  <2> QED  BY <2>1, ReplySafety
<1>3. ~ (rIn'.status \in {"ok", "tr"})  BY <1>1 DEF NoInput
<1> QED  BY <1>1, <1>2, <1>3, UnmovedSafety

(* Every step of the receiver keeps the invariant. *)
LEMMA ReceiverStepSafety ==
  ASSUME Timely, TypeOK, TypeOK', SafetyInv, ReceiverNext, UNCHANGED senderVars
  PROVE  SafetyInv'
<1>1. ReceiverInv /\ DataInv /\ ReplyInv  BY DEF SafetyInv
<1>2. waitedSeqNum = ToUint8(nWaited) /\ nWaited \in Nat /\ nWaited <= nWaited
  BY <1>1, Numbers DEF ReceiverInv
<1>3. ASSUME UNCHANGED <<acks, sIn, created, ackQueue>>, Unmoved, rpc' # "final",
             ArriveAtReceiver
      PROVE  SafetyInv'
  <2>1. /\ data' \subseteq data
        /\ rIn'.status \in {"ok", "tr"} =>
              Genuine(rIn'.pkt, created) /\ nWaited - rIn'.pkt.n <= MaxLag
    BY <1>3, ArrivedAtReceiver
  <2>2. \A i \in 1 .. Len(ackQueue') :
           /\ Truthful(ackQueue'[i], created, nWaited)
           /\ ackQueue'[i].trFlag => AtEnd
    BY <1>1, <1>3 DEF ReplyInv
  <2> QED  BY <1>3, <2>1, <2>2, UnmovedSafety
<1>4. CASE RConnect
  <2>1. /\ UNCHANGED <<acks, sIn, created, ackQueue>> /\ Unmoved
        /\ rpc' # "final" /\ ArriveAtReceiver
    BY <1>4 DEF RConnect, Unmoved
  <2> QED  BY <1>3, <2>1
<1>5. CASE RTimeout
  <2>1. /\ UNCHANGED <<acks, sIn, created, ackQueue>> /\ Unmoved
        /\ rpc' # "final" /\ ArriveAtReceiver
    BY <1>5 DEF RTimeout, Unmoved, linkVars, ArriveAtReceiver
  <2> QED  BY <1>3, <2>1
<1>6. CASE RPoll
  <2>1. /\ UNCHANGED <<acks, sIn, created, ackQueue>> /\ Unmoved
        /\ rpc' # "final" /\ ArriveAtReceiver
    BY <1>6 DEF RPoll, Unmoved, AfterWrite
  <2> QED  BY <1>3, <2>1
<1>7. CASE RWrite
  <2>1. AfterWrite(rIn) \in {"poll", "read"}  BY DEF AfterWrite
  <2> QED  BY <1>7, <2>1, WriteSafety DEF RWrite
<1>8. CASE RReadInvalid
  <2>1. RReadSocket /\ Unmoved /\ Reply("ACK", ToUint8(nWaited), nWaited, FALSE)
    BY <1>2, <1>8 DEF RReadInvalid
  <2> QED  BY <1>2, <2>1, AnswerSafety
<1>9. CASE RReadTruncated
  <2>1. /\ RReadSocket /\ Unmoved /\ rIn.status = "tr"
        /\ Reply("NACK", rIn.pkt.seqNum, rIn.pkt.n, FALSE)
    BY <1>9 DEF RReadTruncated
  <2>2. /\ rIn.pkt.n \in Nat /\ rIn.pkt.seqNum = ToUint8(rIn.pkt.n)
        /\ rIn.pkt.n < created
    BY <1>1, <2>1, Inputs DEF DataInv, Genuine
  <2>3. Reply("NACK", ToUint8(rIn.pkt.n), rIn.pkt.n, FALSE)  BY <2>1, <2>2
  <2> QED  BY <2>1, <2>2, <2>3, AnswerSafety
<1>10. CASE RReadOutside
  <2>1. RReadSocket /\ Unmoved /\ Reply("ACK", ToUint8(nWaited), nWaited, FALSE)
    BY <1>2, <1>10 DEF RReadOutside
  <2> QED  BY <1>2, <2>1, AnswerSafety
<1>11. CASE RReadEof  BY <1>11, EofSafety DEF RReadEof
<1>12. CASE RReadPayload  BY <1>12, ReadPayloadSafety
<1> QED
  BY <1>4, <1>5, <1>6, <1>7, <1>8, <1>9, <1>10, <1>11, <1>12 DEF ReceiverNext

(* The invariant is inductive. *)
LEMMA StepSafety ==
  ASSUME Timely, TypeOK, TypeOK', SafetyInv, [Next]_vars
  PROVE  SafetyInv'
<1>1. CASE SenderNext /\ UNCHANGED receiverVars  BY <1>1, SenderStepSafety
<1>2. CASE ReceiverNext /\ UNCHANGED senderVars  BY <1>2, ReceiverStepSafety
<1>3. CASE Tick  BY <1>3, TickSafety
<1>4. CASE UNCHANGED vars
  <2>1. /\ UNCHANGED linkVars /\ UNCHANGED senderVars /\ UNCHANGED receiverVars
    BY <1>4 DEF vars
  <2>2. SenderInv'
    BY <2>1 DEF linkVars, senderVars, receiverVars, SafetyInv, SenderInv, base,
                AtEnd
  <2>3. ReceiverInv' /\ WrittenInv'
    BY <2>1 DEF linkVars, senderVars, receiverVars, SafetyInv, ReceiverInv,
                WrittenInv, base, AtEnd
  <2>4. DataInv' /\ ReplyInv'
    BY <2>1 DEF linkVars, senderVars, receiverVars, SafetyInv, DataInv, ReplyInv,
                base, AtEnd
  <2> QED  BY <2>2, <2>3, <2>4 DEF SafetyInv
<1> QED  BY <1>1, <1>2, <1>3, <1>4 DEF Next, Terminated

(* The invariant holds as long as no datagram outlives its number. *)
THEOREM Safety == ASSUME Timely PROVE Spec => [](TypeOK /\ SafetyInv)
<1>1. Init => TypeOK /\ SafetyInv  BY InitType, InitSafety
<1>2. TypeOK /\ SafetyInv /\ [Next]_vars => (TypeOK /\ SafetyInv)'
  BY StepType, StepSafety
<1> QED  BY <1>1, <1>2, PTL DEF Spec

-----------------------------------------------------------------------------
(***************************************************************************)
(* The safety properties, drawn from SafetyInv.                            *)
(***************************************************************************)
(* What is written is determined by how much is written. *)
LEMMA WrittenIsPrefix ==
  ASSUME TypeOK, SafetyInv
  PROVE  DeliveredPrefix
  BY DEF SafetyInv, WrittenInv, DeliveredPrefix

(* At the end all pieces are written, and nothing is left in the queue. *)
LEMMA EndIsComplete ==
  ASSUME Timely, TypeOK, SafetyInv, AtEnd
  PROVE  Len(written) = NChunks /\ pktQueue = << >>
<1>1. Len(written) = NChunks  BY DEF SafetyInv, WrittenInv
<1>2. pktQueue \in Seq(EarlyPacket) /\ Len(pktQueue) \in Nat  BY Numbers
<1>3. Len(pktQueue) = 0
  <2> SUFFICES ASSUME Len(pktQueue) # 0  PROVE FALSE  BY <1>2
  <2>1. 1 \in 1 .. Len(pktQueue)  BY <1>2
  <2>2. /\ nWaited < pktQueue[1].n /\ pktQueue[1].n < created
        /\ pktQueue[1].n \in Int
    BY <2>1, Numbers DEF SafetyInv, ReceiverInv, Genuine
  <2>3. created <= NChunks + 1 /\ nWaited = NChunks + 1
    BY Bounds DEF AtEnd
  <2>4. created \in Nat /\ NChunks \in Nat  BY Counts
  <2> QED  BY <2>2, <2>3, <2>4
<1> QED  BY <1>1, <1>2, <1>3, EmptySeq

(* Within a window, the distance of two sequence numbers is that of the    *)
(* absolute numbers.                                                       *)
LEMMA QueueDistance ==
  ASSUME Timely, TypeOK, SafetyInv, NEW i \in 1 .. Len(pktQueue)
  PROVE  /\ Minus(pktQueue[i].seqNum, waitedSeqNum) = pktQueue[i].n - nWaited
         /\ pktQueue[i].n - nWaited \in 1 .. MAX_BUFFER_SIZE - 1
<1> DEFINE n == pktQueue[i].n
<1>1. /\ n \in Int /\ nWaited < n /\ n < created
      /\ pktQueue[i].seqNum = ToUint8(n) /\ waitedSeqNum = ToUint8(nWaited)
  BY Numbers DEF SafetyInv, ReceiverInv, Genuine
<1> HIDE DEF n
<1>2. /\ nWaited \in Int /\ created \in Int /\ created <= nWaited + MAX_BUFFER_SIZE
      /\ MAX_BUFFER_SIZE \in Nat /\ MAX_BUFFER_SIZE <= SeqSpace /\ SeqSpace \in Nat
  BY Counts
<1>3. n - nWaited \in 1 .. MAX_BUFFER_SIZE - 1  BY <1>1, <1>2
<1>4. n - nWaited \in Uint8  BY <1>2, <1>3 DEF Uint8
<1>5. Minus(ToUint8(n), ToUint8(nWaited)) = ToUint8(n - nWaited)
  BY <1>1, <1>2, MinusRemainder
<1> QED  BY <1>1, <1>3, <1>4, <1>5, SmallNumber DEF n

-----------------------------------------------------------------------------
(* The file is written in order, without a gap or a repetition             *)
(* (queue_payload_write, receiver.c:153-212).                              *)
THEOREM Delivered == ASSUME Timely PROVE Spec => []DeliveredPrefix
<1>1. TypeOK /\ SafetyInv => DeliveredPrefix  BY WrittenIsPrefix
<1> QED  BY <1>1, Safety, PTL

(* The sender forgets a packet only when the receiver has moved past it    *)
(* (queue_delete as called by sender.c:309-319).                           *)
THEOREM Remembered == ASSUME Timely PROVE Spec => []NoPrematureDelete
<1>1. TypeOK /\ SafetyInv => NoPrematureDelete
  BY DEF SafetyInv, ReceiverInv, NoPrematureDelete
<1> QED  BY <1>1, Safety, PTL

(* The sender, whose view of the window comes from the last ACK it read,   *)
(* stays within the window of the receiver (sender.c:109, 284).            *)
THEOREM Windowed == ASSUME Timely PROVE Spec => []WithinReceiverWindow
<1>1. TypeOK /\ SafetyInv => WithinReceiverWindow
  <2> SUFFICES ASSUME TypeOK, SafetyInv  PROVE WithinReceiverWindow  OBVIOUS
  <2> QED  BY Counts DEF WithinReceiverWindow
<1> QED  BY <1>1, Safety, PTL

(* The receiver keeps its early packets in the order of delivery           *)
(* (queue_ordered_push), on both sides of the wrap.                        *)
THEOREM Ordering == ASSUME Timely PROVE Spec => []QueueOrdered
<1>1. TypeOK /\ SafetyInv => QueueOrdered
  <2> SUFFICES ASSUME TypeOK, SafetyInv  PROVE QueueOrdered  OBVIOUS
  <2>1. ASSUME NEW i \in 1 .. Len(pktQueue), NEW j \in 1 .. Len(pktQueue), i < j
        PROVE  Minus(pktQueue[i].seqNum, waitedSeqNum)
                 < Minus(pktQueue[j].seqNum, waitedSeqNum)
    <3>1. pktQueue[i].n < pktQueue[j].n  BY <2>1 DEF SafetyInv, ReceiverInv
    <3>2. pktQueue[i].n \in Int /\ pktQueue[j].n \in Int /\ nWaited \in Int
      BY Numbers
    <3>3. pktQueue[i].n - nWaited < pktQueue[j].n - nWaited  BY <3>1, <3>2
    <3> QED  BY <3>3, QueueDistance
  <2>2. \A i \in 1 .. Len(pktQueue) :
           Minus(pktQueue[i].seqNum, waitedSeqNum) \in 1 .. MAX_BUFFER_SIZE - 1
    BY QueueDistance
  <2> QED  BY <2>1, <2>2 DEF QueueOrdered
<1> QED  BY <1>1, Safety, PTL

(* When the sender ends because a reply carries its next number            *)
(* (sender.c:274), the file is complete.                                   *)
THEOREM SenderSuccess == ASSUME Timely PROVE Spec => []AckedMeansDelivered
<1>1. TypeOK /\ SafetyInv => AckedMeansDelivered
  BY EndIsComplete DEF SafetyInv, SenderInv, AckedMeansDelivered
<1> QED  BY <1>1, Safety, PTL

(* When the receiver ends after its last ACK (receiver.c:86-93), the file  *)
(* is complete and no packet is kept.                                      *)
THEOREM ReceiverSuccess == ASSUME Timely PROVE Spec => []FinalMeansComplete
<1>1. TypeOK /\ SafetyInv => FinalMeansComplete
  BY EndIsComplete DEF SafetyInv, ReceiverInv, FinalMeansComplete
<1> QED  BY <1>1, Safety, PTL

(* An ACK is marked as the last one, on either of the two paths of         *)
(* receiver.c:160-207, only when the file is complete.                     *)
THEOREM LastAck == ASSUME Timely PROVE Spec => []LastAckMeansComplete
<1>1. TypeOK /\ SafetyInv => LastAckMeansComplete
  BY EndIsComplete DEF SafetyInv, ReplyInv, LastAckMeansComplete
<1> QED  BY <1>1, Safety, PTL

-----------------------------------------------------------------------------
(* An ACK deletes the packets it was written about, and nothing else does. *)
LEMMA DeleteStep ==
  ASSUME Timely, TypeOK, SafetyInv, [Next]_vars, base' # base
  PROVE  /\ sIn.status = "ok" /\ sIn.pkt.type = "ACK" /\ base' = sIn.pkt.n
         /\ SReadAck
<1>1. buf \in Seq(QueuedPacket) /\ Len(buf) \in Nat /\ created \in Nat
  BY Numbers
<1>2. base = created - Len(buf) /\ base' = created' - Len(buf')  BY DEF base
<1>3. ~ (created' = created /\ Len(buf') = Len(buf))  BY <1>2
<1>4. ASSUME NEW d, Number(d), buf' = Append(buf, Queued(d))  PROVE FALSE
  <2>1. created' = created + 1  BY <1>4 DEF Number
  <2>2. Len(buf') = Len(buf) + 1  BY <1>1, <1>4
  <2> QED  BY <1>1, <1>2, <2>1, <2>2
<1>5. ~ Tick
  <2> SUFFICES ASSUME Tick  PROVE FALSE  OBVIOUS
  <2>1. Len(buf') = Len(buf)  BY <1>1 DEF Tick, Aged
  <2> QED  BY <1>3, <2>1 DEF Tick, linkVars
<1>6. ~ UNCHANGED senderVars \/ created' # created
  BY <1>3 DEF senderVars
<1>7. SenderNext
  <2>1. ReceiverNext => created' = created
    BY DEF ReceiverNext, RConnect, RTimeout, RPoll, RWrite, WriteThen,
           RReadInvalid, RReadTruncated, RReadOutside, RReadEof, EofArrives,
           RReadPayload, PayloadArrives, InOrder, Ends, WriteRun, PushArrived,
           RReadSocket, ReadThen, linkVars
  <2>2. UNCHANGED vars => UNCHANGED senderVars /\ created' = created
    BY DEF vars, linkVars
  <2> QED  BY <1>5, <1>6, <2>1, <2>2 DEF Next, Terminated
<1>8. ~ (SSendData \/ SSendEof)  BY <1>4 DEF SSendData, SSendEof, queue_push
<1>9. ~ SReadFails
  BY TimelyConstants DEF SReadFails, TypeOK, SenderTypeOK
<1>10. ASSUME NEW i \in 1 .. Len(buf), SResend(i)  PROVE FALSE
  <2>1. Len(buf') = Len(buf)  BY <1>1, <1>10 DEF SResend
  <2> QED  BY <1>3, <1>10, <2>1 DEF SResend
<1>11. ~ SReadNack
  <2> SUFFICES ASSUME SReadNack  PROVE FALSE  OBVIOUS
  <2>1. Len(buf') = Len(buf)  BY <1>1, NackNumbers DEF SReadNack, OnNack
  <2> QED  BY <1>3, <2>1 DEF SReadNack, OnNack, ReadSocket
<1>12. ~ (STimeout \/ SPoll \/ SNoResend \/ SReadBad \/ SReadFinal)
  BY <1>3 DEF STimeout, SPoll, SNoResend, SReadBad, OnBad, SReadFinal, OnFinal,
              ReadSocket, linkVars
<1>13. SReadAck
  BY <1>7, <1>8, <1>9, <1>10, <1>11, <1>12 DEF SenderNext
<1>14. /\ sIn.status = "ok" /\ sIn.pkt.type = "ACK" /\ created' = created
       /\ buf' # buf
       /\ buf # << >> /\ buf' = Acknowledged(sIn.pkt)
  BY <1>3, <1>13 DEF SReadAck, OnAck, ReadSocket
<1> DEFINE n == sIn.pkt.n
           k == n - base
<1>15. n <= nWaited /\ base < n /\ buf' = SubSeq(buf, k + 1, Len(buf))
  <2>1. /\ sIn.pkt \in AckPacket /\ Truthful(sIn.pkt, created, nWaited)
        /\ base - sIn.pkt.n <= MaxLag
    BY <1>14, Inputs DEF SafetyInv, ReplyInv
  <2> QED  BY <1>14, <2>1, AckMeaning
<1>16. n \in Int /\ base \in Int  BY <1>14, Inputs, Numbers
<1> HIDE DEF n
<1>17. k \in 1 .. Len(buf)
  <2>1. Len(buf) \in Nat /\ nWaited \in Nat  BY Numbers
  <2>2. nWaited <= created /\ created = base + Len(buf)  BY Bounds
  <2> QED  BY <1>15, <1>16, <2>1, <2>2 DEF k
<1> HIDE DEF k
<1>18. Len(buf') = Len(buf) - k
  <2>1. k + 1 \in Nat \ {0} /\ Len(buf) \in 0 .. Len(buf)  BY <1>1, <1>17
  <2>2. Len(buf') = IF k + 1 <= Len(buf) THEN Len(buf) - (k + 1) + 1 ELSE 0
    BY <1>1, <1>15, <2>1, Piece
  <2> QED  BY <1>1, <1>17, <2>2
<1>19. base' = base + k  BY <1>1, <1>2, <1>14, <1>17, <1>18
<1> QED  BY <1>13, <1>14, <1>16, <1>19 DEF k, n

(* An ACK deletes the packets it was written about, and nothing else does  *)
(* (sender.c:280-323).                                                     *)
THEOREM Meant == ASSUME Timely PROVE Spec => DeletesWhatWasMeant
<1>1. TypeOK /\ SafetyInv /\ [Next]_vars =>
        [base' # base => /\ sIn.status = "ok" /\ sIn.pkt.type = "ACK"
                         /\ base' = sIn.pkt.n]_vars
  BY DeleteStep
<1> QED  BY <1>1, Safety, PTL DEF Spec, DeletesWhatWasMeant

-----------------------------------------------------------------------------
(* An ACK moves the beginning of the sender's queue to where it says, or   *)
(* it says nothing new.                                                    *)
LEMMA AckMoves ==
  ASSUME Timely, TypeOK, SafetyInv, NEW in, in.pkt \in AckPacket, OnAck(in),
         Truthful(in.pkt, created, nWaited), base - in.pkt.n <= MaxLag,
         created' = created
  PROVE  IF base < in.pkt.n THEN base' = in.pkt.n
         ELSE buf' = buf /\ base' = base
<1> DEFINE n == in.pkt.n
           s == Minus(in.pkt.seqNum, 1)
<1>1. /\ buf \in Seq(QueuedPacket) /\ Len(buf) \in Nat /\ base \in Int
      /\ created \in Nat /\ nWaited \in Nat
  BY Numbers
<1>2. /\ n \in Int /\ in.pkt.type = "ACK" /\ in.pkt.seqNum = ToUint8(n)
      /\ n <= nWaited
  BY DEF AckPacket, OnAck, Truthful
<1>3. created = base + Len(buf) /\ nWaited <= created  BY Bounds
<1>4. /\ firstAck /\ ~ queue_find_ack(buf, s) => buf' = buf
      /\ ~ (firstAck /\ ~ queue_find_ack(buf, s)) =>
            buf' = IF buf = << >> THEN buf ELSE Acknowledged(in.pkt)
  BY DEF OnAck
<1>5. base' = created - Len(buf')  BY DEF base
<1>6. ASSUME buf' = buf  PROVE base' = base
  BY <1>5, <1>6 DEF base
<1> HIDE DEF n
<1>7. ASSUME base < n
      PROVE  queue_find_ack(buf, s) /\ buf # << >>
  <2>1. n - base \in 1 .. Len(buf) /\ base + (n - base) - 1 = n - 1
    BY <1>1, <1>2, <1>3, <1>7
  <2>2. FindIndex(buf, ToUint8(base + (n - base) - 1)) = n - base
    BY <2>1, FindPosition
  <2>3. s = ToUint8(n - 1)  BY <1>2, MinusConstant
  <2>4. FindIndex(buf, s) # 0  BY <1>1, <2>1, <2>2, <2>3
  <2>5. buf # << >>  BY <1>1, <2>1
  <2> QED  BY <2>4, <2>5 DEF queue_find_ack
<1>8. ASSUME buf # << >>
      PROVE  Acknowledged(in.pkt) =
               IF base < n THEN SubSeq(buf, n - base + 1, Len(buf)) ELSE buf
  BY <1>2, <1>8, AckMeaning DEF n
<1>9. CASE base < n
  <2>1. buf' = SubSeq(buf, n - base + 1, Len(buf))
    BY <1>4, <1>7, <1>8, <1>9
  <2> DEFINE k == n - base
  <2>2. k \in 1 .. Len(buf)  BY <1>1, <1>2, <1>3, <1>9
  <2>3. Len(buf') = Len(buf) - k
    <3> HIDE DEF k
    <3>1. k + 1 \in Nat \ {0} /\ Len(buf) \in 0 .. Len(buf)  BY <1>1, <2>2
    <3>2. buf' = SubSeq(buf, k + 1, Len(buf))  BY <2>1 DEF k
    <3>3. Len(buf') = IF k + 1 <= Len(buf) THEN Len(buf) - (k + 1) + 1 ELSE 0
      BY <1>1, <3>1, <3>2, Piece
    <3> QED  BY <1>1, <2>2, <3>3
  <2>4. base' = n  BY <1>1, <1>2, <1>3, <1>5, <2>2, <2>3
  <2> QED  BY <1>9, <2>4 DEF n
<1>10. CASE ~ (base < n)
  <2>1. buf' = buf  BY <1>4, <1>8, <1>10
  <2> QED  BY <1>6, <1>10, <2>1 DEF n
<1> QED  BY <1>9, <1>10

(* A sender that may read a reply keeps a packet the reply may be about.   *)
QueueFilled ==
  /\ spc # "crashed"
  /\ spc # "acked" /\ (isLastAckNum \/ spc \in {"scan", "read"}) =>
        buf # << >>

(* When the socket can always be written, the queue is filled before a     *)
(* reply is read, and an ACK that does not end the program leaves a packet *)
(* of it once the last one is sent.                                        *)
LEMMA FilledStep ==
  ASSUME Timely, MayBlock = FALSE, TypeOK, SafetyInv, QueueFilled, [Next]_vars
  PROVE  QueueFilled'
<1>1. /\ buf \in Seq(QueuedPacket) /\ Len(buf) \in Nat /\ created \in Nat
      /\ nWaited \in Nat /\ base \in Int
  BY Numbers
<1>2. size_buffer \in Nat /\ size_buffer >= 1
  BY TimelyConstants DEF TypeOK, SenderTypeOK
<1>3. ASSUME Len(buf') = Len(buf), buf # << >>  PROVE buf' # << >>
  BY <1>1, <1>3, EmptySeq
<1>4. ASSUME UNCHANGED <<spc, isLastAckNum>>, Len(buf') = Len(buf)
      PROVE  QueueFilled'
  BY <1>3, <1>4 DEF QueueFilled
<1>5. CASE UNCHANGED senderVars  BY <1>4, <1>5 DEF senderVars
<1>6. CASE Tick
  <2>1. Len(buf') = Len(buf)  BY <1>1, <1>6 DEF Tick, Aged
  <2> QED  BY <1>4, <1>6, <2>1 DEF Tick
<1>7. CASE STimeout
  BY <1>7 DEF STimeout, QueueFilled
<1>8. CASE SPoll
  <2>1. /\ buf' = buf /\ isLastAckNum' = isLastAckNum /\ spc = "poll"
        /\ spc' \in {"write", "scan"}
        /\ spc' = "scan" => ~ CanSend
    BY <1>8 DEF SPoll
  <2>2. ASSUME ~ CanSend, ~ isLastAckNum  PROVE buf # << >>
    <3>1. ~ (Len(buf) < size_buffer)  BY <2>2 DEF CanSend
    <3>2. Len(buf) # 0  BY <1>1, <1>2, <3>1
    <3> QED  BY <3>2
  <2> QED  BY <2>1, <2>2 DEF QueueFilled
<1>9. CASE SSendData \/ SSendEof
  <2>1. PICK e : buf' = Append(buf, e)
    BY <1>9 DEF SSendData, SSendEof, queue_push
  <2>2. Len(buf') = Len(buf) + 1  BY <1>1, <2>1
  <2>3. buf' # << >>  BY <1>1, <2>2
  <2>4. spc' \in {"scan", "poll"}  BY <1>9 DEF SSendData, SSendEof
  <2> QED  BY <2>3, <2>4 DEF QueueFilled
<1>10. ~ SReadFails
  BY TimelyConstants DEF SReadFails, TypeOK, SenderTypeOK
<1>11. ASSUME NEW i \in 1 .. Len(buf), SResend(i)  PROVE QueueFilled'
  <2>1. Len(buf') = Len(buf) /\ spc = "scan"  BY <1>1, <1>11 DEF SResend
  <2>2. buf' # << >>  BY <1>3, <2>1 DEF QueueFilled
  <2> QED  BY <1>11, <2>2 DEF SResend, AfterScan, QueueFilled
<1>12. CASE SNoResend
  <2>1. buf' = buf /\ spc = "scan" /\ spc' \in {"poll", "read"}
    BY <1>12 DEF SNoResend, AfterScan
  <2> QED  BY <2>1 DEF QueueFilled
<1>13. CASE SReadBad \/ SReadFinal
  BY <1>13 DEF SReadBad, OnBad, SReadFinal, OnFinal, ReadSocket, QueueFilled
<1>14. CASE SReadNack
  <2>1. Len(buf') = Len(buf)  BY <1>1, <1>14, NackNumbers DEF SReadNack, OnNack
  <2>2. spc = "read" /\ spc' = "poll"
    BY <1>14 DEF SReadNack, OnNack, ReadSocket
  <2>3. buf' # << >>  BY <1>3, <2>1, <2>2 DEF QueueFilled
  <2> QED  BY <2>2, <2>3 DEF QueueFilled
<1>15. CASE SReadAck
  <2> DEFINE n == sIn.pkt.n
  <2>1. /\ OnAck(sIn) /\ sIn.status = "ok" /\ spc = "read"
        /\ created' = created /\ isLastAckNum' = isLastAckNum
    BY <1>15 DEF SReadAck, OnAck, ReadSocket
  <2>2. buf # << >> /\ spc' = "poll"
    BY <2>1 DEF OnAck, QueueFilled
  <2>3. /\ sIn.pkt \in AckPacket /\ n \in Nat
        /\ Truthful(sIn.pkt, created, nWaited) /\ base - n <= MaxLag
    BY <2>1, Inputs DEF SafetyInv, ReplyInv
  <2>4. IF base < n THEN base' = n ELSE buf' = buf /\ base' = base
    BY <2>1, <2>3, AckMoves
  <2>5. CASE ~ (base < n)  BY <2>2, <2>4, <2>5 DEF QueueFilled
  <2>6. CASE base < n /\ isLastAckNum
    <3>1. sIn.pkt.seqNum = ToUint8(n) /\ n <= nWaited /\ nWaited <= created
      BY <2>1, <2>3, Counts DEF OnAck, Truthful
    <3>2. n # created
      BY <2>1, <2>6, <3>1 DEF OnAck, IsFinalAck, SafetyInv, SenderInv
    <3>3. base' = created - Len(buf')  BY <2>1 DEF base
    <3>4. buf' # << >>
      <4> SUFFICES ASSUME buf' = << >>  PROVE FALSE  OBVIOUS
      <4>1. base' = created  BY <1>1, <3>3
      <4> QED  BY <2>4, <2>6, <3>2, <4>1
    <3> QED  BY <2>2, <3>4 DEF QueueFilled
  <2>7. CASE ~ isLastAckNum  BY <2>1, <2>2, <2>7 DEF QueueFilled
  <2> QED  BY <2>5, <2>6, <2>7
<1> QED
  BY <1>5, <1>6, <1>7, <1>8, <1>9, <1>10, <1>11, <1>12, <1>13, <1>14, <1>15
  DEF Next, SenderNext, Terminated, vars

(* No ACK finds the queue of the sender empty (sender.c:311), as long as   *)
(* poll always says that the socket can be written: it takes a turn that   *)
(* reads and cannot write to bring the crash about.                        *)
THEOREM NoCrash ==
  ASSUME Timely, MayBlock = FALSE  PROVE Spec => []NeverCrashes
<1>1. Init => QueueFilled  BY DEF Init, SenderInit, QueueFilled
<1>2. TypeOK /\ SafetyInv /\ QueueFilled /\ [Next]_vars => QueueFilled'
  BY FilledStep
<1>3. QueueFilled => NeverCrashes  BY DEF QueueFilled, NeverCrashes
<1> QED  BY <1>1, <1>2, <1>3, Safety, PTL DEF Spec

-----------------------------------------------------------------------------
(* A reply is queued behind the others, which it leaves alone. *)
LEMMA ReplyQueued ==
  ASSUME TypeOK, NEW type \in {"ACK", "NACK"}, NEW seq \in Uint8,
         NEW count \in Nat, NEW last \in BOOLEAN,
         Reply(type, seq, count, last)
  PROVE  /\ Len(ackQueue') = Len(ackQueue) + 1
         /\ \A i \in 1 .. Len(ackQueue) : ackQueue'[i] = ackQueue[i]
         /\ ackQueue'[Len(ackQueue) + 1].trFlag = last
<1> DEFINE ack == [type |-> type, seqNum |-> seq, n |-> count,
                   window |-> MAX_BUFFER_SIZE, trFlag |-> last]
<1>1. ack \in QueuedAck /\ ack.trFlag = last  BY DEF QueuedAck
<1>2. ackQueue' = Append(ackQueue, ack)  BY DEF Reply
<1>3. ackQueue \in Seq(QueuedAck)  BY Numbers
<1> HIDE DEF ack
<1> QED  BY <1>1, <1>2, <1>3, AppendProperties

(* Past the end, the last ACK is queued or was sent: every step keeps that *)
LEMMA SignalStep ==
  ASSUME Timely, TypeOK, TypeOK', SafetyInv, EndIsSignalled, [Next]_vars
  PROVE  EndIsSignalled'
<1>1. /\ ackQueue \in Seq(QueuedAck) /\ Len(ackQueue) \in Nat
      /\ waitedSeqNum \in Uint8 /\ nWaited \in Nat /\ NChunks \in Nat
      /\ waitedSeqNum' \in Uint8 /\ nWaited' \in Nat
  BY Numbers, TimelyConstants DEF TypeOK, ReceiverTypeOK
<1>2. ASSUME UNCHANGED <<nWaited, ackQueue>>, rpc = "final" => rpc' = "final"
      PROVE  EndIsSignalled'
  BY <1>2 DEF EndIsSignalled
<1>3. ASSUME rpc # "final", NEW type \in {"ACK", "NACK"}, NEW seq \in Uint8,
             NEW count \in Nat, NEW last \in BOOLEAN,
             Reply(type, seq, count, last),
             nWaited' > NChunks => nWaited > NChunks \/ last
      PROVE  EndIsSignalled'
  <2>1. /\ Len(ackQueue') = Len(ackQueue) + 1
        /\ \A i \in 1 .. Len(ackQueue) : ackQueue'[i] = ackQueue[i]
        /\ ackQueue'[Len(ackQueue) + 1].trFlag = last
    BY <1>3, ReplyQueued
  <2>2. \A i \in 1 .. Len(ackQueue) : i \in 1 .. Len(ackQueue')  BY <1>1, <2>1
  <2>3. Len(ackQueue) + 1 \in 1 .. Len(ackQueue')  BY <1>1, <2>1
  <2> QED  BY <1>3, <2>1, <2>2, <2>3 DEF EndIsSignalled
<1>4. CASE SenderNext /\ UNCHANGED receiverVars
  BY <1>2, <1>4 DEF receiverVars
<1>5. CASE Tick  BY <1>2, <1>5 DEF Tick
<1>6. CASE UNCHANGED vars  BY <1>2, <1>6 DEF vars, receiverVars
<1>7. CASE RConnect \/ RTimeout \/ RPoll
  BY <1>2, <1>7 DEF RConnect, RTimeout, RPoll
<1>8. CASE RWrite
  <2>1. ackQueue # << >> /\ ackQueue' = Tail(ackQueue) /\ nWaited' = nWaited
    BY <1>8 DEF RWrite, WriteThen, TypeOK, ReceiverTypeOK
  <2>2. rpc # "final" /\ (Head(ackQueue).trFlag => rpc' = "final")
    BY <1>8 DEF RWrite, WriteThen
  <2>3. /\ Len(ackQueue) >= 1 /\ Head(ackQueue) = ackQueue[1]
        /\ Len(ackQueue') = Len(ackQueue) - 1
        /\ \A i \in 1 .. Len(ackQueue') : ackQueue'[i] = ackQueue[i + 1]
    BY <1>1, <2>1, HeadTailProperties
  <2> SUFFICES ASSUME nWaited > NChunks
               PROVE  rpc' = "final"
                        \/ \E i \in 1 .. Len(ackQueue') : ackQueue'[i].trFlag
    BY <2>1 DEF EndIsSignalled
  <2>4. PICK i \in 1 .. Len(ackQueue) : ackQueue[i].trFlag
    BY <2>2 DEF EndIsSignalled
  <2>5. CASE i = 1  BY <2>2, <2>3, <2>4, <2>5
  <2>6. CASE i # 1
    <3>1. i - 1 \in 1 .. Len(ackQueue') /\ (i - 1) + 1 = i
      BY <1>1, <2>3, <2>6
    <3> QED  BY <2>3, <2>4, <3>1
  <2> QED  BY <2>5, <2>6
<1>9. CASE RReadInvalid
  <2>1. /\ rpc # "final" /\ nWaited' = nWaited
        /\ Reply("ACK", waitedSeqNum, nWaited, FALSE)
    BY <1>9 DEF RReadInvalid, RReadSocket, ReadThen, Unmoved
  <2> QED  BY <1>1, <1>3, <2>1
<1>10. CASE RReadOutside
  <2>1. /\ rpc # "final" /\ nWaited' = nWaited
        /\ Reply("ACK", waitedSeqNum, nWaited, FALSE)
    BY <1>10 DEF RReadOutside, RReadSocket, ReadThen, Unmoved
  <2> QED  BY <1>1, <1>3, <2>1
<1>11. CASE RReadTruncated
  <2>1. /\ rpc # "final" /\ nWaited' = nWaited /\ rIn.status = "tr"
        /\ Reply("NACK", rIn.pkt.seqNum, rIn.pkt.n, FALSE)
    BY <1>11 DEF RReadTruncated, RReadSocket, ReadThen, Unmoved
  <2>2. rIn.pkt.seqNum \in Uint8 /\ rIn.pkt.n \in Nat
    BY <2>1, Inputs DEF ReadablePacket, DataPacket
  <2> QED  BY <1>3, <2>1, <2>2
<1>12. CASE RReadEof
  <2> DEFINE last == rIn.pkt.seqNum = waitedSeqNum
  <2>1. /\ rpc # "final" /\ nWaited' = nWaited + (IF last THEN 1 ELSE 0)
        /\ Reply("ACK", waitedSeqNum', nWaited', last)
    BY <1>12 DEF RReadEof, EofArrives, RReadSocket, ReadThen
  <2>2. last \in BOOLEAN  OBVIOUS
  <2> HIDE DEF last
  <2>3. nWaited' > NChunks => nWaited > NChunks \/ last  BY <1>1, <2>1
  <2> QED  BY <1>1, <1>3, <2>1, <2>2, <2>3
<1>13. CASE RReadPayload
  <2> DEFINE last == isFinalSeqNum
                       /\ Plus(waitedSeqNum, Len(Run)) = finalSeqNum
  <2>1. /\ rpc # "final" /\ rIn.status = "ok" /\ Accepts(rIn.pkt)
        /\ rIn.pkt.length # EOF_LENGTH
        /\ nWaited' = nWaited + Len(Run) + (IF last THEN 1 ELSE 0)
        /\ Reply("ACK", waitedSeqNum', nWaited', last)
    BY <1>13 DEF RReadPayload, PayloadArrives, InOrder, Ends, WriteRun,
                 PushArrived, RReadSocket, ReadThen, Pushed, Out, Run
  <2>2. last \in BOOLEAN  BY DEF TypeOK, ReceiverTypeOK
  <2> HIDE DEF last
  <2>3. Run \in Seq(EarlyPacket) /\ nWaited + Len(Run) <= NChunks
    BY <2>1, PayloadMeaning
  <2>4. Len(Run) \in Nat  BY <2>3, LenProperties
  <2>5. nWaited' > NChunks => nWaited > NChunks \/ last
    BY <1>1, <2>1, <2>3, <2>4
  <2> QED  BY <1>1, <1>3, <2>1, <2>2, <2>5
<1> QED
  BY <1>4, <1>5, <1>6, <1>7, <1>8, <1>9, <1>10, <1>11, <1>12, <1>13
  DEF Next, ReceiverNext, Terminated

(* A receiver that is past the end of the file has queued or sent its last *)
(* ACK (receiver.c:160-207).                                               *)
THEOREM Signalled == ASSUME Timely PROVE Spec => []EndIsSignalled
<1>1. Init => EndIsSignalled
  <2> SUFFICES ASSUME Init  PROVE EndIsSignalled  OBVIOUS
  <2>1. nWaited = 0  BY DEF Init, ReceiverInit
  <2> QED  BY <2>1, Constants DEF EndIsSignalled
<1>2. TypeOK /\ SafetyInv /\ EndIsSignalled /\ [Next]_vars
        /\ (TypeOK /\ SafetyInv)' => EndIsSignalled'
  BY SignalStep
<1> QED  BY <1>1, <1>2, Safety, PTL DEF Spec

-----------------------------------------------------------------------------
(***************************************************************************)
(* The two programs implement the file transfer.                           *)
(***************************************************************************)
(* A copy of the right length is the file. *)
LEMMA SameFile ==
  ASSUME Timely, TypeOK, SafetyInv, Len(written) = NChunks
  PROVE  FT!Complete
<1>1. written \in Seq(Nat) /\ NChunks \in Nat  BY Numbers, TimelyConstants
<1>2. FT!File \in Seq(Int) /\ Len(FT!File) = NChunks
      /\ \A i \in 1 .. NChunks : FT!File[i] = i - 1
  <2>1. FT!File = [i \in 1 .. NChunks |-> i - 1]  BY DEF FT!File
  <2> QED  BY <1>1, <2>1, IsASeq
<1>3. written \in Seq(Int) /\ \A i \in 1 .. Len(written) : written[i] = i - 1
  <2>1. \A i \in 1 .. Len(written) : written[i] = i - 1
    BY DEF SafetyInv, WrittenInv
  <2> QED  BY <1>1, <2>1, LenProperties, ElementOfSeq, IsASeq
<1>4. written = FT!File  BY <1>1, <1>2, <1>3, SeqEqual
<1> QED  BY <1>4 DEF FT!Complete

(* A step of the sender ends it or changes nothing that is promised. *)
LEMMA SenderImplements ==
  ASSUME Timely, TypeOK, TypeOK', SafetyInv, SafetyInv', SenderNext,
         UNCHANGED receiverVars
  PROVE  FT!Next \/ UNCHANGED <<written, SenderOutcome, ReceiverOutcome>>
<1>1. written' = written /\ ReceiverOutcome' = ReceiverOutcome
  BY DEF receiverVars, ReceiverOutcome
<1>2. spc \in {"poll", "write", "scan", "read"}
  BY DEF SenderNext, STimeout, SPoll, SSendData, SReadFails, SSendEof, SResend,
         SNoResend, SReadBad, OnBad, SReadFinal, OnFinal, SReadAck, OnAck,
         SReadNack, OnNack, ReadSocket
<1>3. SenderOutcome = "running"  BY <1>2 DEF SenderOutcome, SEnded
<1>4. spc' \in {"poll", "write", "scan", "read"} \cup SEnded
  BY DEF TypeOK, SenderTypeOK
<1>5. CASE spc' \in {"poll", "write", "scan", "read"}
  <2>1. SenderOutcome' = "running"  BY <1>5 DEF SenderOutcome, SEnded
  <2> QED  BY <1>1, <1>3, <2>1
<1>6. CASE spc' = "acked"
  <2>1. AtEnd  BY <1>6 DEF SafetyInv, SenderInv, receiverVars, AtEnd
  <2>2. FT!Complete  BY <2>1, EndIsComplete, SameFile
  <2>3. SenderOutcome' = "acked"  BY <1>6 DEF SenderOutcome
  <2> QED  BY <1>1, <1>3, <2>2, <2>3 DEF FT!Next, FT!SenderEnds
<1>7. CASE spc' \in {"timeout", "crashed"}
  <2>1. SenderOutcome' = "gaveup"  BY <1>7 DEF SenderOutcome, SEnded
  <2> QED  BY <1>1, <1>3, <2>1 DEF FT!Next, FT!SenderEnds
<1> QED  BY <1>4, <1>5, <1>6, <1>7 DEF SEnded

(* The delivery of payloads is a write to the copy. *)
LEMMA PayloadImplements ==
  ASSUME Timely, TypeOK, TypeOK', SafetyInv, SafetyInv', RReadPayload,
         UNCHANGED senderVars
  PROVE  FT!Next \/ UNCHANGED <<written, SenderOutcome, ReceiverOutcome>>
<1> DEFINE c  == Len(Run)
           ns == [i \in 1 .. Len(Run) |-> Run[i].n]
<1>1. /\ rIn.status = "ok" /\ Accepts(rIn.pkt) /\ rIn.pkt.length # EOF_LENGTH
      /\ rpc = "read" /\ rpc' = "poll" /\ written' = written \o ns
  BY DEF RReadPayload, PayloadArrives, InOrder, Ends, WriteRun, PushArrived,
         RReadSocket, ReadThen, Pushed, Out, Run
<1>2. /\ Run \in Seq(EarlyPacket) /\ nWaited + c <= NChunks
      /\ nWaited + c <= created
  BY <1>1, PayloadMeaning
<1>3. c \in Nat /\ ns \in Seq(Int) /\ Len(ns) = c
  <2>1. c \in Nat /\ \A i \in 1 .. c : Run[i] \in EarlyPacket
    BY <1>2, LenProperties, ElementOfSeq
  <2>2. \A i \in 1 .. c : Run[i].n \in Int  BY <2>1 DEF EarlyPacket
  <2> QED  BY <2>1, <2>2, IsASeq
<1>4. SenderOutcome' = SenderOutcome  BY DEF senderVars, SenderOutcome
<1>5. ReceiverOutcome = "running" /\ ReceiverOutcome' = "running"
  BY <1>1 DEF ReceiverOutcome
<1>6. /\ nWaited \in Nat /\ created \in Nat /\ NChunks \in Nat
      /\ MAX_BUFFER_SIZE \in Nat /\ created <= nWaited + MAX_BUFFER_SIZE
  BY Counts
<1> HIDE DEF c, ns
<1>7. written \in Seq(Int) /\ Len(written) = nWaited /\ written' \in Seq(Nat)
  <2>1. ~ AtEnd  BY <1>2, <1>3, <1>6 DEF AtEnd
  <2>2. written \in Seq(Nat) /\ written' \in Seq(Nat)
    BY DEF TypeOK, ReceiverTypeOK
  <2>3. written \in Seq(Int)  BY <2>2, LenProperties, ElementOfSeq, IsASeq
  <2> QED  BY <2>1, <2>2, <2>3 DEF SafetyInv, WrittenInv
<1>8. Len(written') = nWaited + c
  <2>1. Len(written \o ns) = Len(written) + Len(ns)
    BY <1>3, <1>7, ConcatProperties
  <2> QED  BY <1>1, <1>3, <1>7, <2>1
<1>9. CASE c = 0
  <2>1. ns = << >>  BY <1>3, <1>9, EmptySeq
  <2>2. written' = written  BY <1>1, <1>7, <2>1, ConcatEmptySeq
  <2> QED  BY <1>4, <1>5, <2>2
<1>10. CASE c # 0
  <2>1. c \in 1 .. MAX_BUFFER_SIZE /\ Len(written) + c <= NChunks
    BY <1>2, <1>3, <1>6, <1>7, <1>10
  <2>2. FT!File \in Seq(Int) /\ Len(FT!File) = NChunks
        /\ \A i \in 1 .. NChunks : FT!File[i] = i - 1
    <3>1. FT!File = [i \in 1 .. NChunks |-> i - 1]  BY DEF FT!File
    <3> QED  BY <1>6, <3>1, IsASeq
  <2> DEFINE m    == nWaited + c
             part == SubSeq(FT!File, 1, m)
  <2>3. /\ part \in Seq(Int) /\ Len(part) = m
        /\ \A i \in 1 .. m : part[i] = FT!File[i]
    <3>1. m \in 0 .. Len(FT!File) /\ 1 \in Nat \ {0} /\ 1 <= m /\ m \in Int
      BY <1>2, <1>3, <1>6, <1>10, <2>2
    <3> HIDE DEF m
    <3>2. /\ part \in Seq(Int)
          /\ Len(part) = IF 1 <= m THEN m - 1 + 1 ELSE 0
          /\ \A i \in 1 .. m - 1 + 1 : part[i] = FT!File[1 + i - 1]
      BY <2>2, <3>1, Piece
    <3> HIDE DEF part
    <3>3. m - 1 + 1 = m /\ \A i \in 1 .. m : 1 + i - 1 = i  BY <3>1
    <3> QED  BY <3>1, <3>2, <3>3
  <2>4. \A i \in 1 .. nWaited + c : i \in 1 .. NChunks
    BY <1>2, <1>3, <1>6
  <2>5. \A i \in 1 .. Len(written') : written'[i] = i - 1
    BY DEF SafetyInv, WrittenInv
  <2> HIDE DEF part
  <2>6. written' = part
    <3>1. \A i \in 1 .. Len(written') : written'[i] = part[i]
      BY <1>8, <2>2, <2>3, <2>4, <2>5
    <3>2. written' \in Seq(Int)
      BY <1>1, <1>3, <1>7, ConcatProperties
    <3> QED  BY <1>8, <2>3, <3>1, <3>2, SeqEqual
  <2>7. written' = SubSeq(FT!File, 1, Len(written) + c)
    BY <1>7, <2>6 DEF part
  <2>8. FT!Write  BY <1>4, <1>5, <2>1, <2>7 DEF FT!Write
  <2> QED  BY <2>8 DEF FT!Next
<1> QED  BY <1>9, <1>10

(* A step of the receiver writes, ends it, or changes nothing promised. *)
LEMMA ReceiverImplements ==
  ASSUME Timely, TypeOK, TypeOK', SafetyInv, SafetyInv', ReceiverNext,
         UNCHANGED senderVars
  PROVE  FT!Next \/ UNCHANGED <<written, SenderOutcome, ReceiverOutcome>>
<1>1. SenderOutcome' = SenderOutcome  BY DEF senderVars, SenderOutcome
<1>2. CASE RReadPayload  BY <1>2, PayloadImplements
<1>3. CASE ~ RReadPayload
  <2>1. written' = written /\ rpc \in {"wait", "poll", "write", "read"}
    BY <1>3
    DEF ReceiverNext, RConnect, RTimeout, RPoll, RWrite, WriteThen,
        RReadInvalid, RReadTruncated, RReadOutside, RReadEof, EofArrives,
        RReadSocket, ReadThen, Unmoved
  <2>2. ReceiverOutcome = "running"  BY <2>1 DEF ReceiverOutcome
  <2>3. rpc' \in {"wait", "poll", "write", "read", "final", "timeout"}
    BY DEF TypeOK, ReceiverTypeOK, REnded
  <2>4. CASE rpc' = "final"
    <3>1. AtEnd'  BY <2>4 DEF SafetyInv, ReceiverInv
    <3>2. Len(written') = NChunks
      BY <3>1 DEF SafetyInv, WrittenInv
    <3>3. FT!Complete  BY <2>1, <3>2, SameFile
    <3>4. ReceiverOutcome' = "final"  BY <2>4 DEF ReceiverOutcome
    <3> QED  BY <1>1, <2>1, <2>2, <3>3, <3>4 DEF FT!Next, FT!ReceiverEnds
  <2>5. CASE rpc' = "timeout"
    <3>1. ReceiverOutcome' = "gaveup"  BY <2>5 DEF ReceiverOutcome
    <3> QED  BY <1>1, <2>1, <2>2, <3>1 DEF FT!Next, FT!ReceiverEnds
  <2>6. CASE rpc' \in {"wait", "poll", "write", "read"}
    <3>1. ReceiverOutcome' = "running"  BY <2>6 DEF ReceiverOutcome
    <3> QED  BY <1>1, <2>1, <2>2, <3>1
  <2> QED  BY <2>3, <2>4, <2>5, <2>6
<1> QED  BY <1>2, <1>3

(* Every step of the two programs and the link is one of the abstract file *)
(* transfer, or one that it does not see.                                  *)
THEOREM Implements == ASSUME Timely PROVE Spec => ImplementsFileTransfer
<1>1. Init => FT!Init
  BY DEF Init, SenderInit, ReceiverInit, FT!Init, SenderOutcome, ReceiverOutcome,
         SEnded
<1>2. TypeOK /\ SafetyInv /\ [Next]_vars /\ (TypeOK /\ SafetyInv)'
        => [FT!Next]_<<written, SenderOutcome, ReceiverOutcome>>
  <2> SUFFICES ASSUME TypeOK, SafetyInv, [Next]_vars, TypeOK', SafetyInv'
               PROVE  FT!Next
                        \/ UNCHANGED <<written, SenderOutcome, ReceiverOutcome>>
    OBVIOUS
  <2>1. CASE SenderNext /\ UNCHANGED receiverVars  BY <2>1, SenderImplements
  <2>2. CASE ReceiverNext /\ UNCHANGED senderVars  BY <2>2, ReceiverImplements
  <2>3. CASE Tick \/ UNCHANGED vars
    BY <2>3
    DEF Tick, vars, senderVars, receiverVars, SenderOutcome, ReceiverOutcome
  <2> QED  BY <2>1, <2>2, <2>3 DEF Next, Terminated
<1> QED
  BY <1>1, <1>2, Safety, PTL DEF Spec, ImplementsFileTransfer, FT!Spec

-----------------------------------------------------------------------------
(* The transfer when calls fail: Faults.                                   *)

(* The reply that was read last is one the sender can act upon. *)
ReplyRead == {Garbled} \cup [status : {"ok"}, pkt : AckPacket]

(* A reply that is acted upon has a packet when it is an ACK or a NACK.    *)
LEMMA ReplyRead_Packet ==
  ASSUME NEW in \in ReplyRead, in.status = "ok"
  PROVE  in.pkt \in AckPacket
  BY DEF ReplyRead, Garbled

(* Nothing is bound by a failure but the count of them. *)
LEMMA FailsType ==
  ASSUME FaultsTypeOK, NEW call, Fails(call)
  PROVE  failures' \in 0 .. MaxFailures /\ lost' \in BOOLEAN
<1>1. MaxFailures \in Nat  BY FaultsAssumption
<1> QED  BY <1>1 DEF FaultsTypeOK, Fails

-----------------------------------------------------------------------------
(* Types: the sender. *)
(* Whatever reply the sender acts upon, its own state keeps its type.      *)
LEMMA ActUponType ==
  ASSUME SenderTypeOK, NEW in \in ReplyRead,
         OnBad(in) \/ OnFinal(in) \/ OnAck(in) \/ OnNack(in),
         sIdle' = 0, UNCHANGED <<seqNum, isLastAckNum, pos, readErrors>>
  PROVE  SenderTypeOK'
<1>1. sIdle' \in 0 .. IdleCap  BY Constants
<1>2. CASE OnBad(in)  BY <1>1, <1>2 DEF OnBad, SenderTypeOK
<1>3. CASE OnFinal(in)  BY <1>1, <1>3 DEF OnFinal, SenderTypeOK, SEnded
<1>4. CASE OnAck(in)
  <2>1. in.pkt \in AckPacket  BY <1>4, ReplyRead_Packet DEF OnAck
  <2> QED  BY <1>1, <1>4, <2>1, OnAckType DEF SenderTypeOK, SEnded
<1>5. CASE OnNack(in)
  <2>1. buf' \in Seq(QueuedPacket)
    BY <1>5, FindNackType DEF OnNack, SenderTypeOK
  <2> QED  BY <1>1, <1>5, <2>1 DEF OnNack, SenderTypeOK
<1> QED  BY <1>2, <1>3, <1>4, <1>5

(* A payload that is read and not kept. *)
LEMMA NotKeptType ==
  ASSUME LinkTypeOK, SenderTypeOK, SWritePayload,
         LinkTypeOK', seqNum' \in Uint8, sIdle' \in 0 .. IdleCap
  PROVE  SenderTypeOK'
<1>1. pos' \in 0 .. NChunks
  BY Constants DEF SWritePayload, SenderTypeOK
<1> QED  BY <1>1 DEF SWritePayload, SenderTypeOK

(* Each failure of the sender keeps the types. *)
LEMMA SenderFaultType ==
  ASSUME FaultsTypeOK, SenderFault, UNCHANGED <<receiverVars, pollin>>
  PROVE  FaultsTypeOK'
<1>1. LinkTypeOK /\ SenderTypeOK /\ ReceiverTypeOK /\ pollin \in BOOLEAN
      /\ buf_ack \in ReplyRead
  BY DEF FaultsTypeOK, TypeOK, ReplyRead
<1>2. ReceiverTypeOK' /\ pollin' \in BOOLEAN
  BY <1>1 DEF receiverVars, ReceiverTypeOK
<1>3. failures' \in 0 .. MaxFailures /\ lost' \in BOOLEAN
  <2>1. \E call \in Calls : Fails(call)
    BY DEF SenderFault, SSocketReadFails, SGivesUp, SNoEofPacket, SNotKept,
           SNoPayload, SNotNumbered, Calls
  <2> QED  BY <2>1, FailsType
<1>4. ASSUME LinkTypeOK', SenderTypeOK', buf_ack' = buf_ack
      PROVE  FaultsTypeOK'
  BY <1>1, <1>2, <1>3, <1>4 DEF FaultsTypeOK, TypeOK, ReplyRead
<1>5. CASE SSocketReadFails
  <2>1. SenderTypeOK'  BY <1>1, <1>5, ActUponType DEF SSocketReadFails
  <2>2. LinkTypeOK'  BY <1>1, <1>5 DEF SSocketReadFails, linkVars, LinkTypeOK
  <2> QED  BY <1>4, <1>5, <2>1, <2>2 DEF SSocketReadFails
<1>6. CASE SGivesUp
  <2>1. SenderTypeOK'  BY <1>1, <1>6 DEF SGivesUp, SenderTypeOK, SEnded
  <2>2. LinkTypeOK'  BY <1>1, <1>6 DEF SGivesUp, linkVars, LinkTypeOK
  <2> QED  BY <1>4, <1>6, <2>1, <2>2 DEF SGivesUp
<1>7. CASE SNoEofPacket
  <2>0. 0 \in 0 .. IdleCap  BY Constants
  <2>1. SenderTypeOK'  BY <1>1, <1>7, <2>0 DEF SNoEofPacket, SenderTypeOK
  <2>2. LinkTypeOK'  BY <1>1, <1>7 DEF SNoEofPacket, linkVars, LinkTypeOK
  <2> QED  BY <1>4, <1>7, <2>1, <2>2 DEF SNoEofPacket
<1>8. ASSUME NEW len \in {1, GARBAGE}, SWritePayload,
             Number([seqNum |-> seqNum, length |-> len, n |-> created])
      PROVE  FaultsTypeOK'
  <2> DEFINE d == [seqNum |-> seqNum, length |-> len, n |-> created]
  <2>1. d \in DataPacket
    BY <1>1 DEF DataPacket, SenderTypeOK, LinkTypeOK
  <2>2. Number(d)  BY <1>8
  <2>3. UNCHANGED <<rIn, sIn, buf_ack>>  BY <1>8 DEF SWritePayload
  <2> HIDE DEF d
  <2>4. LinkTypeOK' /\ seqNum' \in Uint8 /\ sIdle' \in 0 .. IdleCap
    BY <1>1, <2>1, <2>2, <2>3, NumberType
  <2> QED  BY <1>1, <1>4, <1>8, <2>3, <2>4, NotKeptType
<1>9. CASE SNotKept  BY <1>8, <1>9 DEF SNotKept
<1>10. CASE SNoPayload  BY <1>8, <1>10 DEF SNoPayload
<1>11. CASE SNotNumbered
  <2> DEFINE d == [seqNum |-> seqNum, length |-> GARBAGE, n |-> created]
  <2>1. d \in DataPacket
    BY <1>1 DEF DataPacket, SenderTypeOK, LinkTypeOK
  <2>2. /\ data' \in Sent(data, d) /\ SWritePayload
        /\ UNCHANGED <<acks, created, rIn, sIn, seqNum, buf_ack>>
        /\ sIdle' = 0
    BY <1>11 DEF SNotNumbered, SWritePayload
  <2> HIDE DEF d
  <2>3. LinkTypeOK'
    BY <1>1, <2>1, <2>2, SentSubset DEF LinkTypeOK
  <2>4. seqNum' \in Uint8 /\ sIdle' \in 0 .. IdleCap
    BY <1>1, <2>2, Constants DEF SenderTypeOK
  <2> QED  BY <1>1, <1>4, <2>2, <2>3, <2>4, NotKeptType
<1> QED
  BY <1>5, <1>6, <1>7, <1>9, <1>10, <1>11 DEF SenderFault

-----------------------------------------------------------------------------
(* Types: the receiver. *)
(* A receiver that blocks in read gets what arrives. *)
LEMMA UnblocksType ==
  ASSUME LinkTypeOK, ReceiverTypeOK, RUnblocks
  PROVE  LinkTypeOK' /\ ReceiverTypeOK'
<1>1. LinkTypeOK'
  BY ArriveAtReceiverType DEF RUnblocks, LinkTypeOK
<1>2. ReceiverTypeOK'  BY DEF RUnblocks, receiverVars, ReceiverTypeOK
<1> QED  BY <1>1, <1>2

(* The file with a hole is still a file. *)
LEMMA ShortType ==
  ASSUME NEW ns \in Seq(Nat), NEW i \in 1 .. Len(ns)
  PROVE  WrittenShort(ns, i) \in Seq(Nat)
<1>1. Len(ns) \in Nat  BY LenProperties
<1>2. SubSeq(ns, 1, i - 1) \in Seq(Nat)
  <2>1. 1 \in Nat \ {0} /\ i - 1 \in 0 .. Len(ns)  BY <1>1
  <2> QED  BY <2>1, Piece
<1>3. SubSeq(ns, i + 1, Len(ns)) \in Seq(Nat)
  <2>1. i + 1 \in Nat \ {0} /\ Len(ns) \in 0 .. Len(ns)  BY <1>1
  <2> QED  BY <2>1, Piece
<1> QED  BY <1>2, <1>3, ConcatProperties DEF WrittenShort, RemoveAt

(* A payload arrives, whatever becomes of its push, of what is written and *)
(* of the reply.                                                           *)
LEMMA FaultyPayloadType ==
  ASSUME LinkTypeOK, ReceiverTypeOK, NEW stage \in {"poll", "timeout"},
         ReadThen(stage), NEW push, push.queue \in Seq(EarlyPacket),
         NEW ends \in BOOLEAN, PayloadArrives(push, ends),
         written' \in Seq(Nat),
         ackQueue' = ackQueue \/ Reply("ACK", waitedSeqNum', nWaited', ends)
  PROVE  LinkTypeOK' /\ ReceiverTypeOK'
<1>1. LinkTypeOK' /\ rpc' = stage /\ rIdle' \in 0 .. RIdleCap
  BY Constants DEF ReadThen, LinkTypeOK
<1>2. /\ waitedSeqNum' \in Uint8 /\ finalSeqNum' \in Uint8
      /\ isFinalSeqNum' \in BOOLEAN /\ pktQueue' \in Seq(EarlyPacket)
      /\ nWaited' \in Nat
  BY PayloadType
<1>3. ackQueue' \in Seq(QueuedAck)
  <2>1. CASE ackQueue' = ackQueue  BY <2>1 DEF ReceiverTypeOK
  <2>2. CASE Reply("ACK", waitedSeqNum', nWaited', ends)
    BY <1>2, <2>2, ReplyType
  <2> QED  BY <2>1, <2>2
<1> QED  BY <1>1, <1>2, <1>3 DEF ReceiverTypeOK, REnded

(* Ends and InOrder, of any push. *)
LEMMA EndsType ==
  ASSUME ReceiverTypeOK, NEW run
  PROVE  Ends(run) \in BOOLEAN
  BY DEF Ends, ReceiverTypeOK

(* A step of the receiver that changes its stage and nothing else. *)
LEMMA StageType ==
  ASSUME LinkTypeOK, ReceiverTypeOK, UNCHANGED <<linkVars, ackQueue>>, Unmoved,
         rIdle' \in 0 .. RIdleCap,
         rpc' \in {"poll", "read", "timeout"}
           \cup (IF ackQueue # << >> THEN {"write"} ELSE {})
  PROVE  LinkTypeOK' /\ ReceiverTypeOK'
  BY DEF Unmoved, linkVars, LinkTypeOK, ReceiverTypeOK, REnded

(* Each failure of the receiver keeps the types. *)
LEMMA ReceiverFaultType ==
  ASSUME FaultsTypeOK, ReceiverFault, UNCHANGED <<senderVars, buf_ack, pollin>>
  PROVE  FaultsTypeOK'
<1>1. LinkTypeOK /\ SenderTypeOK /\ ReceiverTypeOK
      /\ 0 \in 0 .. RIdleCap /\ rIdle \in 0 .. RIdleCap
  BY Constants DEF FaultsTypeOK, TypeOK, ReceiverTypeOK
<1>2. failures' \in 0 .. MaxFailures /\ lost' \in BOOLEAN
  <2>1. \E call \in Calls : Fails(call)
    BY DEF ReceiverFault, RGivesUp, RPollFails, RSocketReadFails, RNoPacket,
           RNoReply, RReplyNotQueued, RNotQueued, RFileWriteFails, Calls
  <2> QED  BY <2>1, FailsType
<1>3. ASSUME LinkTypeOK', ReceiverTypeOK'  PROVE FaultsTypeOK'
  <2>1. SenderTypeOK'  BY <1>1 DEF senderVars, SenderTypeOK
  <2> QED  BY <1>2, <1>3, <2>1 DEF FaultsTypeOK, TypeOK
<1>4. CASE RGivesUp
  BY <1>1, <1>3, <1>4, StageType DEF RGivesUp, Unmoved
<1>5. CASE RPollFails
  <2>1. /\ UNCHANGED <<linkVars, ackQueue>> /\ Unmoved /\ rIdle' = rIdle
        /\ rpc' \in {"poll", "read", "timeout"}
             \cup (IF ackQueue # << >> THEN {"write"} ELSE {})
    BY <1>5 DEF RPollFails, Unmoved, AfterPoll
  <2> QED  BY <1>1, <1>3, <2>1, StageType
<1>6. CASE RSocketReadFails
  <2>1. /\ UNCHANGED <<linkVars, ackQueue>> /\ Unmoved /\ rIdle' = 0
        /\ rpc' = "poll"
    BY <1>6 DEF RSocketReadFails, Unmoved
  <2> QED  BY <1>1, <1>3, <2>1, StageType
<1>7. CASE RNoPacket
  <2>1. ReadThen("timeout") /\ Unmoved /\ UNCHANGED ackQueue
    BY <1>7 DEF RNoPacket
  <2> QED
    BY <1>1, <1>3, <2>1
    DEF ReadThen, Unmoved, LinkTypeOK, ReceiverTypeOK, REnded
<1>8. CASE RNoReply
  <2>1. /\ ReadThen("timeout") /\ PayloadArrives(PushArrived, FALSE)
        /\ WriteRun(InOrder(PushArrived)) /\ ackQueue' = ackQueue
    BY <1>8 DEF RNoReply
  <2>2. PushArrived.queue \in Seq(EarlyPacket)
    BY <1>1, <2>1, PushArrivedType DEF PayloadArrives
  <2>3. written' \in Seq(Nat)  BY <1>1, <2>1, <2>2, PayloadType
  <2> QED  BY <1>1, <1>3, <2>1, <2>2, <2>3, FaultyPayloadType
<1>9. CASE RReplyNotQueued
  <2>1. ReadThen("poll") /\ ackQueue' = ackQueue
    BY <1>9 DEF RReplyNotQueued, RReadSocket
  <2>2. CASE Unmoved
    BY <1>1, <1>3, <2>1, <2>2
    DEF ReadThen, Unmoved, LinkTypeOK, ReceiverTypeOK, REnded
  <2>3. CASE EofArrives
    BY <1>1, <1>3, <2>1, <2>3, EofType DEF ReadThen, LinkTypeOK, ReceiverTypeOK
  <2>4. CASE /\ PayloadArrives(PushArrived, Ends(InOrder(PushArrived)))
             /\ WriteRun(InOrder(PushArrived))
    <3>1. PushArrived.queue \in Seq(EarlyPacket)
      BY <1>1, <2>4, PushArrivedType DEF PayloadArrives
    <3>2. Ends(InOrder(PushArrived)) \in BOOLEAN  BY <1>1, EndsType
    <3>3. written' \in Seq(Nat)  BY <1>1, <2>4, <3>1, <3>2, PayloadType
    <3> QED  BY <1>1, <1>3, <2>1, <2>4, <3>1, <3>2, <3>3, FaultyPayloadType
  <2> QED  BY <1>9, <2>2, <2>3, <2>4 DEF RReplyNotQueued
<1>10. CASE RNotQueued
  <2>1. /\ ReadThen("poll") /\ PayloadArrives(Refused, Ends(<< >>))
        /\ written' = written
        /\ Reply("ACK", waitedSeqNum', nWaited', Ends(<< >>))
    BY <1>10 DEF RNotQueued, RReadSocket
  <2>2. Refused.queue \in Seq(EarlyPacket) /\ Ends(<< >>) \in BOOLEAN
    BY <1>1, EndsType DEF Refused, ReceiverTypeOK
  <2>3. written' \in Seq(Nat)  BY <1>1, <2>1 DEF ReceiverTypeOK
  <2> QED  BY <1>1, <1>3, <2>1, <2>2, <2>3, FaultyPayloadType
<1>11. CASE RFileWriteFails
  <2> DEFINE run == InOrder(PushArrived)
             ns  == [k \in 1 .. Len(run) |-> run[k].n]
  <2>1. /\ ReadThen("poll") /\ PayloadArrives(PushArrived, Ends(run))
        /\ \E i \in 1 .. Len(run) : written' = written \o WrittenShort(ns, i)
        /\ Reply("ACK", waitedSeqNum', nWaited', Ends(run))
    BY <1>11 DEF RFileWriteFails, RReadSocket
  <2>2. PushArrived.queue \in Seq(EarlyPacket)
    BY <1>1, <2>1, PushArrivedType DEF PayloadArrives
  <2>3. ns \in Seq(Nat) /\ Len(ns) = Len(run)
    <3>1. Len(run) \in Nat /\ ns \in Seq(Nat)  BY <2>2, RunType
    <3> HIDE DEF run
    <3> QED  BY <3>1
  <2>4. Ends(run) \in BOOLEAN  BY <1>1, EndsType
  <2> HIDE DEF run, ns
  <2>5. written' \in Seq(Nat)
    <3>1. PICK i \in 1 .. Len(run) : written' = written \o WrittenShort(ns, i)
      BY <2>1
    <3>2. WrittenShort(ns, i) \in Seq(Nat)  BY <2>3, ShortType
    <3> QED  BY <1>1, <3>1, <3>2, ConcatProperties DEF ReceiverTypeOK
  <2> QED  BY <1>1, <1>3, <2>1, <2>2, <2>4, <2>5, FaultyPayloadType DEF run
<1> QED
  BY <1>4, <1>5, <1>6, <1>7, <1>8, <1>9, <1>10, <1>11 DEF ReceiverFault
-----------------------------------------------------------------------------
(* Types: the steps in which no call fails. *)
(* What the sender reads, and acts upon, is a reply or garbage.            *)
LEMMA ReadStep ==
  ASSUME TypeOK, SenderNext, spc = "read"
  PROVE  /\ sIn \in ReplyRead
         /\ ReadSocket
         /\ OnBad(sIn) \/ OnFinal(sIn) \/ OnAck(sIn) \/ OnNack(sIn)
<1>1. SReadBad \/ SReadFinal \/ SReadAck \/ SReadNack
  BY DEF SenderNext, STimeout, SPoll, SSendData, SReadFails, SSendEof, SResend,
         SNoResend
<1>2. /\ ReadSocket
      /\ OnBad(sIn) \/ OnFinal(sIn) \/ OnAck(sIn) \/ OnNack(sIn)
  BY <1>1 DEF SReadBad, SReadFinal, SReadAck, SReadNack
<1>3. sIn = Garbled \/ sIn.status = "ok"
  BY <1>2 DEF OnBad, OnFinal, OnAck, OnNack
<1>4. sIn \in ReplyRead
  BY <1>3 DEF ReplyRead, TypeOK, LinkTypeOK, NoInput, Garbled
<1> QED  BY <1>2, <1>4

(* A step of the sender keeps the types. *)
LEMMA FaultsSenderType ==
  ASSUME FaultsTypeOK, SenderStep
  PROVE  FaultsTypeOK'
<1>1. TypeOK /\ SenderNext /\ UNCHANGED receiverVars
  BY DEF FaultsTypeOK, SenderStep
<1>2. TypeOK'  BY <1>1, SenderStepType
<1>3. buf_ack' \in ReplyRead
  BY <1>1, ReadStep DEF FaultsTypeOK, SenderStep, ReplyRead
<1> QED  BY <1>2, <1>3 DEF FaultsTypeOK, SenderStep, ReplyRead

(* A step of the receiver keeps the types. *)
LEMMA FaultsReceiverType ==
  ASSUME FaultsTypeOK, ReceiverStep
  PROVE  FaultsTypeOK'
<1>1. /\ TypeOK /\ LinkTypeOK /\ SenderTypeOK /\ ReceiverTypeOK
      /\ UNCHANGED <<senderVars, buf_ack, failures, lost>>
  BY DEF FaultsTypeOK, TypeOK, ReceiverStep
<1>2. pollin' \in BOOLEAN  BY DEF FaultsTypeOK, ReceiverStep
<1>3. SenderTypeOK'  BY <1>1 DEF senderVars, SenderTypeOK
<1>4. TypeOK'
  <2>1. CASE WriteThen(AfterPoll)
    <3>1. AfterPoll \in {"poll", "read"}  BY DEF AfterPoll
    <3> QED  BY <1>1, <1>3, <2>1, <3>1, WriteType DEF TypeOK
  <2>2. CASE RUnblocks  BY <1>1, <1>3, <2>2, UnblocksType DEF TypeOK
  <2>3. CASE ReceiverNext  BY <1>1, <2>3, ReceiverStepType
  <2> QED  BY <2>1, <2>2, <2>3 DEF ReceiverStep, ReceiverNext
<1> QED  BY <1>1, <1>2, <1>4 DEF FaultsTypeOK

(* FaultsTypeOK is inductive. *)
LEMMA FaultsStepType == FaultsTypeOK /\ [FaultsNext]_allVars => FaultsTypeOK'
<1> SUFFICES ASSUME FaultsTypeOK, [FaultsNext]_allVars  PROVE FaultsTypeOK'
  OBVIOUS
<1>1. CASE SenderStep  BY <1>1, FaultsSenderType
<1>2. CASE ReceiverStep  BY <1>2, FaultsReceiverType
<1>3. CASE Second
  BY <1>3, TickType DEF Second, faultVars, FaultsTypeOK
<1>4. CASE SenderFault /\ UNCHANGED <<receiverVars, pollin>>
  BY <1>4, SenderFaultType
<1>5. CASE ReceiverFault /\ UNCHANGED <<senderVars, buf_ack, pollin>>
  BY <1>5, ReceiverFaultType
<1>6. CASE UNCHANGED allVars
  <2>1. UNCHANGED vars /\ UNCHANGED <<buf_ack, pollin, failures, lost>>
    BY <1>6 DEF allVars, faultVars
  <2>2. TypeOK'  BY <2>1, StepType DEF FaultsTypeOK
  <2> QED  BY <2>1, <2>2 DEF FaultsTypeOK
<1> QED
  BY <1>1, <1>2, <1>3, <1>4, <1>5, <1>6 DEF FaultsNext, FaultsTerminated

(* At the beginning nothing has been read and no call has failed.          *)
LEMMA FaultsInitType == FaultsInit => FaultsTypeOK
<1> SUFFICES ASSUME FaultsInit  PROVE FaultsTypeOK  OBVIOUS
<1>1. TypeOK  BY InitType DEF FaultsInit
<1>2. 0 \in 0 .. MaxFailures  BY FaultsAssumption
<1> QED  BY <1>1, <1>2 DEF FaultsInit, FaultsTypeOK

(* Whatever calls fail, every variable keeps its type: no sequence number, *)
(* queue or stage is out of the range the two loops can handle, and the    *)
(* reply that is decoded once more is one the sender can act upon          *)
(* (sender.c:267-271).                                                     *)
THEOREM FaultsTypeCorrect == FaultsSpec => []FaultsTypeOK
<1>1. FaultsInit => FaultsTypeOK  BY FaultsInitType
<1>2. FaultsTypeOK /\ [FaultsNext]_allVars => FaultsTypeOK'
  BY FaultsStepType
<1> QED  BY <1>1, <1>2, PTL DEF FaultsSpec

-----------------------------------------------------------------------------
(***************************************************************************)
(* Safety, while no packet and no payload is dropped.                      *)
(***************************************************************************)
(* A call whose failure drops nothing. *)
LEMMA KeptFails ==
  ASSUME NEW call, Fails(call), Kept'
  PROVE  call \in KeepData
  BY DEF Fails, Kept

(* What was dropped stays dropped. *)
LEMMA KeptStays ==
  ASSUME Timely, FaultsTypeOK, [FaultsNext]_allVars, Kept'
  PROVE  Kept
<1>1. readErrors = 0
  BY TimelyConstants DEF FaultsTypeOK, TypeOK, SenderTypeOK
<1>2. lost => lost'
  <2>1. ASSUME NEW call, Fails(call)  PROVE lost => lost'
    BY <2>1 DEF Fails
  <2>2. CASE SenderFault
    BY <2>1, <2>2 DEF SenderFault, SSocketReadFails, SGivesUp, SNoEofPacket,
                      SNotKept, SNoPayload, SNotNumbered
  <2>3. CASE ReceiverFault
    BY <2>1, <2>3 DEF ReceiverFault, RGivesUp, RPollFails, RSocketReadFails,
                      RNoPacket, RNoReply, RReplyNotQueued, RNotQueued,
                      RFileWriteFails
  <2>4. CASE lost' = lost  BY <2>4
  <2> QED
    BY <2>2, <2>3, <2>4 DEF FaultsNext, SenderStep, ReceiverStep, Second,
                            FaultsTerminated, allVars, faultVars
<1> QED  BY <1>1, <1>2 DEF Kept

(* The reply that was read last, when it is an ACK or a NACK.              *)
LEMMA LastReply ==
  ASSUME FaultsTypeOK, buf_ack.status = "ok"
  PROVE  buf_ack.pkt \in AckPacket /\ buf_ack.pkt.n \in Nat
<1>1. buf_ack.pkt \in AckPacket
  BY ReplyRead_Packet DEF FaultsTypeOK, ReplyRead
<1> QED  BY <1>1 DEF AckPacket

(* What was acted upon stays acted upon, as the two programs go on.        *)
LEMMA ActedStays ==
  ASSUME FaultsTypeOK, FaultsTypeOK', Acted, buf_ack' = buf_ack, base' = base,
         created <= created', nWaited <= nWaited', spc = "acked" => spc' = "acked"
  PROVE  Acted'
<1> SUFFICES ASSUME buf_ack.status = "ok", spc # "acked"
             PROVE  /\ Truthful(buf_ack.pkt, created', nWaited')
                    /\ base' - buf_ack.pkt.n <= MaxLag
                    /\ buf_ack.pkt.type = "ACK" => buf_ack.pkt.n <= base'
  BY DEF Acted
<1>1. /\ Truthful(buf_ack.pkt, created, nWaited)
      /\ base - buf_ack.pkt.n <= MaxLag
      /\ buf_ack.pkt.type = "ACK" => buf_ack.pkt.n <= base
  BY DEF Acted
<1>2. /\ created \in Int /\ nWaited \in Int /\ buf_ack.pkt.n \in Int
      /\ created' \in Int /\ nWaited' \in Int
  BY LastReply DEF FaultsTypeOK, TypeOK, LinkTypeOK, ReceiverTypeOK
<1>3. Truthful(buf_ack.pkt, created', nWaited')
  BY <1>1, <1>2, TruthfulStays
<1> QED  BY <1>1, <1>3

(* The reply that was just read has been acted upon. *)
LEMMA ReadActs ==
  ASSUME Timely, FaultsTypeOK, SafetyInv, UNCHANGED receiverVars,
         SenderNext, spc = "read", buf_ack' = sIn
  PROVE  Acted'
<1> SUFFICES ASSUME sIn.status = "ok", spc' # "acked"
             PROVE  /\ Truthful(sIn.pkt, created', nWaited')
                    /\ base' - sIn.pkt.n <= MaxLag
                    /\ sIn.pkt.type = "ACK" => sIn.pkt.n <= base'
  BY DEF Acted
<1>1. TypeOK  BY DEF FaultsTypeOK
<1>2. /\ ReadSocket
      /\ OnBad(sIn) \/ OnFinal(sIn) \/ OnAck(sIn) \/ OnNack(sIn)
      /\ created' = created /\ nWaited' = nWaited
  BY <1>1, ReadStep DEF ReadSocket, receiverVars
<1>3. /\ sIn.pkt \in AckPacket /\ sIn.pkt.n \in Nat
      /\ Truthful(sIn.pkt, created, nWaited) /\ base - sIn.pkt.n <= MaxLag
  BY <1>1, Inputs DEF SafetyInv, ReplyInv
<1>4. CASE OnAck(sIn)
  <2>1. IF base < sIn.pkt.n THEN base' = sIn.pkt.n ELSE base' = base
    BY <1>1, <1>2, <1>3, <1>4, AckMoves
  <2>2. base \in Int /\ MaxLag \in Nat
    BY <1>1, Numbers, TimelyConstants
  <2>3. base' - sIn.pkt.n <= MaxLag /\ sIn.pkt.n <= base'
    BY <1>3, <2>1, <2>2
  <2> QED  BY <1>2, <1>3, <2>3
<1>5. CASE OnNack(sIn)
  <2>1. base' = base
    <3>1. buf' = queue_find_nack(buf, sIn.pkt.seqNum)  BY <1>5 DEF OnNack
    <3>2. Len(buf') = Len(buf)
      BY <1>1, <3>1, Numbers, NackNumbers
    <3> QED  BY <1>2, <3>2 DEF base
  <2>2. sIn.pkt.type = "NACK"  BY <1>5 DEF OnNack
  <2> QED  BY <1>2, <1>3, <2>1, <2>2
<1>6. ~ OnBad(sIn) /\ ~ OnFinal(sIn)  BY DEF OnBad, OnFinal, Garbled
<1> QED  BY <1>2, <1>4, <1>5, <1>6

-----------------------------------------------------------------------------
(* Safety: the sender. *)
(* The packets that were numbered stay so. *)
LEMMA SenderForward ==
  ASSUME TypeOK, SenderNext
  PROVE  created <= created'
<1>1. created \in Nat  BY Numbers
<1>2. created' = created \/ created' = created + 1
  BY DEF SenderNext, STimeout, SPoll, SSendData, SReadFails, SSendEof, SResend,
         SNoResend, SReadBad, SReadFinal, SReadAck, SReadNack, ReadSocket,
         Number, linkVars
<1> QED  BY <1>1, <1>2

(* A step of the sender in which no call fails. *)
LEMMA FaultsSenderSafety ==
  ASSUME Timely, FaultsTypeOK, FaultsTypeOK', SafetyInv, Acted, SenderStep
  PROVE  SafetyInv' /\ Acted'
<1>1. /\ TypeOK /\ TypeOK' /\ SenderNext /\ UNCHANGED receiverVars
      /\ buf_ack' = IF spc = "read" THEN sIn ELSE buf_ack
  BY DEF FaultsTypeOK, SenderStep
<1>2. SafetyInv'  BY <1>1, SenderStepSafety
<1>3. CASE spc = "read"  BY <1>1, <1>2, <1>3, ReadActs
<1>4. CASE spc # "read"
  <2>1. base' = base
    <3>1. base' # base => SReadAck  BY <1>1, DeleteStep DEF Next
    <3> QED  BY <1>4, <3>1 DEF SReadAck, ReadSocket
  <2>2. nWaited' = nWaited /\ nWaited \in Nat
    BY <1>1, Numbers DEF receiverVars
  <2>3. created <= created'  BY <1>1, SenderForward
  <2>4. spc # "acked"
    BY <1>1 DEF SenderNext, STimeout, SPoll, SSendData, SReadFails, SSendEof,
                SResend, SNoResend, SReadBad, SReadFinal, SReadAck, SReadNack,
                ReadSocket
  <2> QED  BY <1>1, <1>2, <1>4, <2>1, <2>2, <2>3, <2>4, ActedStays
<1> QED  BY <1>2, <1>3, <1>4
(* A reply that is acted upon once more changes nothing that counts.       *)
LEMMA RereadSafety ==
  ASSUME Timely, FaultsTypeOK, FaultsTypeOK', SafetyInv, Acted,
         SSocketReadFails, UNCHANGED <<receiverVars, pollin>>
  PROVE  SafetyInv' /\ Acted'
<1>1. /\ TypeOK /\ TypeOK' /\ UNCHANGED receiverVars /\ spc = "read"
      /\ UNCHANGED <<data, acks, rIn, sIn, created, seqNum, pos, isLastAckNum>>
      /\ buf_ack' = buf_ack /\ nWaited' = nWaited
  BY DEF FaultsTypeOK, SSocketReadFails, linkVars, receiverVars
<1>2. \/ OnBad(buf_ack) \/ OnFinal(buf_ack)
      \/ OnAck(buf_ack) \/ OnNack(buf_ack)
  BY DEF SSocketReadFails
<1>3. /\ buf \in Seq(QueuedPacket) /\ created \in Nat /\ nWaited \in Nat
      /\ base \in Int
  BY <1>1, Numbers
<1>4. ASSUME Len(buf') = Len(buf),
             \A i \in 1 .. Len(buf) :
                /\ buf'[i].n = buf[i].n /\ buf'[i].seqNum = buf[i].seqNum
                /\ buf'[i].length = buf[i].length,
             spc' \notin {"write", "acked"}
      PROVE  SafetyInv' /\ Acted'
  <2>1. SafetyInv'
    <3>1. acks' \subseteq acks  BY <1>1
    <3> QED  BY <1>1, <1>4, <3>1, SameQueueSafety
  <2>2. base' = base  BY <1>1, <1>4 DEF base
  <2>3. Acted'  BY <1>1, <1>3, <2>2, ActedStays
  <2> QED  BY <2>1, <2>3
<1>5. ASSUME buf_ack.status = "ok"
      PROVE  /\ buf_ack.pkt \in AckPacket /\ buf_ack.pkt.n \in Nat
             /\ Truthful(buf_ack.pkt, created, nWaited)
             /\ base - buf_ack.pkt.n <= MaxLag
             /\ buf_ack.pkt.type = "ACK" => buf_ack.pkt.n <= base
  BY <1>1, <1>5, LastReply DEF Acted
<1>6. CASE OnBad(buf_ack)
  <2>1. buf' = buf /\ spc' = "poll"  BY <1>6 DEF OnBad
  <2> QED  BY <1>4, <2>1
<1>7. CASE OnFinal(buf_ack)
  <2>1. buf_ack.status = "ok" /\ spc' = "acked"  BY <1>7 DEF OnFinal
  <2>2. SafetyInv'  BY <1>1, <1>5, <1>7, <2>1, FinalSafety
  <2> QED  BY <2>1, <2>2 DEF Acted
<1>8. CASE OnAck(buf_ack)
  <2>1. /\ buf_ack.status = "ok" /\ buf_ack.pkt.type = "ACK"
        /\ spc' \in {"poll", "crashed"}
    BY <1>8 DEF OnAck
  <2>2. ~ (base < buf_ack.pkt.n)  BY <1>3, <1>5, <2>1
  <2>3. buf' = buf  BY <1>1, <1>5, <1>8, <2>1, <2>2, AckMoves
  <2> QED  BY <1>4, <2>1, <2>3
<1>9. CASE OnNack(buf_ack)
  <2>1. buf' = queue_find_nack(buf, buf_ack.pkt.seqNum) /\ spc' = "poll"
    BY <1>9 DEF OnNack
  <2> QED  BY <1>3, <1>4, <2>1, NackNumbers
<1> QED  BY <1>2, <1>6, <1>7, <1>8, <1>9

(* A failure of the sender that drops nothing. *)
LEMMA SenderFaultSafety ==
  ASSUME Timely, FaultsTypeOK, FaultsTypeOK', SafetyInv, Acted, Kept',
         SenderFault, UNCHANGED <<receiverVars, pollin>>
  PROVE  SafetyInv' /\ Acted'
<1>1. CASE SSocketReadFails  BY <1>1, RereadSafety
<1>2. CASE SGivesUp \/ SNoEofPacket
  <2>1. /\ TypeOK /\ TypeOK' /\ UNCHANGED receiverVars
        /\ UNCHANGED <<linkVars, seqNum, isLastAckNum, buf, pos, buf_ack>>
        /\ spc' \notin {"write", "acked"} /\ spc # "acked"
    BY <1>2 DEF FaultsTypeOK, SGivesUp, SNoEofPacket, SEnded
  <2>2. /\ UNCHANGED <<data, acks, rIn, sIn, created, nWaited>>
        /\ nWaited \in Nat /\ created \in Nat
    BY <2>1, Numbers DEF linkVars, receiverVars
  <2>3. SafetyInv'
    <3>1. acks' \subseteq acks  BY <2>2
    <3> QED  BY <2>1, <2>2, <3>1, SameQueueSafety
  <2>4. base' = base  BY <2>1, <2>2 DEF base
  <2>5. Acted'  BY <2>1, <2>2, <2>4, ActedStays
  <2> QED  BY <2>3, <2>5
<1>3. ~ (SNotKept \/ SNoPayload \/ SNotNumbered)
  BY KeptFails DEF SNotKept, SNoPayload, SNotNumbered, KeepData
<1> QED  BY <1>1, <1>2, <1>3 DEF SenderFault

-----------------------------------------------------------------------------
(* Safety: the receiver. *)
(* The receiver only moves forward, whatever becomes of its payloads and   *)
(* replies.                                                                *)
LEMMA ReceiverForward ==
  ASSUME FaultsTypeOK, ReceiverStep \/ ReceiverFault
  PROVE  created' = created /\ nWaited <= nWaited'
<1>1. LinkTypeOK /\ ReceiverTypeOK /\ nWaited \in Nat
  BY DEF FaultsTypeOK, TypeOK, ReceiverTypeOK
<1>2. CASE EofArrives /\ RReadSocket
  <2> DEFINE step == IF rIn.pkt.seqNum = waitedSeqNum THEN 1 ELSE 0
  <2>1. nWaited' = nWaited + step /\ created' = created
    BY <1>2 DEF EofArrives, RReadSocket, ReadThen
  <2>2. step \in Nat  OBVIOUS
  <2> HIDE DEF step
  <2> QED  BY <1>1, <2>1, <2>2
<1>3. ASSUME NEW push, push.queue \in Seq(EarlyPacket), NEW ends,
             NEW stage, PayloadArrives(push, ends), ReadThen(stage)
      PROVE  created' = created /\ nWaited <= nWaited'
  <2> DEFINE c    == Len(InOrder(push))
             step == IF ends THEN 1 ELSE 0
  <2>1. nWaited' = nWaited + c + step /\ created' = created
    BY <1>3 DEF PayloadArrives, ReadThen
  <2>2. c \in Nat  BY <1>3, RunType
  <2>3. step \in Nat  OBVIOUS
  <2> HIDE DEF c, step
  <2> QED  BY <1>1, <2>1, <2>2, <2>3
<1>4. ASSUME NEW ends, NEW stage, PayloadArrives(PushArrived, ends),
             ReadThen(stage)
      PROVE  created' = created /\ nWaited <= nWaited'
  <2>1. PushArrived.queue \in Seq(EarlyPacket)
    BY <1>1, <1>4, PushArrivedType DEF PayloadArrives
  <2> QED  BY <1>3, <1>4, <2>1
<1>5. CASE RReadPayload \/ RNoReply \/ RFileWriteFails
  BY <1>4, <1>5 DEF RReadPayload, RNoReply, RFileWriteFails, RReadSocket
<1>6. CASE RNotQueued
  <2>1. Refused.queue \in Seq(EarlyPacket)  BY <1>1 DEF Refused, ReceiverTypeOK
  <2> QED  BY <1>3, <1>6, <2>1 DEF RNotQueued, RReadSocket
<1>7. CASE UNCHANGED <<created, nWaited>>  BY <1>1, <1>7
<1>8. CASE RReplyNotQueued
  BY <1>2, <1>4, <1>7, <1>8 DEF RReplyNotQueued, RReadSocket, ReadThen, Unmoved
<1>9. CASE RReadEof  BY <1>2, <1>9 DEF RReadEof
<1>10. CASE RPoll \/ WriteThen(AfterPoll) \/ RUnblocks \/ RConnect \/ RTimeout
              \/ RReadInvalid \/ RReadTruncated \/ RReadOutside
  BY <1>7, <1>10
  DEF RPoll, WriteThen, RUnblocks, RConnect, RTimeout, RReadInvalid,
      RReadTruncated, RReadOutside, RReadSocket, ReadThen, Unmoved, linkVars,
      receiverVars
<1>11. CASE RGivesUp \/ RPollFails \/ RSocketReadFails \/ RNoPacket
  BY <1>7, <1>11
  DEF RGivesUp, RPollFails, RSocketReadFails, RNoPacket, ReadThen, Unmoved,
      linkVars
<1> QED
  BY <1>5, <1>6, <1>8, <1>9, <1>10, <1>11 DEF ReceiverStep, ReceiverFault
(* So what the sender has acted upon stays so.                             *)
LEMMA ReceiverActed ==
  ASSUME FaultsTypeOK, FaultsTypeOK', Acted, UNCHANGED <<senderVars, buf_ack>>,
         ReceiverStep \/ ReceiverFault
  PROVE  Acted'
<1>1. created' = created /\ nWaited <= nWaited'  BY ReceiverForward
<1>2. base' = base /\ spc' = spc  BY <1>1 DEF senderVars, base
<1>3. created \in Nat  BY DEF FaultsTypeOK, TypeOK, LinkTypeOK
<1> QED  BY <1>1, <1>2, <1>3, ActedStays

(* A step that changes the stage of the receiver, and what it has read.    *)
LEMMA IdleSafety ==
  ASSUME Timely, TypeOK, TypeOK', SafetyInv, UNCHANGED senderVars, Unmoved,
         UNCHANGED <<acks, sIn, created, ackQueue>>, rpc' # "final",
         ArriveAtReceiver \/ (data' = data /\ rIn' = NoInput)
  PROVE  SafetyInv'
<1>1. /\ data' \subseteq data
      /\ rIn'.status \in {"ok", "tr"} =>
            Genuine(rIn'.pkt, created) /\ nWaited - rIn'.pkt.n <= MaxLag
  <2>1. CASE ArriveAtReceiver  BY <2>1, ArrivedAtReceiver
  <2>2. CASE data' = data /\ rIn' = NoInput  BY <2>2 DEF NoInput
  <2> QED  BY <2>1, <2>2
<1>2. \A i \in 1 .. Len(ackQueue') :
         /\ Truthful(ackQueue'[i], created, nWaited)
         /\ ackQueue'[i].trFlag => AtEnd
  BY DEF SafetyInv, ReplyInv
<1>3. \A a \in acks' : a \in acks \/ Truthful(a, created, nWaited)  OBVIOUS
<1> QED  BY <1>1, <1>2, <1>3, UnmovedSafety

(* A payload is written, whatever becomes of the reply to it. *)
LEMMA WrittenSafety ==
  ASSUME Timely, TypeOK, TypeOK', SafetyInv, UNCHANGED senderVars,
         NEW stage \in {"poll", "timeout"}, ReadThen(stage),
         NEW ends \in BOOLEAN, ends => Ends(InOrder(PushArrived)),
         PayloadArrives(PushArrived, ends), WriteRun(InOrder(PushArrived)),
         ackQueue' = ackQueue
  PROVE  SafetyInv'
<1>1. /\ rIn.status = "ok" /\ Accepts(rIn.pkt) /\ rIn.pkt.length # EOF_LENGTH
      /\ rIn' = NoInput /\ rpc' # "final"
      /\ UNCHANGED <<data, acks, sIn, created, finalSeqNum, isFinalSeqNum>>
      /\ pktQueue' = Rest /\ WriteRun(Run)
      /\ waitedSeqNum' = Plus(Plus(waitedSeqNum, Len(Run)),
                              IF ends THEN 1 ELSE 0)
      /\ nWaited' = nWaited + Len(Run) + (IF ends THEN 1 ELSE 0)
      /\ ends => isFinalSeqNum /\ Plus(waitedSeqNum, Len(Run)) = finalSeqNum
  BY DEF PayloadArrives, InOrder, Ends, PushArrived, ReadThen, Pushed, Out, Run,
         Rest
<1>2. /\ Run \in Seq(EarlyPacket) /\ Rest \in Seq(EarlyPacket)
      /\ Delivers(Run, Rest)
  BY <1>1, PayloadMeaning DEF Delivers
<1> QED  BY <1>1, <1>2, PayloadSafety

(* A payload that is refused delivers nothing.                             *)
LEMMA RefusedSafety ==
  ASSUME Timely, TypeOK, TypeOK', SafetyInv, UNCHANGED senderVars, RNotQueued
  PROVE  SafetyInv'
<1> DEFINE last == Ends(<< >>)
           none == << >>
<1>1. /\ rIn.status = "ok" /\ Accepts(rIn.pkt) /\ rIn.pkt.length # EOF_LENGTH
      /\ rIn' = NoInput /\ rpc' # "final"
      /\ UNCHANGED <<data, acks, sIn, created, finalSeqNum, isFinalSeqNum>>
      /\ pktQueue' = pktQueue /\ written' = written
      /\ waitedSeqNum' = Plus(Plus(waitedSeqNum, Len(none)),
                              IF last THEN 1 ELSE 0)
      /\ nWaited' = nWaited + Len(none) + (IF last THEN 1 ELSE 0)
      /\ Reply("ACK", waitedSeqNum', nWaited', last)
      /\ last => isFinalSeqNum /\ Plus(waitedSeqNum, Len(none)) = finalSeqNum
  BY DEF RNotQueued, PayloadArrives, Refused, InOrder, Ends, RReadSocket,
         ReadThen
<1>2. last \in BOOLEAN  BY DEF Ends, TypeOK, ReceiverTypeOK
<1>3. none \in Seq(EarlyPacket) /\ Len(none) = 0  BY EmptySeq
<1>4. WriteRun(none)
  <2>1. written \in Seq(Nat)  BY Numbers
  <2>2. [i \in 1 .. Len(none) |-> none[i].n] = << >>  BY <1>3
  <2>3. written \o << >> = written  BY <2>1, ConcatEmptySeq
  <2> QED  BY <1>1, <2>2, <2>3 DEF WriteRun
<1>5. Delivers(none, pktQueue)
  <2>1. ReceiverInv /\ DataInv  BY DEF SafetyInv
  <2>2. /\ created \in Nat /\ nWaited \in Nat /\ NChunks \in Nat
        /\ created <= NChunks + 1 /\ nWaited <= created
    BY Counts
  <2>3. nWaited + 0 <= NChunks
    <3>1. /\ nWaited <= rIn.pkt.n /\ rIn.pkt.n < created /\ rIn.pkt.n \in Nat
      BY <1>1, AcceptMeaning, Inputs
    <3> QED  BY <2>2, <3>1
  <2>4. ASSUME NEW i \in 1 .. Len(pktQueue)
        PROVE  /\ nWaited + 0 < pktQueue[i].n /\ pktQueue[i].n < NChunks
               /\ Genuine(pktQueue[i], created)
    <3>1. /\ nWaited < pktQueue[i].n /\ Genuine(pktQueue[i], created)
          /\ pktQueue[i] \in EarlyPacket /\ pktQueue[i].n \in Nat
      BY <2>1, Numbers DEF ReceiverInv
    <3>2. pktQueue[i].n # NChunks /\ pktQueue[i].n < created
      BY <3>1 DEF Genuine, EarlyPacket, EOF_LENGTH
    <3> QED  BY <2>2, <3>1, <3>2
  <2>5. Ordered(pktQueue)  BY <2>1 DEF ReceiverInv, Ordered
  <2>6. nWaited + 0 <= created  BY <2>2
  <2>7. \A i \in 1 .. Len(none) : none[i].n = nWaited + i - 1  BY <1>3
  <2> HIDE DEF none
  <2> QED  BY <1>3, <2>3, <2>4, <2>5, <2>6, <2>7 DEF Delivers
<1>6. pktQueue \in Seq(EarlyPacket)  BY Numbers
<1> HIDE DEF last, none
<1> QED  BY <1>1, <1>2, <1>3, <1>4, <1>5, <1>6, PayloadSafety

(* A failure of the receiver that drops nothing. *)
LEMMA ReceiverFaultSafety ==
  ASSUME Timely, FaultsTypeOK, FaultsTypeOK', SafetyInv, Kept',
         ReceiverFault, UNCHANGED <<senderVars, buf_ack, pollin>>
  PROVE  SafetyInv'
<1>1. TypeOK /\ TypeOK' /\ UNCHANGED senderVars  BY DEF FaultsTypeOK
<1>2. ASSUME Unmoved, UNCHANGED <<acks, sIn, created, ackQueue>>,
             rpc' # "final",
             ArriveAtReceiver \/ (data' = data /\ rIn' = NoInput)
      PROVE  SafetyInv'
  BY <1>1, <1>2, IdleSafety
<1>3. CASE RGivesUp \/ RPollFails \/ RSocketReadFails
  <2>1. /\ Unmoved /\ UNCHANGED <<acks, sIn, created, ackQueue>>
        /\ rpc' # "final" /\ ArriveAtReceiver
    BY <1>3 DEF RGivesUp, RPollFails, RSocketReadFails, Unmoved, linkVars,
                AfterPoll, ArriveAtReceiver
  <2> QED  BY <1>2, <2>1
<1>4. CASE RNoPacket
  <2>1. /\ Unmoved /\ UNCHANGED <<acks, sIn, created, ackQueue>>
        /\ rpc' # "final" /\ data' = data /\ rIn' = NoInput
    BY <1>4 DEF RNoPacket, ReadThen
  <2> QED  BY <1>2, <2>1
<1>5. CASE RNoReply
  <2>1. /\ ReadThen("timeout") /\ PayloadArrives(PushArrived, FALSE)
        /\ WriteRun(InOrder(PushArrived)) /\ ackQueue' = ackQueue
    BY <1>5 DEF RNoReply
  <2>2. "timeout" \in {"poll", "timeout"} /\ FALSE \in BOOLEAN
        /\ (FALSE => Ends(InOrder(PushArrived)))
    OBVIOUS
  <2> QED  BY <1>1, <2>1, <2>2, WrittenSafety
<1>6. CASE RReplyNotQueued
  <2>1. RReadSocket /\ ReadThen("poll") /\ ackQueue' = ackQueue
    BY <1>6 DEF RReplyNotQueued, RReadSocket
  <2>2. CASE Unmoved  BY <1>2, <2>1, <2>2 DEF ReadThen
  <2>3. CASE EofArrives  BY <1>1, <2>1, <2>3, EofSafety
  <2>4. CASE /\ PayloadArrives(PushArrived, Ends(InOrder(PushArrived)))
             /\ WriteRun(InOrder(PushArrived))
    <3>1. Ends(InOrder(PushArrived)) \in BOOLEAN
      BY <1>1, EndsType DEF TypeOK
    <3>2. "poll" \in {"poll", "timeout"}  OBVIOUS
    <3> QED  BY <1>1, <2>1, <2>4, <3>1, <3>2, WrittenSafety
  <2> QED  BY <1>6, <2>2, <2>3, <2>4 DEF RReplyNotQueued
<1>7. CASE RNotQueued  BY <1>1, <1>7, RefusedSafety
<1>8. ~ RFileWriteFails  BY KeptFails DEF RFileWriteFails, KeepData
<1> QED  BY <1>3, <1>4, <1>5, <1>6, <1>7, <1>8 DEF ReceiverFault

(* A step of the receiver in which no call fails. *)
LEMMA FaultsReceiverSafety ==
  ASSUME Timely, FaultsTypeOK, FaultsTypeOK', SafetyInv, ReceiverStep
  PROVE  SafetyInv'
<1>1. TypeOK /\ TypeOK' /\ UNCHANGED senderVars
  BY DEF FaultsTypeOK, ReceiverStep
<1>2. CASE WriteThen(AfterPoll)
  <2>1. AfterPoll \in {"poll", "read"}  BY DEF AfterPoll
  <2> QED  BY <1>1, <1>2, <2>1, WriteSafety
<1>3. CASE RUnblocks
  <2>1. /\ Unmoved /\ UNCHANGED <<acks, sIn, created, ackQueue>>
        /\ rpc' # "final" /\ ArriveAtReceiver
    BY <1>3 DEF RUnblocks, Blocked, receiverVars, Unmoved
  <2> QED  BY <1>1, <2>1, IdleSafety
<1>4. CASE ReceiverNext  BY <1>1, <1>4, ReceiverStepSafety
<1> QED  BY <1>2, <1>3, <1>4 DEF ReceiverStep, ReceiverNext

-----------------------------------------------------------------------------
(* As long as nothing was dropped, every step keeps the invariant.         *)
LEMMA FaultsStepSafety ==
  ASSUME Timely, FaultsTypeOK, FaultsTypeOK', SafeIfKept, RereadInv,
         [FaultsNext]_allVars
  PROVE  SafeIfKept' /\ RereadInv'
<1> SUFFICES ASSUME Kept'  PROVE SafetyInv' /\ Acted'
  BY DEF SafeIfKept, RereadInv
<1>1. SafetyInv /\ Acted  BY KeptStays DEF SafeIfKept, RereadInv
<1>2. TypeOK /\ TypeOK'  BY DEF FaultsTypeOK
<1>3. CASE SenderStep  BY <1>1, <1>3, FaultsSenderSafety
<1>4. CASE ReceiverStep
  <2>1. UNCHANGED <<senderVars, buf_ack>>  BY <1>4 DEF ReceiverStep
  <2> QED  BY <1>1, <1>4, <2>1, FaultsReceiverSafety, ReceiverActed
<1>5. CASE SenderFault /\ UNCHANGED <<receiverVars, pollin>>
  BY <1>1, <1>5, SenderFaultSafety
<1>6. CASE ReceiverFault /\ UNCHANGED <<senderVars, buf_ack, pollin>>
  BY <1>1, <1>6, ReceiverFaultSafety, ReceiverActed
<1>7. CASE Second \/ UNCHANGED allVars
  <2>1. [Next]_vars /\ buf_ack' = buf_ack
    BY <1>7 DEF Second, faultVars, allVars, Next
  <2>2. SafetyInv'  BY <1>1, <1>2, <2>1, StepSafety
  <2>3. /\ created' = created /\ nWaited' = nWaited /\ spc' = spc
        /\ Len(buf') = Len(buf) /\ created \in Nat /\ nWaited \in Nat
    BY <1>2, <1>7, Numbers
    DEF Second, Tick, Aged, allVars, vars, linkVars, senderVars, receiverVars
  <2>4. base' = base  BY <2>3 DEF base
  <2>5. Acted'  BY <1>1, <2>1, <2>3, <2>4, ActedStays
  <2> QED  BY <2>2, <2>5
<1> QED
  BY <1>3, <1>4, <1>5, <1>6, <1>7 DEF FaultsNext, FaultsTerminated

(* Calls that fail without dropping a packet or a payload break nothing,   *)
(* and a reply that is decoded once more does no harm (sender.c:267-271;   *)
(* receiver.c:54-59, 104-120; queue_receiver.c:18-22, 60-66): what makes   *)
(* the transfer correct holds as before, however many fail and in whatever *)
(* order.                                                                  *)
THEOREM FaultsSafety ==
  ASSUME Timely
  PROVE  FaultsSpec => [](FaultsTypeOK /\ SafeIfKept /\ RereadInv)
<1>1. FaultsInit => FaultsTypeOK /\ SafeIfKept /\ RereadInv
  <2> SUFFICES ASSUME FaultsInit
               PROVE  FaultsTypeOK /\ SafeIfKept /\ RereadInv
    OBVIOUS
  <2>1. FaultsTypeOK  BY FaultsInitType
  <2>2. SafetyInv  BY InitSafety DEF FaultsInit
  <2>3. Acted  BY DEF FaultsInit, Acted, Garbled
  <2> QED  BY <2>1, <2>2, <2>3 DEF SafeIfKept, RereadInv
<1>2. FaultsTypeOK /\ SafeIfKept /\ RereadInv /\ [FaultsNext]_allVars
        => (FaultsTypeOK /\ SafeIfKept /\ RereadInv)'
  BY FaultsStepType, FaultsStepSafety
<1> QED  BY <1>1, <1>2, PTL DEF FaultsSpec

(* As long as nothing was dropped, the sender has acted upon the reply in  *)
(* its buffer before it may decode that once more: no packet that an ACK   *)
(* there acknowledges is still in the queue (sender.c:267-271).            *)
THEOREM RereadSafe ==
  ASSUME Timely
  PROVE  FaultsSpec => []RereadInv
<1> QED  BY FaultsSafety, PTL

-----------------------------------------------------------------------------
(***************************************************************************)
(* When packets or payloads are dropped.  GapsInv is inductive as long as  *)
(* the numbers that failures may skip, two windows and the lag of the link *)
(* fit into the sequence numbers (FewGaps).                                *)
(***************************************************************************)
(* The types of what counts. *)
LEMMA GapTypes ==
  ASSUME FewGaps, FaultsTypeOK
  PROVE  /\ TypeOK /\ created \in Nat /\ nWaited \in Nat /\ gaps \in Nat
         /\ failures \in Nat /\ failures <= gaps /\ front \in Nat
         /\ MAX_BUFFER_SIZE \in Nat \ {0} /\ MaxLag \in Nat
         /\ SeqSpace \in Nat \ {0} /\ MAX_BUFFER_SIZE <= SeqSpace
         /\ 2 * MAX_BUFFER_SIZE <= SeqSpace
         /\ MaxLag + 2 * MAX_BUFFER_SIZE + 2 * gaps < SeqSpace
<1>1. /\ TypeOK /\ created \in Nat /\ nWaited \in Nat
      /\ failures \in 0 .. MaxFailures /\ readErrors \in 0 .. MaxReadErrors
  BY Numbers DEF FaultsTypeOK, TypeOK, SenderTypeOK
<1>2. /\ MAX_BUFFER_SIZE \in Nat \ {0} /\ MaxLag \in Nat
      /\ MaxReadErrors \in Nat /\ MaxFailures \in Nat
      /\ SeqSpace \in Nat \ {0}
      /\ MaxLag + 2 * (MAX_BUFFER_SIZE + MaxReadErrors + MaxFailures) < SeqSpace
  BY LinkAssumption, SenderAssumption, FaultsAssumption, SeqSpaceAssumption
  DEF FewGaps
<1>3. gaps = readErrors + failures  BY DEF gaps
<1>4. front \in Nat
  <2>1. buf \in Seq(QueuedPacket) /\ \A i \in 1 .. Len(buf) : buf[i].n \in Nat
    BY <1>1, Numbers
  <2>2. buf # << >> => 1 \in 1 .. Len(buf)  BY <2>1, EmptySeq
  <2> QED  BY <1>1, <2>1, <2>2 DEF front
<1>5. /\ gaps \in Nat /\ failures \in Nat /\ failures <= gaps
      /\ MAX_BUFFER_SIZE <= SeqSpace /\ 2 * MAX_BUFFER_SIZE <= SeqSpace
      /\ MaxLag + 2 * MAX_BUFFER_SIZE + 2 * gaps < SeqSpace
  BY ONLY <1>1, <1>2, <1>3
<1> QED  BY <1>1, <1>2, <1>4, <1>5

(* How far the two programs can be apart. *)
LEMMA GapBounds ==
  ASSUME FewGaps, FaultsTypeOK, GapsInv
  PROVE  /\ front <= created /\ created <= front + MAX_BUFFER_SIZE + gaps
         /\ front <= nWaited + MAX_BUFFER_SIZE + gaps
         /\ nWaited <= created
         /\ created <= nWaited + 2 * MAX_BUFFER_SIZE + 2 * gaps
<1>1. SenderGaps /\ ReceiverGaps  BY DEF GapsInv
<1>2. /\ created \in Nat /\ nWaited \in Nat /\ gaps \in Nat /\ front \in Nat
      /\ MAX_BUFFER_SIZE \in Nat
  BY GapTypes
<1>3. /\ front <= nWaited + MAX_BUFFER_SIZE + gaps /\ nWaited <= created
  BY <1>1 DEF ReceiverGaps
<1>4. front <= created /\ created <= front + MAX_BUFFER_SIZE + gaps
  <2>1. CASE buf = << >>
    <3>1. front = created  BY <2>1 DEF front
    <3> QED  BY ONLY <1>2, <3>1
  <2>2. CASE buf # << >>
    <3>1. /\ buf \in Seq(QueuedPacket) /\ Len(buf) \in Nat
          /\ \A i \in 1 .. Len(buf) : buf[i].n \in Nat
      BY GapTypes, Numbers
    <3>2. 1 \in 1 .. Len(buf)  BY <2>2, <3>1, EmptySeq
    <3>3. /\ front = buf[1].n /\ buf[1].n < created
          /\ created - buf[1].n <= Len(buf) - 1 + 1 + gaps
          /\ Len(buf) <= MAX_BUFFER_SIZE
      BY <1>1, <2>2, <3>2 DEF front, SenderGaps, Numbered
    <3> HIDE DEF front
    <3> QED  BY <1>2, <3>1, <3>3
  <2> QED  BY <2>1, <2>2
<1> QED  BY ONLY <1>2, <1>3, <1>4

(* Every failure counts, that of a read and that of any other call. *)
LEMMA NextGaps ==
  ASSUME FewGaps, FaultsTypeOK
  PROVE  /\ readErrors' = readErrors /\ failures' = failures => gaps' = gaps
         /\ readErrors' = readErrors /\ failures' = failures + 1
              => gaps' = gaps + 1
         /\ readErrors' = readErrors + 1 /\ failures' = failures
              => gaps' = gaps + 1
<1>1. gaps = readErrors + failures /\ gaps' = readErrors' + failures'
  BY DEF gaps
<1>2. readErrors \in Int /\ failures \in Int
  <2>1. readErrors \in Int
    BY DEF FaultsTypeOK, TypeOK, SenderTypeOK
  <2> QED  BY <2>1, GapTypes
<1>3. readErrors' = readErrors /\ failures' = failures => gaps' = gaps
  BY <1>1
<1>4. readErrors' = readErrors /\ failures' = failures + 1 => gaps' = gaps + 1
  BY ONLY <1>1, <1>2
<1>5. readErrors' = readErrors + 1 /\ failures' = failures => gaps' = gaps + 1
  BY ONLY <1>1, <1>2
<1> QED  BY <1>3, <1>4, <1>5

(* A packet that was numbered stays so, and is not the last one when one   *)
(* more is numbered.                                                       *)
LEMMA NumberedStays ==
  ASSUME NEW d, NEW c \in Int, NEW ended, NEW later, d.n \in Int,
         Numbered(d, c, ended), ~ ended
  PROVE  Numbered(d, c + 1, later)
  BY DEF Numbered

-----------------------------------------------------------------------------
(* Both programs begin at number 0, with nothing under way. *)
LEMMA InitGaps == FewGaps /\ FaultsInit => GapsInv
<1> SUFFICES ASSUME FewGaps, FaultsInit  PROVE GapsInv  OBVIOUS
<1>1. LinkInit /\ SenderInit /\ ReceiverInit /\ buf_ack = Garbled
  BY DEF FaultsInit, Init
<1>2. FaultsTypeOK  BY FaultsInitType
<1>3. ToUint8(0) = 0  BY SmallNumber, Constants
<1>4. /\ Len(buf) = 0 /\ Len(pktQueue) = 0 /\ Len(ackQueue) = 0
      /\ Len(written) = 0
  BY <1>1, EmptySeq DEF SenderInit, ReceiverInit
<1>5. created = 0 /\ nWaited = 0 /\ front = 0
  BY <1>1 DEF LinkInit, SenderInit, ReceiverInit, front
<1>6. SenderGaps
  BY <1>1, <1>3, <1>4, <1>5, GapTypes, <1>2 DEF SenderInit, SenderGaps
<1>7. ReceiverGaps
  <2>1. front <= nWaited + MAX_BUFFER_SIZE + gaps /\ nWaited <= created
    BY <1>2, <1>5, GapTypes
  <2> QED  BY <1>1, <1>3, <1>4, <1>5, <2>1 DEF ReceiverInit, ReceiverGaps
<1>8. WrittenGaps  BY <1>4 DEF WrittenGaps, WrittenOnce
<1>9. DataGaps /\ ReplyGaps
  BY <1>1, <1>4 DEF LinkInit, DataGaps, ReplyGaps, NoInput, Garbled
<1> QED  BY <1>6, <1>7, <1>8, <1>9 DEF GapsInv

-----------------------------------------------------------------------------
(* A step of the sender leaves what the receiver and the link know true:   *)
(* it numbers at most one packet, and none after the end of the file.      *)
LEMMA SenderFrame ==
  ASSUME FewGaps, FaultsTypeOK, FaultsTypeOK', GapsInv,
         UNCHANGED receiverVars, rIn' = rIn, SenderGaps',
         \/ created' = created /\ isLastAckNum' = isLastAckNum
         \/ created' = created + 1 /\ ~ isLastAckNum,
         front' <= nWaited + MAX_BUFFER_SIZE + gaps',
         acks' \subseteq acks,
         \A d \in data' : d.length # GARBAGE =>
            d \in data \/ Numbered(d, created', isLastAckNum'),
         sIn'.status = "ok" =>
            /\ Truthful(sIn'.pkt, created, nWaited)
            /\ created' - sIn'.pkt.n <= MaxLag + Overtaking',
         buf_ack'.status = "ok" =>
            /\ Truthful(buf_ack'.pkt, created, nWaited)
            /\ front' - buf_ack'.pkt.n <= MaxLag + MAX_BUFFER_SIZE + gaps'
  PROVE  GapsInv'
<1>1. /\ created \in Int /\ created' \in Int /\ nWaited \in Int
      /\ created <= created' /\ nWaited <= nWaited
      /\ isLastAckNum \in BOOLEAN /\ isLastAckNum' \in BOOLEAN
  <2>1. isLastAckNum \in BOOLEAN /\ isLastAckNum' \in BOOLEAN
        /\ created' \in Int
    BY DEF FaultsTypeOK, TypeOK, LinkTypeOK, SenderTypeOK
  <2>2. created \in Int /\ nWaited \in Int  BY GapTypes
  <2> QED  BY <2>1, <2>2
<1>2. /\ nWaited' = nWaited /\ pktQueue' = pktQueue /\ ackQueue' = ackQueue
      /\ written' = written /\ waitedSeqNum' = waitedSeqNum /\ rpc' = rpc
      /\ isFinalSeqNum' = isFinalSeqNum /\ finalSeqNum' = finalSeqNum
  BY DEF receiverVars
<1>3. ReceiverGaps /\ WrittenGaps /\ DataGaps /\ ReplyGaps /\ TypeOK
  BY GapTypes DEF GapsInv
<1>4. ASSUME NEW d, d.n \in Int, Numbered(d, created, isLastAckNum)
      PROVE  Numbered(d, created', isLastAckNum')
  <2>1. CASE created' = created + 1 /\ ~ isLastAckNum
    BY <1>1, <1>4, <2>1, NumberedStays
  <2> QED  BY <1>4, <2>1
<1>5. ASSUME NEW a, a.n \in Int, Truthful(a, created, nWaited)
      PROVE  Truthful(a, created', nWaited')
  BY <1>1, <1>2, <1>5, TruthfulStays
<1>6. Reached => Reached'  BY <1>2 DEF Reached
<1>7. ReceiverGaps'
  <2>1. nWaited' <= created'  BY <1>1, <1>2, <1>3 DEF ReceiverGaps
  <2>2. ASSUME NEW i \in 1 .. Len(pktQueue)
        PROVE  Numbered(pktQueue[i], created', isLastAckNum')
    <3>1. pktQueue[i].n \in Int  BY <1>3, Numbers
    <3> QED  BY <1>3, <1>4, <3>1 DEF ReceiverGaps
  <2>3. isFinalSeqNum => created' = created /\ isLastAckNum' = isLastAckNum
    BY <1>3 DEF ReceiverGaps
  <2> QED  BY <1>2, <1>3, <1>6, <2>1, <2>2, <2>3 DEF ReceiverGaps
<1>8. WrittenGaps'  BY <1>2, <1>3 DEF WrittenGaps, WrittenOnce
<1>9. DataGaps'
  <2>1. ASSUME NEW d \in data', d.length # GARBAGE
        PROVE  Numbered(d, created', isLastAckNum')
    <3>1. CASE d \in data
      <4>1. d.n \in Int  BY <1>3, <3>1, Numbers
      <4> QED  BY <1>3, <1>4, <2>1, <3>1, <4>1 DEF DataGaps
    <3> QED  BY <2>1, <3>1
  <2>2. ASSUME rIn.status \in {"ok", "tr"}
        PROVE  /\ Numbered(rIn.pkt, created', isLastAckNum')
               /\ nWaited - rIn.pkt.n <= MaxLag
    <3>1. rIn.pkt.n \in Int  BY <1>3, <2>2, Inputs
    <3> QED  BY <1>3, <1>4, <2>2, <3>1 DEF DataGaps
  <2> QED  BY <1>2, <2>1, <2>2 DEF DataGaps
<1>10. ReplyGaps'
  <2>1. ASSUME NEW i \in 1 .. Len(ackQueue)
        PROVE  /\ Truthful(ackQueue[i], created', nWaited')
               /\ ackQueue[i].trFlag => Reached'
    <3>1. ackQueue[i].n \in Int  BY <1>3, Numbers
    <3> QED  BY <1>3, <1>5, <1>6, <3>1 DEF ReplyGaps
  <2>2. ASSUME NEW a \in acks'  PROVE Truthful(a, created', nWaited')
    <3>1. a \in acks /\ a.n \in Int  BY <1>3, Numbers
    <3> QED  BY <1>3, <1>5, <3>1 DEF ReplyGaps
  <2>3. sIn'.status = "ok" => Truthful(sIn'.pkt, created', nWaited')
    <3>1. TypeOK'  BY DEF FaultsTypeOK
    <3>2. sIn'.status = "ok" => sIn'.pkt \in AckPacket
      BY <3>1 DEF TypeOK, LinkTypeOK, NoInput, Garbled
    <3> QED  BY <1>5, <3>2 DEF AckPacket
  <2>4. buf_ack'.status = "ok" => Truthful(buf_ack'.pkt, created', nWaited')
    <3>1. buf_ack'.status = "ok" => buf_ack'.pkt \in AckPacket
      BY DEF FaultsTypeOK, Garbled
    <3> QED  BY <1>5, <3>1 DEF AckPacket
  <2> QED  BY <1>2, <2>1, <2>2, <2>3, <2>4 DEF ReplyGaps
<1> QED  BY <1>7, <1>8, <1>9, <1>10 DEF GapsInv

(* A step of the receiver leaves what the sender and the link know true,   *)
(* as long as it passes no number that was not given yet.                  *)
LEMMA ReceiverFrame ==
  ASSUME FewGaps, FaultsTypeOK, FaultsTypeOK', GapsInv,
         UNCHANGED <<senderVars, buf_ack, created, sIn>>, data' \subseteq data,
         failures' \in {failures, failures + 1}, nWaited <= nWaited',
         nWaited' <= created,
         \A a \in acks' : a \in acks \/ Truthful(a, created, nWaited'),
         rIn'.status \in {"ok", "tr"} =>
            /\ Numbered(rIn'.pkt, created, isLastAckNum)
            /\ nWaited' - rIn'.pkt.n <= MaxLag,
         waitedSeqNum' = ToUint8(nWaited'),
         \A i \in 1 .. Len(pktQueue') :
            /\ nWaited' < pktQueue'[i].n
            /\ pktQueue'[i].n < nWaited' + MAX_BUFFER_SIZE
            /\ Numbered(pktQueue'[i], created, isLastAckNum),
         Ordered(pktQueue'),
         isFinalSeqNum' => isLastAckNum /\ finalSeqNum' = ToUint8(created - 1),
         rpc' = "final" => Reached', WrittenGaps',
         \A i \in 1 .. Len(ackQueue') :
            /\ Truthful(ackQueue'[i], created, nWaited')
            /\ ackQueue'[i].trFlag => Reached'
  PROVE  GapsInv'
<1>1. /\ created \in Int /\ nWaited \in Int /\ nWaited' \in Int
      /\ gaps \in Int /\ (gaps' = gaps \/ gaps' = gaps + 1) /\ failures \in Int
      /\ front \in Int /\ MAX_BUFFER_SIZE \in Int
      /\ MaxLag \in Int /\ created <= created /\ TypeOK
  <2>1. readErrors \in Int /\ readErrors' = readErrors
    BY DEF senderVars, FaultsTypeOK, TypeOK, SenderTypeOK
  <2>2. nWaited' \in Int  BY DEF FaultsTypeOK, TypeOK, ReceiverTypeOK
  <2>3. /\ created \in Int /\ nWaited \in Int /\ front \in Int /\ TypeOK
        /\ MAX_BUFFER_SIZE \in Int /\ MaxLag \in Int /\ gaps \in Int
        /\ failures \in Int
    BY GapTypes
  <2>4. gaps' = gaps \/ gaps' = gaps + 1  BY <2>1, NextGaps
  <2> QED  BY <2>2, <2>3, <2>4
<1>2. /\ spc' = spc /\ seqNum' = seqNum /\ isLastAckNum' = isLastAckNum
      /\ buf' = buf /\ created' = created /\ sIn' = sIn /\ buf_ack' = buf_ack
      /\ front' = front
  BY DEF senderVars, front
<1>3. SenderGaps /\ ReceiverGaps /\ DataGaps /\ ReplyGaps  BY DEF GapsInv
<1>4. ASSUME NEW a, a.n \in Int, Truthful(a, created, nWaited)
      PROVE  Truthful(a, created, nWaited')
  BY <1>1, <1>4, TruthfulStays
<1>5. Reached => Reached'  BY <1>1, <1>2 DEF Reached
<1>6. SenderGaps'
  <2>1. ASSUME NEW i \in 1 .. Len(buf)
        PROVE  created - buf[i].n <= Len(buf) - i + 1 + gaps'
    <3> DEFINE x == created - buf[i].n
               y == Len(buf) - i + 1
               g == gaps'
    <3>1. x <= y + gaps  BY <1>3 DEF SenderGaps
    <3>2. buf[i].n \in Int /\ Len(buf) \in Int /\ i \in Int
      BY <1>1, Numbers
    <3>3. x \in Int /\ y \in Int /\ (g = gaps \/ g = gaps + 1)
      BY <1>1, <3>2
    <3> HIDE DEF x, y, g
    <3>4. x <= y + g  BY ONLY <1>1, <3>1, <3>3
    <3> QED  BY <3>4 DEF x, y, g
  <2> QED  BY <1>2, <1>3, <1>5, <2>1 DEF SenderGaps
<1>7. ReceiverGaps'
  <2>1. front' <= nWaited' + MAX_BUFFER_SIZE + gaps'
    <3>1. front <= nWaited + MAX_BUFFER_SIZE + gaps
      BY <1>3 DEF ReceiverGaps
    <3> QED  BY <1>1, <1>2, <3>1
  <2> QED  BY <1>2, <2>1 DEF ReceiverGaps, Ordered
<1>8. DataGaps'
  <2>1. \A d \in data' :
           d.length # GARBAGE => Numbered(d, created, isLastAckNum)
    BY <1>3 DEF DataGaps
  <2> QED  BY <1>2, <2>1 DEF DataGaps
<1>9. ReplyGaps'
  <2>1. ASSUME NEW a \in acks'  PROVE Truthful(a, created, nWaited')
    <3>1. CASE a \in acks
      <4>1. a.n \in Int  BY <1>1, <3>1, Numbers
      <4> QED  BY <1>3, <1>4, <3>1, <4>1 DEF ReplyGaps
    <3> QED  BY <3>1
  <2>2. sIn.status = "ok" =>
           /\ Truthful(sIn.pkt, created, nWaited')
           /\ created - sIn.pkt.n <= MaxLag + Overtaking'
    <3>1. Overtaking \in Int /\ Overtaking' \in {Overtaking, Overtaking + 1}
      <4> DEFINE more == IF spc \in {"poll", "write"} /\ ~ isLastAckNum
                         THEN 0 ELSE 1
      <4>1. more \in Int  OBVIOUS
      <4>2. Overtaking = failures + more /\ Overtaking' = failures' + more
        BY <1>2 DEF Overtaking
      <4> HIDE DEF more
      <4>3. failures \in Int /\ Overtaking = failures + more  BY <1>1, <4>2
      <4>4. Overtaking \in Int  BY ONLY <4>1, <4>3
      <4>5. failures' = failures => Overtaking' = Overtaking
        BY <4>2
      <4>6. failures' = failures + 1 => Overtaking' = Overtaking + 1
        BY ONLY <4>1, <4>2, <4>3
      <4> QED  BY <4>4, <4>5, <4>6
    <3>2. sIn.status = "ok" => sIn.pkt.n \in Int  BY <1>1, Inputs
    <3>3. sIn.status = "ok" =>
             /\ Truthful(sIn.pkt, created, nWaited)
             /\ created - sIn.pkt.n <= MaxLag + Overtaking
      BY <1>3 DEF ReplyGaps
    <3> QED  BY <1>1, <1>4, <3>1, <3>2, <3>3
  <2>3. buf_ack.status = "ok" =>
           /\ Truthful(buf_ack.pkt, created, nWaited')
           /\ front - buf_ack.pkt.n <= MaxLag + MAX_BUFFER_SIZE + gaps'
    <3>1. buf_ack.status = "ok" => buf_ack.pkt.n \in Int  BY LastReply
    <3> QED  BY <1>1, <1>3, <1>4, <3>1 DEF ReplyGaps
  <2> QED  BY <1>2, <2>1, <2>2, <2>3 DEF ReplyGaps
<1> QED  BY <1>6, <1>7, <1>8, <1>9 DEF GapsInv

-----------------------------------------------------------------------------
(* The sender's queue. *)
(* A step that keeps the numbers of the queue keeps what the sender knows. *)
LEMMA SameNumbers ==
  ASSUME FewGaps, FaultsTypeOK, FaultsTypeOK', GapsInv,
         UNCHANGED <<created, seqNum, isLastAckNum, nWaited, readErrors>>,
         failures' \in {failures, failures + 1}, Len(buf') = Len(buf),
         \A i \in 1 .. Len(buf) :
            /\ buf'[i].n = buf[i].n /\ buf'[i].seqNum = buf[i].seqNum
            /\ buf'[i].length = buf[i].length,
         spc' = "write" => Len(buf) < MAX_BUFFER_SIZE /\ ~ isLastAckNum,
         spc' = "acked" => Reached
  PROVE  SenderGaps' /\ front' = front
<1>1. SenderGaps  BY DEF GapsInv
<1>2. /\ buf \in Seq(QueuedPacket) /\ buf' \in Seq(QueuedPacket)
      /\ Len(buf) \in Nat /\ created \in Int /\ gaps \in Int
      /\ \A i \in 1 .. Len(buf) : buf[i].n \in Int
  <2>1. buf' \in Seq(QueuedPacket)
    BY DEF FaultsTypeOK, TypeOK, SenderTypeOK
  <2>2. TypeOK /\ created \in Int /\ gaps \in Int  BY GapTypes
  <2> QED  BY <2>1, <2>2, Numbers
<1>3. front' = front
  <2>1. buf' = << >> <=> buf = << >>  BY <1>2, EmptySeq
  <2>2. buf # << >> => 1 \in 1 .. Len(buf)  BY <1>2, EmptySeq
  <2> QED  BY <2>1, <2>2 DEF front
<1>4. gaps' = gaps \/ gaps' = gaps + 1  BY NextGaps
<1>5. ASSUME NEW i \in 1 .. Len(buf)
      PROVE  /\ Numbered(buf'[i], created, isLastAckNum)
             /\ created - buf'[i].n <= Len(buf) - i + 1 + gaps'
  <2>1. /\ Numbered(buf[i], created, isLastAckNum)
        /\ created - buf[i].n <= Len(buf) - i + 1 + gaps
    BY <1>1 DEF SenderGaps
  <2>2. Numbered(buf'[i], created, isLastAckNum)  BY <2>1 DEF Numbered
  <2>3. buf[i].n \in Int  BY <1>2
  <2>4. created - buf[i].n <= Len(buf) - i + 1 + gaps'
    BY <1>2, <1>4, <2>1, <2>3
  <2> QED  BY <2>2, <2>4
<1>6. SenderGaps'  BY <1>1, <1>5 DEF SenderGaps, Reached
<1> QED  BY <1>3, <1>6

(* Packets at the head of the queue are forgotten. *)
LEMMA FewerNumbers ==
  ASSUME FewGaps, FaultsTypeOK, FaultsTypeOK', GapsInv,
         UNCHANGED <<created, seqNum, isLastAckNum, readErrors>>,
         failures' \in {failures, failures + 1},
         NEW k \in 0 .. Len(buf), buf' = SubSeq(buf, k + 1, Len(buf)),
         spc' \notin {"write", "acked"}
  PROVE  SenderGaps' /\ front' \in Nat /\ front' <= created
<1>1. SenderGaps  BY DEF GapsInv
<1>2. /\ buf \in Seq(QueuedPacket) /\ buf' \in Seq(QueuedPacket)
      /\ Len(buf) \in Nat /\ created \in Nat /\ gaps \in Int
      /\ MAX_BUFFER_SIZE \in Nat
      /\ \A i \in 1 .. Len(buf) : buf[i].n \in Nat
  <2>1. buf' \in Seq(QueuedPacket)
    BY DEF FaultsTypeOK, TypeOK, SenderTypeOK
  <2>2. TypeOK /\ gaps \in Int /\ MAX_BUFFER_SIZE \in Nat  BY GapTypes
  <2> QED  BY <2>1, <2>2, Numbers
<1>3. /\ Len(buf') = Len(buf) - k
      /\ \A i \in 1 .. Len(buf) - k : buf'[i] = buf[k + i]
  <2>1. k + 1 \in Nat \ {0} /\ Len(buf) \in 0 .. Len(buf)  BY <1>2
  <2>2. /\ Len(buf') = IF k + 1 <= Len(buf) THEN Len(buf) - (k + 1) + 1 ELSE 0
        /\ \A i \in 1 .. Len(buf) - (k + 1) + 1 : buf'[i] = buf[k + 1 + i - 1]
    BY <1>2, <2>1, Piece
  <2> QED  BY <1>2, <2>2
<1>4. gaps' = gaps \/ gaps' = gaps + 1  BY NextGaps
<1>5. ASSUME NEW i \in 1 .. Len(buf')
      PROVE  /\ k + i \in 1 .. Len(buf) /\ buf'[i] = buf[k + i]
             /\ Numbered(buf'[i], created, isLastAckNum)
             /\ created - buf'[i].n <= Len(buf') - i + 1 + gaps'
  <2>1. k + i \in 1 .. Len(buf) /\ i \in 1 .. Len(buf) - k
    BY <1>2, <1>3
  <2>2. buf'[i] = buf[k + i]  BY <1>3, <2>1
  <2>3. /\ Numbered(buf[k + i], created, isLastAckNum)
        /\ created - buf[k + i].n <= Len(buf) - (k + i) + 1 + gaps
    BY <1>1, <2>1 DEF SenderGaps
  <2>4. buf[k + i].n \in Int  BY <1>2, <2>1
  <2> DEFINE x == buf[k + i].n
  <2>5. created - x <= Len(buf) - k - i + 1 + gaps'
    <3>1. x \in Int /\ created - x <= Len(buf) - (k + i) + 1 + gaps
      BY <2>3, <2>4
    <3> HIDE DEF x
    <3> QED  BY <1>2, <1>4, <3>1
  <2> QED  BY <1>3, <2>1, <2>2, <2>3, <2>5
<1>6. ASSUME NEW i \in 1 .. Len(buf'), NEW j \in 1 .. Len(buf'), i < j
      PROVE  buf'[i].n < buf'[j].n
  <2>1. k + i \in 1 .. Len(buf) /\ k + j \in 1 .. Len(buf) /\ k + i < k + j
    BY <1>2, <1>3, <1>5, <1>6
  <2>2. buf[k + i].n < buf[k + j].n  BY <1>1, <2>1 DEF SenderGaps
  <2> QED  BY <1>5, <2>2
<1>7. SenderGaps'
  <2>1. Len(buf') <= MAX_BUFFER_SIZE
    <3>1. Len(buf) <= MAX_BUFFER_SIZE  BY <1>1 DEF SenderGaps
    <3> QED  BY <1>2, <1>3, <3>1
  <2> QED  BY <1>1, <1>5, <1>6, <2>1 DEF SenderGaps
<1>8. front' \in Nat /\ front' <= created
  <2>1. CASE buf' = << >>
    <3>1. front' = created  BY <2>1 DEF front
    <3> QED  BY <1>2, <3>1
  <2>2. CASE buf' # << >>
    <3>1. 1 \in 1 .. Len(buf')  BY <1>2, <1>3, <2>2, EmptySeq
    <3>2. /\ buf'[1].n < created /\ k + 1 \in 1 .. Len(buf)
          /\ buf'[1] = buf[k + 1]
      BY <1>5, <3>1 DEF Numbered
    <3>3. front' = buf[k + 1].n /\ buf[k + 1].n < created /\ buf[k + 1].n \in Nat
      BY <1>2, <2>2, <3>2 DEF front
    <3> QED  BY <1>2, <3>3
  <2> QED  BY <2>1, <2>2
<1> QED  BY <1>7, <1>8

(* A packet gets the next number and joins the queue. *)
LEMMA OneMoreNumber ==
  ASSUME FewGaps, FaultsTypeOK, FaultsTypeOK', GapsInv, spc = "write",
         NEW len \in {EOF_LENGTH, 1},
         Number([seqNum |-> seqNum, length |-> len, n |-> created]),
         buf' = Append(buf, Queued([seqNum |-> seqNum, length |-> len,
                                    n |-> created])),
         isLastAckNum' = (len = EOF_LENGTH), UNCHANGED <<readErrors, failures>>,
         spc' \notin {"write", "acked"}
  PROVE  /\ SenderGaps' /\ front' = front
         /\ Numbered([seqNum |-> seqNum, length |-> len, n |-> created],
                     created', isLastAckNum')
<1> DEFINE d == [seqNum |-> seqNum, length |-> len, n |-> created]
<1>1. SenderGaps  BY DEF GapsInv
<1>2. /\ ~ isLastAckNum /\ Len(buf) < MAX_BUFFER_SIZE
      /\ seqNum = ToUint8(created)
  BY <1>1 DEF SenderGaps
<1>3. seqNum' = Plus(seqNum, 1) /\ created' = created + 1  BY DEF Number
<1>4. /\ buf \in Seq(QueuedPacket) /\ Len(buf) \in Nat /\ created \in Nat
      /\ gaps \in Nat /\ MAX_BUFFER_SIZE \in Nat /\ SeqSpace \in Nat \ {0}
      /\ \A i \in 1 .. Len(buf) : buf[i].n \in Nat
  <2>1. TypeOK /\ gaps \in Nat /\ MAX_BUFFER_SIZE \in Nat
        /\ SeqSpace \in Nat \ {0}
    BY GapTypes
  <2> QED  BY <2>1, Numbers
<1>5. d.seqNum = seqNum /\ d.length = len /\ d.n = created  OBVIOUS
<1>6. Numbered(d, created + 1, len = EOF_LENGTH)
  BY <1>2, <1>4, <1>5 DEF Numbered
<1>7. /\ Queued(d).n = created /\ Queued(d).seqNum = seqNum
      /\ Queued(d).length = len
  BY DEF Queued
<1>8. /\ Len(buf') = Len(buf) + 1
      /\ \A i \in 1 .. Len(buf) : buf'[i] = buf[i]
      /\ buf'[Len(buf) + 1] = Queued(d)
  <2>1. Queued(d) \in QueuedPacket
    BY <1>4, Constants DEF Queued, QueuedPacket, FaultsTypeOK, TypeOK, SenderTypeOK
  <2>2. buf' = Append(buf, Queued(d))  OBVIOUS
  <2> HIDE DEF d
  <2> QED  BY <1>4, <2>1, <2>2, AppendProperties
<1>9. gaps' = gaps  BY DEF gaps
<1>10. Numbered(Queued(d), created', isLastAckNum')
  BY <1>3, <1>5, <1>6, <1>7 DEF Numbered
<1> HIDE DEF d
<1>11. ASSUME NEW i \in 1 .. Len(buf')
       PROVE  /\ Numbered(buf'[i], created', isLastAckNum')
              /\ created' - buf'[i].n <= Len(buf') - i + 1 + gaps'
              /\ i \in 1 .. Len(buf) \/ i = Len(buf) + 1
  <2>1. CASE i \in 1 .. Len(buf)
    <3>1. /\ Numbered(buf[i], created, isLastAckNum)
          /\ created - buf[i].n <= Len(buf) - i + 1 + gaps
      BY <1>1, <2>1 DEF SenderGaps
    <3>2. buf'[i] = buf[i] /\ buf[i].n \in Int /\ i \in Int
      BY <1>4, <1>8, <2>1
    <3>3. Numbered(buf[i], created + 1, isLastAckNum')
      BY <1>2, <1>4, <3>1, <3>2, NumberedStays
    <3>4. created + 1 - buf[i].n <= Len(buf) + 1 - i + 1 + gaps
      <4> DEFINE x == buf[i].n
      <4>1. /\ x \in Int /\ i \in Int /\ created - x <= Len(buf) - i + 1 + gaps
            /\ created \in Int /\ Len(buf) \in Int /\ gaps \in Int
        BY <1>4, <3>1, <3>2
      <4> HIDE DEF x
      <4>2. created + 1 - x <= Len(buf) + 1 - i + 1 + gaps  BY ONLY <4>1
      <4> QED  BY <4>2 DEF x
    <3>5. created' - buf'[i].n <= Len(buf') - i + 1 + gaps'
      <4>1. created' = created + 1  BY <1>3
      <4> QED  BY <1>4, <1>8, <1>9, <3>2, <3>4, <4>1
    <3>6. Numbered(buf'[i], created', isLastAckNum')  BY <1>3, <3>2, <3>3
    <3> QED  BY <2>1, <3>5, <3>6
  <2>2. CASE i = Len(buf) + 1
    <3>1. created + 1 - created <= Len(buf) + 1 - (Len(buf) + 1) + 1 + gaps
      BY <1>4
    <3>2. buf'[i] = Queued(d)  BY <1>8, <2>2
    <3>3. created' - buf'[i].n <= Len(buf') - i + 1 + gaps'
      <4>1. created' = created + 1 /\ buf'[i].n = created
        BY <1>3, <1>7, <3>2
      <4> QED  BY <1>4, <1>8, <1>9, <2>2, <3>1, <4>1
    <3> QED  BY <1>10, <2>2, <3>2, <3>3
  <2> QED  BY <1>4, <1>8, <2>1, <2>2
<1>12. ASSUME NEW i \in 1 .. Len(buf'), NEW j \in 1 .. Len(buf'), i < j
       PROVE  buf'[i].n < buf'[j].n
  <2>1. i \in 1 .. Len(buf)  BY <1>4, <1>8, <1>12
  <2>2. CASE j \in 1 .. Len(buf)
    BY <1>1, <1>8, <1>12, <2>1, <2>2 DEF SenderGaps
  <2>3. CASE j = Len(buf) + 1
    <3>1. buf[i].n < created  BY <1>1, <2>1 DEF SenderGaps, Numbered
    <3> QED  BY <1>7, <1>8, <2>1, <2>3, <3>1
  <2> QED  BY <1>11, <2>2, <2>3
<1>13. seqNum' = ToUint8(created + 1)
  BY <1>2, <1>3, <1>4, PlusRemainder
<1>14. SenderGaps'
  <2>1. Len(buf') <= MAX_BUFFER_SIZE  BY <1>2, <1>4, <1>8
  <2> QED  BY <1>3, <1>9, <1>11, <1>12, <1>13, <2>1 DEF SenderGaps
<1>15. front' = front
  <2>1. buf' # << >>
    <3>1. Len(buf') # 0  BY <1>4, <1>8
    <3> QED  BY <3>1, EmptySeq
  <2>2. CASE buf = << >>
    <3>1. Len(buf) = 0  BY <2>2
    <3>2. front = created /\ front' = buf'[1].n  BY <2>1, <2>2 DEF front
    <3> QED  BY <1>7, <1>8, <3>1, <3>2
  <2>3. CASE buf # << >>
    <3>1. 1 \in 1 .. Len(buf)  BY <1>4, <2>3, EmptySeq
    <3> QED  BY <1>8, <2>1, <2>3, <3>1 DEF front
  <2> QED  BY <2>2, <2>3
<1>16. Numbered(d, created', isLastAckNum')  BY <1>3, <1>6
<1> QED  BY <1>14, <1>15, <1>16 DEF d

(* A number is given to a packet that does not join the queue. *)
LEMMA SkippedNumber ==
  ASSUME FewGaps, FaultsTypeOK, FaultsTypeOK', GapsInv, spc = "write",
         NEW d, Number(d), buf' = buf, isLastAckNum' = isLastAckNum,
         gaps' = gaps + 1, spc' \notin {"write", "acked"}
  PROVE  SenderGaps' /\ front' \in {front, front + 1}
<1>1. SenderGaps  BY DEF GapsInv
<1>2. ~ isLastAckNum /\ seqNum = ToUint8(created)
  BY <1>1 DEF SenderGaps
<1>3. seqNum' = Plus(seqNum, 1) /\ created' = created + 1  BY DEF Number
<1>4. /\ Len(buf) \in Nat /\ created \in Nat /\ gaps \in Nat
      /\ SeqSpace \in Nat \ {0}
      /\ \A i \in 1 .. Len(buf) : buf[i].n \in Nat
  <2>1. TypeOK /\ gaps \in Nat /\ SeqSpace \in Nat \ {0}  BY GapTypes
  <2> QED  BY <2>1, Numbers
<1>5. ASSUME NEW i \in 1 .. Len(buf)
      PROVE  /\ Numbered(buf[i], created', isLastAckNum')
             /\ created' - buf[i].n <= Len(buf) - i + 1 + gaps'
  <2>1. /\ Numbered(buf[i], created, isLastAckNum)
        /\ created - buf[i].n <= Len(buf) - i + 1 + gaps
    BY <1>1 DEF SenderGaps
  <2>2. buf[i].n \in Int /\ i \in Int  BY <1>4
  <2>3. Numbered(buf[i], created + 1, isLastAckNum')
    BY <1>2, <1>4, <2>1, <2>2, NumberedStays
  <2> DEFINE n == buf[i].n
             y == Len(buf) - i + 1
  <2>4. created + 1 - n <= y + (gaps + 1)
    <3>1. n \in Int /\ y \in Int /\ created - n <= y + gaps
      BY <1>4, <2>1, <2>2
    <3> HIDE DEF n, y
    <3> QED  BY ONLY <1>4, <3>1
  <2>5. created' - buf[i].n <= Len(buf) - i + 1 + gaps'
    <3>1. created' = created + 1 /\ gaps' = gaps + 1  BY <1>3
    <3>2. n \in Int /\ y \in Int  BY <1>4, <2>2
    <3> HIDE DEF n, y
    <3>3. created' - n <= y + gaps'  BY ONLY <1>4, <2>4, <3>1, <3>2
    <3> QED  BY <3>3 DEF n, y
  <2> QED  BY <1>3, <2>3, <2>5
<1>6. seqNum' = ToUint8(created + 1)  BY <1>2, <1>3, <1>4, PlusRemainder
<1>7. SenderGaps'  BY <1>1, <1>2, <1>3, <1>5, <1>6 DEF SenderGaps
<1>8. front' \in {front, front + 1}  BY <1>3 DEF front
<1> QED  BY <1>7, <1>8

-----------------------------------------------------------------------------
(* The replies the sender reads. *)
(* A reply that is not too old tells the truth: the end is the end of the  *)
(* file, and an ACK that passes the window test forgets only packets that  *)
(* the receiver has moved past.                                            *)
LEMMA ReplyMeaning ==
  ASSUME FewGaps, FaultsTypeOK, GapsInv, NEW a \in AckPacket,
         Truthful(a, created, nWaited),
         front - a.n <= MaxLag + MAX_BUFFER_SIZE + gaps
  PROVE  /\ IsFinalAck(a) => Reached
         /\ buf # << >> /\ a.type = "ACK" =>
               \/ Acknowledged(a) = buf
               \/ /\ front < a.n
                  /\ \E k \in 0 .. Len(buf) :
                        Acknowledged(a) = SubSeq(buf, k + 1, Len(buf))
<1> DEFINE n == a.n
           s == Minus(a.seqNum, 1)
           W == MAX_BUFFER_SIZE
           g == gaps
<1>1. SenderGaps /\ TypeOK  BY GapTypes DEF GapsInv
<1>2. /\ n \in Nat /\ a.window = W /\ a.seqNum = ToUint8(n)
      /\ a.type \in {"ACK", "NACK"}
      /\ a.type = "NACK" => n < created
      /\ a.type = "ACK" => n <= nWaited
  BY DEF Truthful, AckPacket
<1>3. /\ created \in Nat /\ nWaited \in Nat /\ g \in Nat /\ front \in Nat
      /\ W \in Nat \ {0} /\ MaxLag \in Nat /\ SeqSpace \in Nat \ {0}
      /\ W <= SeqSpace /\ MaxLag + 2 * W + 2 * g < SeqSpace
      /\ front - n <= MaxLag + W + g
  BY GapTypes
<1>4. /\ front <= created /\ created <= front + W + g /\ nWaited <= created
  BY GapBounds
<1> HIDE DEF n, W, g
<1>5. IsFinalAck(a) => Reached
  <2> SUFFICES ASSUME IsFinalAck(a)  PROVE Reached  OBVIOUS
  <2>1. isLastAckNum /\ ToUint8(n) = ToUint8(created)
    BY <1>1, <1>2 DEF IsFinalAck, SenderGaps
  <2>2. created - n < SeqSpace /\ n - created < SeqSpace
    <3>1. n <= created  BY <1>2, <1>3, <1>4
    <3> QED  BY ONLY <1>2, <1>3, <1>4, <3>1
  <2>3. n = created
    <3>1. n \in Int /\ created \in Int  BY <1>2, <1>3
    <3> QED  BY <1>3, <2>1, <2>2, <3>1, SameRemainder
  <2>4. nWaited = created  BY <1>2, <1>3, <1>4, <2>3
  <2> QED  BY <2>1, <2>4 DEF Reached
<1>6. ASSUME buf # << >>, a.type = "ACK", Acknowledged(a) # buf
      PROVE  /\ front < n
             /\ \E k \in 0 .. Len(buf) :
                   Acknowledged(a) = SubSeq(buf, k + 1, Len(buf))
  <2>1. buf \in Seq(QueuedPacket) /\ Len(buf) \in Nat /\ 1 \in 1 .. Len(buf)
    BY <1>1, <1>6, Numbers, EmptySeq
  <2>2. buf[1].seqNum = ToUint8(front)
    BY <1>1, <1>6, <2>1 DEF SenderGaps, Numbered, front
  <2>3. s = ToUint8(n - 1)
    <3>1. Minus(ToUint8(n), 1) = ToUint8(n - 1)  BY <1>2, MinusConstant
    <3> QED  BY <1>2, <3>1
  <2>4. /\ Acknowledged(a) = queue_delete(buf, s)
        /\ InWindow(ToUint8(n - 1), ToUint8(front), W)
    BY <1>2, <1>6, <2>2, <2>3 DEF Acknowledged
  <2>5. front <= n - 1
    <3>1. /\ n - 1 \in Int /\ front \in Int
          /\ W - SeqSpace <= n - 1 - front /\ n - 1 - front < SeqSpace
      <4>1. n <= nWaited  BY <1>2, <1>6
      <4> QED  BY ONLY <1>2, <1>3, <1>4, <4>1
    <3>2. W \in Nat /\ 1 <= W /\ W <= SeqSpace  BY <1>3
    <3> QED  BY <2>4, <3>1, <3>2, WindowTest
  <2>6. front < n  BY <1>2, <1>3, <2>5
  <2>7. FindIndex(buf, s) \in 0 .. Len(buf)  BY <2>1, FindIndexPosition
  <2>8. CASE FindIndex(buf, s) = 0
    <3>1. Acknowledged(a) = << >>  BY <2>4, <2>8 DEF queue_delete
    <3>2. SubSeq(buf, Len(buf) + 1, Len(buf)) = << >>
      <4>1. Len(buf) + 1 \in Nat \ {0} /\ Len(buf) \in 0 .. Len(buf)
        BY <2>1
      <4>2. /\ SubSeq(buf, Len(buf) + 1, Len(buf)) \in Seq(QueuedPacket)
            /\ Len(SubSeq(buf, Len(buf) + 1, Len(buf))) = 0
        BY <2>1, <4>1, Piece
      <4> QED  BY <4>2, EmptySeq
    <3>3. Len(buf) \in 0 .. Len(buf)  BY <2>1
    <3> QED  BY <2>6, <3>1, <3>2, <3>3
  <2>9. CASE FindIndex(buf, s) # 0
    <3>1. Acknowledged(a) = SubSeq(buf, FindIndex(buf, s) + 1, Len(buf))
      BY <2>4, <2>9 DEF queue_delete
    <3> QED  BY <2>6, <2>7, <3>1
  <2> QED  BY <2>8, <2>9
<1> QED  BY <1>5, <1>6 DEF n

(* Whatever reply the sender acts upon, for the first time or once more.   *)
LEMMA ActUponGaps ==
  ASSUME FewGaps, FaultsTypeOK, FaultsTypeOK', GapsInv, UNCHANGED receiverVars,
         NEW in \in ReplyRead,
         in.status = "ok" =>
            /\ Truthful(in.pkt, created, nWaited)
            /\ front - in.pkt.n <= MaxLag + MAX_BUFFER_SIZE + gaps,
         OnBad(in) \/ OnFinal(in) \/ OnAck(in) \/ OnNack(in), buf_ack' = in,
         UNCHANGED <<data, acks, rIn, created, seqNum, isLastAckNum, readErrors>>,
         failures' \in {failures, failures + 1},
         sIn'.status = "ok" =>
            /\ Truthful(sIn'.pkt, created, nWaited)
            /\ created - sIn'.pkt.n <= MaxLag + Overtaking'
  PROVE  GapsInv'
<1>1. /\ buf \in Seq(QueuedPacket) /\ Len(buf) \in Nat
      /\ created \in Nat /\ nWaited \in Nat /\ gaps \in Nat /\ front \in Nat
      /\ MAX_BUFFER_SIZE \in Nat /\ MaxLag \in Nat
      /\ (gaps' = gaps \/ gaps' = gaps + 1)
  BY GapTypes, Numbers, NextGaps
<1>2. /\ front <= nWaited + MAX_BUFFER_SIZE + gaps
      /\ created <= front + MAX_BUFFER_SIZE + gaps
  BY GapBounds
<1>3. nWaited' = nWaited  BY DEF receiverVars
<1>4. in.status = "ok" => in.pkt \in AckPacket /\ in.pkt.n \in Nat
  BY ReplyRead_Packet DEF AckPacket
<1>5. ASSUME SenderGaps', front' <= nWaited + MAX_BUFFER_SIZE + gaps',
             in.status = "ok" =>
                front' - in.pkt.n <= MaxLag + MAX_BUFFER_SIZE + gaps'
      PROVE  GapsInv'
  <2>1. /\ rIn' = rIn /\ acks' \subseteq acks
        /\ created' = created /\ isLastAckNum' = isLastAckNum
        /\ \A d \in data' : d.length # GARBAGE =>
              d \in data \/ Numbered(d, created', isLastAckNum')
    OBVIOUS
  <2>2. buf_ack'.status = "ok" =>
           /\ Truthful(buf_ack'.pkt, created, nWaited)
           /\ front' - buf_ack'.pkt.n <= MaxLag + MAX_BUFFER_SIZE + gaps'
    BY <1>5
  <2>3. sIn'.status = "ok" =>
           /\ Truthful(sIn'.pkt, created, nWaited)
           /\ created' - sIn'.pkt.n <= MaxLag + Overtaking'
    <3>1. created' = created  BY <2>1
    <3> QED  BY <3>1
  <2> QED  BY <1>5, <2>1, <2>2, <2>3, SenderFrame
<1>6. ASSUME Len(buf') = Len(buf),
             \A i \in 1 .. Len(buf) :
                /\ buf'[i].n = buf[i].n /\ buf'[i].seqNum = buf[i].seqNum
                /\ buf'[i].length = buf[i].length,
             spc' # "write", spc' = "acked" => Reached
      PROVE  GapsInv'
  <2>1. SenderGaps' /\ front' = front  BY <1>3, <1>6, SameNumbers
  <2>2. front' <= nWaited + MAX_BUFFER_SIZE + gaps'
    <3>1. front <= nWaited + MAX_BUFFER_SIZE + gaps'  BY <1>1, <1>2
    <3> QED  BY <2>1, <3>1
  <2>3. in.status = "ok" =>
           front' - in.pkt.n <= MaxLag + MAX_BUFFER_SIZE + gaps'
    <3> SUFFICES ASSUME in.status = "ok"
                 PROVE  front' - in.pkt.n <= MaxLag + MAX_BUFFER_SIZE + gaps'
      OBVIOUS
    <3> DEFINE n == in.pkt.n
    <3>1. n \in Int /\ front - n <= MaxLag + MAX_BUFFER_SIZE + gaps  BY <1>4
    <3> HIDE DEF n
    <3>2. front - n <= MaxLag + MAX_BUFFER_SIZE + gaps'
      BY ONLY <1>1, <3>1
    <3> QED  BY <2>1, <3>2 DEF n
  <2> QED  BY <1>5, <2>1, <2>2, <2>3
<1>7. CASE OnBad(in)
  <2>1. buf' = buf /\ spc' = "poll"  BY <1>7 DEF OnBad
  <2> QED  BY <1>6, <2>1
<1>8. CASE OnFinal(in)
  <2>1. buf' = buf /\ spc' = "acked" /\ in.status = "ok" /\ IsFinalAck(in.pkt)
    BY <1>8 DEF OnFinal
  <2>2. Reached  BY <1>4, <2>1, ReplyMeaning
  <2> QED  BY <1>6, <2>1, <2>2
<1>9. CASE OnAck(in)
  <2>1. /\ in.status = "ok" /\ in.pkt.type = "ACK"
        /\ spc' \in {"poll", "crashed"}
        /\ buf' = buf \/ (buf # << >> /\ buf' = Acknowledged(in.pkt))
    BY <1>9 DEF OnAck
  <2>2. CASE buf' = buf  BY <1>6, <2>1, <2>2
  <2>3. CASE buf' # buf
    <3>1. /\ front < in.pkt.n
          /\ \E k \in 0 .. Len(buf) : buf' = SubSeq(buf, k + 1, Len(buf))
      BY <1>4, <2>1, <2>3, ReplyMeaning
    <3>2. PICK k \in 0 .. Len(buf) : buf' = SubSeq(buf, k + 1, Len(buf))
      BY <3>1
    <3>3. SenderGaps' /\ front' \in Nat /\ front' <= created
      BY <2>1, <3>2, FewerNumbers
    <3>4. in.pkt.n \in Nat /\ in.pkt.n <= nWaited
      BY <1>4, <2>1 DEF Truthful
    <3> DEFINE later == front'
    <3>5. later \in Nat /\ later <= created  BY <3>3
    <3> HIDE DEF later
    <3>6. later <= nWaited + MAX_BUFFER_SIZE + gaps'
      <4>1. later <= nWaited + MAX_BUFFER_SIZE + gaps
        BY <1>1, <1>2, <3>1, <3>4, <3>5
      <4> QED  BY <1>1, <3>5, <4>1
    <3>7. later - in.pkt.n <= MaxLag + MAX_BUFFER_SIZE + gaps'
      <4> DEFINE n == in.pkt.n
                 g == gaps'
      <4>1. n \in Int /\ front < n /\ (g = gaps \/ g = gaps + 1)
        BY <1>1, <3>1, <3>4
      <4> HIDE DEF n, g
      <4>2. later <= n + MAX_BUFFER_SIZE + gaps
        BY ONLY <1>1, <1>2, <3>5, <4>1
      <4>3. later - n <= MaxLag + MAX_BUFFER_SIZE + g
        BY ONLY <1>1, <3>5, <4>1, <4>2
      <4> QED  BY <4>3 DEF n, g
    <3> QED  BY <1>5, <3>3, <3>6, <3>7 DEF later
  <2> QED  BY <2>2, <2>3
<1>10. CASE OnNack(in)
  <2>1. buf' = queue_find_nack(buf, in.pkt.seqNum) /\ spc' = "poll"
    BY <1>10 DEF OnNack
  <2> QED  BY <1>1, <1>6, <2>1, NackNumbers
<1> QED  BY <1>7, <1>8, <1>9, <1>10

(* What arrives at the sender was under way, and is not too old. *)
LEMMA ReplyArrives ==
  ASSUME FewGaps, FaultsTypeOK, GapsInv, ArriveAtSender
  PROVE  /\ acks' \subseteq acks
         /\ sIn'.status = "ok" =>
               \/ sIn' = sIn
               \/ /\ Truthful(sIn'.pkt, created, nWaited)
                  /\ sIn'.pkt.n \in Nat /\ created - sIn'.pkt.n <= MaxLag
<1>1. CASE UNCHANGED <<acks, sIn>>  BY <1>1
<1>2. CASE \E a \in Alive(acks, created) :
             /\ acks' \in Taken(acks, a)
             /\ sIn' \in {Intact(a)} \cup If("corrupt", {Garbled})
  <2>1. PICK a \in Alive(acks, created) :
               /\ acks' \in Taken(acks, a)
               /\ sIn' \in {Intact(a)} \cup If("corrupt", {Garbled})
    BY <1>2
  <2>2. a \in acks /\ created - a.n <= MaxLag  BY DEF Alive
  <2>3. acks' \subseteq acks  BY <2>1, TakenSubset
  <2>4. a.n \in Nat /\ Truthful(a, created, nWaited)
    <3>1. TypeOK  BY GapTypes
    <3> QED  BY <2>2, <3>1, Numbers DEF GapsInv, ReplyGaps
  <2>5. sIn' = Intact(a) \/ sIn' = Garbled  BY <2>1 DEF If
  <2> QED  BY <2>2, <2>3, <2>4, <2>5 DEF Intact, Garbled
<1> QED  BY <1>1, <1>2 DEF ArriveAtSender

(* The stages of a turn in which its packet can still be numbered. *)
TurnBegins == spc \in {"poll", "write"} /\ ~ isLastAckNum

(* A reply that waits to be read is overtaken by the packet of this turn,  *)
(* and by one more when the turn ends without reading it.                  *)
LEMMA ReplyWaits ==
  ASSUME FewGaps, FaultsTypeOK, GapsInv, sIn.status = "ok",
         NEW k \in {0, 1}, created' = created + k,
         NEW m \in {0, 1}, failures' = failures + m,
         k = 1 => TurnBegins /\ ~ TurnBegins',
         k = 0 => TurnBegins \/ ~ TurnBegins' \/ m = 1
  PROVE  created' - sIn.pkt.n <= MaxLag + Overtaking'
<1> DEFINE b == IF TurnBegins THEN 0 ELSE 1
           c == IF TurnBegins' THEN 0 ELSE 1
           n == sIn.pkt.n
<1>1. b \in {0, 1} /\ c \in {0, 1} /\ k + b <= m + c  OBVIOUS
<1>2. Overtaking = failures + b /\ Overtaking' = failures' + c
  BY DEF Overtaking, TurnBegins
<1>3. /\ n \in Int /\ created \in Int /\ failures \in Int /\ MaxLag \in Int
      /\ created - n <= MaxLag + (failures + b)
  <2>1. created - n <= MaxLag + Overtaking  BY DEF GapsInv, ReplyGaps
  <2>2. n \in Int /\ created \in Int /\ failures \in Int /\ MaxLag \in Int
    BY GapTypes, Inputs
  <2> QED  BY <1>2, <2>1, <2>2
<1> HIDE DEF b, c, n
<1>4. created + k - n <= MaxLag + (failures + m + c)
  BY ONLY <1>1, <1>3, k \in {0, 1}, m \in {0, 1}
<1>5. created' - n <= MaxLag + (failures + m + c)
  BY <1>1, <1>3, <1>4
<1>6. Overtaking' = failures + m + c  BY <1>2
<1> QED  BY <1>5, <1>6 DEF n

(* How often packets were overtaken is a number. *)
LEMMA OvertakingType ==
  ASSUME FaultsTypeOK'
  PROVE  Overtaking' \in Nat
<1>1. failures' \in Nat
  <2>1. MaxFailures \in Nat  BY FaultsAssumption
  <2> QED  BY <2>1 DEF FaultsTypeOK
<1> DEFINE c == IF TurnBegins' THEN 0 ELSE 1
<1>2. c \in Nat  OBVIOUS
<1> DEFINE f == failures'
<1>3. Overtaking' = f + c  BY DEF Overtaking, TurnBegins
<1>4. f \in Nat  BY <1>1
<1> HIDE DEF c, f
<1>5. f + c \in Nat  BY <1>2, <1>4
<1> QED  BY ONLY <1>3, <1>5

(* What becomes of the reply at the socket in a step that may let it       *)
(* arrive, and numbers no packet.                                          *)
LEMMA ReplyAtSocket ==
  ASSUME FewGaps, FaultsTypeOK, FaultsTypeOK', GapsInv, ArriveAtSender,
         created' = created, NEW m \in {0, 1}, failures' = failures + m,
         TurnBegins \/ ~ TurnBegins' \/ m = 1 \/ sIn' = NoInput
  PROVE  /\ acks' \subseteq acks
         /\ sIn'.status = "ok" =>
               /\ Truthful(sIn'.pkt, created, nWaited)
               /\ created' - sIn'.pkt.n <= MaxLag + Overtaking'
<1>1. /\ acks' \subseteq acks
      /\ sIn'.status = "ok" =>
            \/ sIn' = sIn
            \/ /\ Truthful(sIn'.pkt, created, nWaited)
               /\ sIn'.pkt.n \in Nat /\ created - sIn'.pkt.n <= MaxLag
  BY ReplyArrives
<1>2. ASSUME sIn'.status = "ok", sIn' = sIn
      PROVE  /\ Truthful(sIn'.pkt, created, nWaited)
             /\ created' - sIn'.pkt.n <= MaxLag + Overtaking'
  <2>1. 0 \in {0, 1} /\ created' = created + 0
    BY GapTypes
  <2>2. TurnBegins \/ ~ TurnBegins' \/ m = 1  BY <1>2 DEF NoInput
  <2>3. created' - sIn.pkt.n <= MaxLag + Overtaking'
    BY <1>2, <2>1, <2>2, ReplyWaits
  <2> QED  BY <1>2, <2>3 DEF GapsInv, ReplyGaps
<1>3. ASSUME sIn'.pkt.n \in Nat, created - sIn'.pkt.n <= MaxLag
      PROVE  created' - sIn'.pkt.n <= MaxLag + Overtaking'
  <2> DEFINE n == sIn'.pkt.n
             o == Overtaking'
  <2>1. /\ n \in Int /\ o \in Nat /\ created \in Int /\ MaxLag \in Int
        /\ created - n <= MaxLag
    BY <1>3, GapTypes, OvertakingType
  <2> HIDE DEF n, o
  <2>2. created - n <= MaxLag + o  BY ONLY <2>1
  <2> QED  BY <2>2 DEF n, o
<1> QED  BY <1>1, <1>2, <1>3

-----------------------------------------------------------------------------
(* The steps of the sender. *)
(* A step that reads no reply moves the sender on by a gap at most.        *)
LEMMA TurnGaps ==
  ASSUME FewGaps, FaultsTypeOK, FaultsTypeOK', GapsInv,
         UNCHANGED receiverVars, rIn' = rIn, buf_ack' = buf_ack, SenderGaps',
         \/ created' = created /\ isLastAckNum' = isLastAckNum
         \/ created' = created + 1 /\ ~ isLastAckNum,
         gaps' = gaps \/ gaps' = gaps + 1,
         front' = front \/ (front' = front + 1 /\ gaps' = gaps + 1),
         acks' \subseteq acks,
         \A d \in data' : d.length # GARBAGE =>
            d \in data \/ Numbered(d, created', isLastAckNum'),
         sIn'.status = "ok" =>
            /\ Truthful(sIn'.pkt, created, nWaited)
            /\ created' - sIn'.pkt.n <= MaxLag + Overtaking'
  PROVE  GapsInv'
<1>1. /\ front \in Int /\ gaps \in Int /\ nWaited \in Int
      /\ MAX_BUFFER_SIZE \in Int /\ MaxLag \in Int
      /\ front <= nWaited + MAX_BUFFER_SIZE + gaps
  BY GapTypes, GapBounds
<1> DEFINE f == front'
           g == gaps'
<1>2. /\ g = gaps \/ g = gaps + 1
      /\ f = front \/ (f = front + 1 /\ g = gaps + 1)
  OBVIOUS
<1> HIDE DEF f, g
<1>3. f <= nWaited + MAX_BUFFER_SIZE + g  BY ONLY <1>1, <1>2
<1>4. buf_ack.status = "ok" =>
         /\ Truthful(buf_ack.pkt, created, nWaited)
         /\ f - buf_ack.pkt.n <= MaxLag + MAX_BUFFER_SIZE + g
  <2> SUFFICES ASSUME buf_ack.status = "ok"
               PROVE  /\ Truthful(buf_ack.pkt, created, nWaited)
                      /\ f - buf_ack.pkt.n <= MaxLag + MAX_BUFFER_SIZE + g
    OBVIOUS
  <2> DEFINE n == buf_ack.pkt.n
  <2>1. /\ Truthful(buf_ack.pkt, created, nWaited)
        /\ front - n <= MaxLag + MAX_BUFFER_SIZE + gaps
    BY DEF GapsInv, ReplyGaps
  <2>2. n \in Int  BY LastReply
  <2> HIDE DEF n
  <2>3. f - n <= MaxLag + MAX_BUFFER_SIZE + g  BY ONLY <1>1, <1>2, <2>1, <2>2
  <2> QED  BY <2>1, <2>3 DEF n
<1> QED  BY <1>3, <1>4, SenderFrame DEF f, g

(* A step that keeps the numbers of the queue, and gives none.             *)
LEMMA SameQueueGaps ==
  ASSUME FewGaps, FaultsTypeOK, FaultsTypeOK', GapsInv,
         UNCHANGED receiverVars,
         UNCHANGED <<rIn, buf_ack, created, seqNum, isLastAckNum, readErrors>>,
         NEW m \in {0, 1}, failures' = failures + m, Len(buf') = Len(buf),
         \A i \in 1 .. Len(buf) :
            /\ buf'[i].n = buf[i].n /\ buf'[i].seqNum = buf[i].seqNum
            /\ buf'[i].length = buf[i].length,
         spc' = "write" => Len(buf) < MAX_BUFFER_SIZE /\ ~ isLastAckNum,
         spc' = "acked" => Reached, ArriveAtSender,
         TurnBegins \/ ~ TurnBegins' \/ m = 1 \/ sIn' = NoInput,
         \A d \in data' : d.length # GARBAGE =>
            d \in data \/ Numbered(d, created, isLastAckNum)
  PROVE  GapsInv'
<1>1. /\ acks' \subseteq acks
      /\ sIn'.status = "ok" =>
            /\ Truthful(sIn'.pkt, created, nWaited)
            /\ created' - sIn'.pkt.n <= MaxLag + Overtaking'
  BY ReplyAtSocket
<1>2. nWaited' = nWaited  BY DEF receiverVars
<1>3. failures' \in {failures, failures + 1}
  <2>1. failures \in Int  BY GapTypes
  <2> QED  BY <2>1
<1>4. SenderGaps' /\ front' = front  BY <1>2, <1>3, SameNumbers
<1>5. gaps' = gaps \/ gaps' = gaps + 1  BY <1>3, NextGaps
<1> QED  BY <1>1, <1>4, <1>5, TurnGaps

(* A packet gets a number, whatever becomes of it. *)
LEMMA NumberGaps ==
  ASSUME FewGaps, FaultsTypeOK, FaultsTypeOK', GapsInv,
         UNCHANGED <<receiverVars, rIn, sIn, buf_ack>>,
         NEW d, Number(d), spc = "write", spc' = "scan" \/ isLastAckNum',
         NEW m \in {0, 1}, failures' = failures + m,
         SenderGaps', gaps' = gaps \/ gaps' = gaps + 1,
         front' = front \/ (front' = front + 1 /\ gaps' = gaps + 1),
         d.length # GARBAGE => Numbered(d, created', isLastAckNum')
  PROVE  GapsInv'
<1>1. ~ isLastAckNum  BY DEF GapsInv, SenderGaps
<1>2. created' = created + 1 /\ acks' \subseteq acks
  BY AliveSubset DEF Number
<1>3. ASSUME NEW e \in data', e.length # GARBAGE
      PROVE  e \in data \/ Numbered(e, created', isLastAckNum')
  <2>1. data' \subseteq Alive(data, created') \cup {d}
    BY SentSubset DEF Number
  <2> QED  BY <1>3, <2>1, AliveSubset
<1>4. ASSUME sIn'.status = "ok"
      PROVE  /\ Truthful(sIn'.pkt, created, nWaited)
             /\ created' - sIn'.pkt.n <= MaxLag + Overtaking'
  <2>1. sIn.status = "ok" /\ 1 \in {0, 1}  BY <1>4
  <2>2. TurnBegins /\ ~ TurnBegins'  BY <1>1 DEF TurnBegins
  <2>3. created' - sIn.pkt.n <= MaxLag + Overtaking'
    BY <1>2, <2>1, <2>2, ReplyWaits
  <2> QED  BY <2>1, <2>3 DEF GapsInv, ReplyGaps
<1> QED  BY <1>1, <1>2, <1>3, <1>4, TurnGaps

(* A packet that is asked for, or late, is sent once more. *)
LEMMA ResendGaps ==
  ASSUME FewGaps, FaultsTypeOK, FaultsTypeOK', GapsInv,
         UNCHANGED <<receiverVars, buf_ack, failures>>,
         NEW i \in 1 .. Len(buf), SResend(i)
  PROVE  GapsInv'
<1>1. /\ buf \in Seq(QueuedPacket) /\ buf[i] \in QueuedPacket
      /\ buf' = [buf EXCEPT ![i].age = 0]
  BY GapTypes, Numbers DEF SResend
<1>2. /\ Len(buf') = Len(buf)
      /\ \A j \in 1 .. Len(buf) :
           /\ buf'[j].n = buf[j].n /\ buf'[j].seqNum = buf[j].seqNum
           /\ buf'[j].length = buf[j].length
  <2> DEFINE e == [buf[i] EXCEPT !.age = 0]
  <2>1. e.n = buf[i].n /\ e.seqNum = buf[i].seqNum /\ e.length = buf[i].length
    BY <1>1 DEF QueuedPacket
  <2>2. buf' = [buf EXCEPT ![i] = e]  BY <1>1
  <2>3. e \in QueuedPacket
    <3>1. 0 \in 0 .. AgeCap  BY Constants
    <3> QED  BY <1>1, <3>1 DEF QueuedPacket
  <2> HIDE DEF e
  <2>4. /\ Len(buf') = Len(buf)
        /\ \A j \in 1 .. Len(buf) : buf'[j] = IF j = i THEN e ELSE buf[j]
    BY <1>1, <2>2, <2>3, ExceptSeq
  <2> QED  BY <2>1, <2>4
<1>3. /\ UNCHANGED <<rIn, created, seqNum, isLastAckNum, readErrors>>
      /\ ArriveAtSender /\ spc' \in {"poll", "read"}
      /\ TurnBegins \/ ~ TurnBegins' \/ sIn' = NoInput
  BY DEF SResend, AfterScan, TurnBegins
<1>4. Numbered(Datagram(buf[i]), created, isLastAckNum)
  BY DEF GapsInv, SenderGaps, Numbered, Datagram
<1>5. ASSUME NEW d \in data', d.length # GARBAGE
      PROVE  d \in data \/ Numbered(d, created, isLastAckNum)
  <2>1. data' \subseteq data \cup {Datagram(buf[i])}
    BY SentSubset DEF SResend
  <2> QED  BY <1>4, <2>1
<1>6. 0 \in {0, 1} /\ failures' = failures + 0  BY GapTypes
<1> QED  BY <1>2, <1>3, <1>5, <1>6, SameQueueGaps

(* The sender moves on without a failure, or reads. *)
LEMMA SenderStepGaps ==
  ASSUME FewGaps, FaultsTypeOK, FaultsTypeOK', GapsInv, SenderStep
  PROVE  GapsInv'
<1>1. /\ UNCHANGED <<receiverVars, failures>> /\ SenderNext
      /\ TypeOK /\ failures \in Nat /\ gaps \in Nat
      /\ failures' = failures + 0 /\ 0 \in {0, 1}
  BY GapTypes DEF SenderStep
<1>2. CASE STimeout \/ SPoll \/ SNoResend
  <2>1. /\ UNCHANGED <<data, rIn, buf_ack, created, seqNum, isLastAckNum,
                       readErrors, buf>>
        /\ ArriveAtSender
        /\ TurnBegins \/ ~ TurnBegins' \/ sIn' = NoInput
        /\ spc' # "acked"
    <3>1. CASE STimeout
      BY <3>1 DEF STimeout, SenderStep, linkVars, TurnBegins, ArriveAtSender
    <3>2. CASE SPoll
      BY <3>2 DEF SPoll, SenderStep, TurnBegins, AfterScan
    <3>3. CASE SNoResend
      <4>1. ArriveAtSender  BY <3>3 DEF SNoResend, ArriveAtSender
      <4> QED  BY <3>3, <4>1 DEF SNoResend, SenderStep, TurnBegins, AfterScan
    <3> QED  BY <1>2, <3>1, <3>2, <3>3
  <2>2. spc' = "write" => Len(buf) < MAX_BUFFER_SIZE /\ ~ isLastAckNum
    <3> SUFFICES ASSUME spc' = "write"
                 PROVE  Len(buf) < MAX_BUFFER_SIZE /\ ~ isLastAckNum
      OBVIOUS
    <3>1. Len(buf) < size_buffer /\ ~ isLastAckNum
      BY <1>2 DEF STimeout, SPoll, SNoResend, CanSend, AfterScan
    <3>2. /\ size_buffer \in {1, MAX_BUFFER_SIZE}
          /\ MAX_BUFFER_SIZE \in Nat \ {0} /\ Len(buf) \in Nat
      BY <1>1, Numbers, GapTypes DEF TypeOK, SenderTypeOK
    <3> QED  BY <3>1, <3>2
  <2> QED  BY <1>1, <2>1, <2>2, SameQueueGaps
<1>3. CASE SSendData \/ SSendEof
  <2>1. \E len \in {EOF_LENGTH, 1} :
          /\ Number([seqNum |-> seqNum, length |-> len, n |-> created])
          /\ buf' = Append(buf, Queued([seqNum |-> seqNum, length |-> len,
                                        n |-> created]))
          /\ isLastAckNum' = (len = EOF_LENGTH)
    <3>1. CASE SSendData
      <4>1. isLastAckNum' = FALSE
        BY <3>1 DEF SSendData, GapsInv, SenderGaps, SenderStep, FaultsTypeOK,
                    TypeOK, SenderTypeOK
      <4> DEFINE d == [seqNum |-> seqNum, length |-> 1, n |-> created]
      <4>2. Number(d) /\ buf' = Append(buf, Queued(d))
        BY <3>1 DEF SSendData, queue_push
      <4>3. 1 \in {EOF_LENGTH, 1} /\ (1 = EOF_LENGTH) = FALSE
        BY DEF EOF_LENGTH
      <4> WITNESS 1 \in {EOF_LENGTH, 1}
      <4> QED  BY <4>1, <4>2, <4>3
    <3>2. CASE SSendEof  BY <3>2 DEF SSendEof, queue_push
    <3> QED  BY <1>3, <3>1, <3>2
  <2>2. PICK len \in {EOF_LENGTH, 1} :
          /\ Number([seqNum |-> seqNum, length |-> len, n |-> created])
          /\ buf' = Append(buf, Queued([seqNum |-> seqNum, length |-> len,
                                        n |-> created]))
          /\ isLastAckNum' = (len = EOF_LENGTH)
    BY <2>1
  <2> DEFINE d == [seqNum |-> seqNum, length |-> len, n |-> created]
  <2>3. /\ UNCHANGED <<rIn, sIn, buf_ack, readErrors>> /\ spc = "write"
        /\ spc' = "scan" \/ (isLastAckNum' /\ spc' = "poll")
    BY <1>3 DEF SSendData, SSendEof, SenderStep
  <2>4. SenderGaps' /\ front' = front /\ Numbered(d, created', isLastAckNum')
    BY <1>1, <2>2, <2>3, OneMoreNumber
  <2>5. gaps' = gaps  BY <1>1, <2>3 DEF gaps
  <2>6. Number(d)  BY <2>2
  <2> HIDE DEF d
  <2> QED  BY <1>1, <2>3, <2>4, <2>5, <2>6, NumberGaps
<1>4. CASE SReadFails
  <2> DEFINE d == [seqNum |-> seqNum, length |-> GARBAGE, n |-> created]
  <2>1. /\ UNCHANGED <<rIn, sIn, buf_ack, isLastAckNum>> /\ buf' = buf
        /\ spc = "write" /\ spc' = "scan" /\ Number(d)
        /\ readErrors' = readErrors + 1
    BY <1>4 DEF SReadFails, SenderStep
  <2>2. d.length = GARBAGE  OBVIOUS
  <2> HIDE DEF d
  <2>3. gaps' = gaps + 1  BY <1>1, <2>1, NextGaps
  <2>4. SenderGaps' /\ front' \in {front, front + 1}
    BY <2>1, <2>3, SkippedNumber
  <2> QED  BY <1>1, <2>1, <2>2, <2>3, <2>4, NumberGaps
<1>5. CASE \E i \in 1 .. Len(buf) : SResend(i)
  <2>1. buf_ack' = buf_ack  BY <1>5 DEF SResend, SenderStep
  <2> QED  BY <1>1, <1>5, <2>1, ResendGaps
<1>6. CASE SReadBad \/ SReadFinal \/ SReadAck \/ SReadNack
  <2>1. spc = "read" /\ buf_ack' = sIn
    BY <1>6 DEF SReadBad, SReadFinal, SReadAck, SReadNack, ReadSocket, SenderStep
  <2>2. /\ sIn \in ReplyRead /\ ReadSocket
        /\ OnBad(sIn) \/ OnFinal(sIn) \/ OnAck(sIn) \/ OnNack(sIn)
    BY <1>1, <2>1, ReadStep
  <2>3. ASSUME sIn.status = "ok"
        PROVE  /\ Truthful(sIn.pkt, created, nWaited)
               /\ front - sIn.pkt.n <= MaxLag + MAX_BUFFER_SIZE + gaps
    <3> DEFINE n == sIn.pkt.n
    <3>1. /\ Truthful(sIn.pkt, created, nWaited)
          /\ created - n <= MaxLag + Overtaking
      BY <2>3 DEF GapsInv, ReplyGaps
    <3>2. Overtaking = failures + 1  BY <2>1 DEF Overtaking
    <3>3. n \in Int  BY <1>1, <2>3, Inputs
    <3>4. /\ front \in Int /\ created \in Int /\ MaxLag \in Int
          /\ MAX_BUFFER_SIZE \in Int /\ 1 <= MAX_BUFFER_SIZE
          /\ gaps \in Int /\ failures \in Int /\ failures <= gaps
          /\ front <= created
      BY GapTypes, GapBounds
    <3> HIDE DEF n
    <3>5. created - n <= MaxLag + (failures + 1)  BY <3>1, <3>2
    <3>6. front - n <= MaxLag + MAX_BUFFER_SIZE + gaps
      BY ONLY <3>3, <3>4, <3>5
    <3> QED  BY <3>1, <3>6 DEF n
  <2>4. /\ UNCHANGED <<data, acks, rIn, created, seqNum, isLastAckNum, readErrors>>
        /\ sIn'.status # "ok"
    BY <2>2 DEF ReadSocket, NoInput
  <2>5. failures' \in {failures, failures + 1}  BY <1>1
  <2> HIDE DEF SenderStep
  <2> QED  BY <1>1, <2>1, <2>2, <2>3, <2>4, <2>5, ActUponGaps
<1> QED  BY <1>1, <1>2, <1>3, <1>4, <1>5, <1>6 DEF SenderNext

(* A call of the sender fails. *)
LEMMA SenderFaultGaps ==
  ASSUME FewGaps, FaultsTypeOK, FaultsTypeOK', GapsInv,
         SenderFault, UNCHANGED <<receiverVars, pollin>>
  PROVE  GapsInv'
<1>1. /\ failures' = failures + 1 /\ 1 \in {0, 1}
      /\ failures' \in {failures, failures + 1}
      /\ buf_ack' = buf_ack /\ readErrors' = readErrors
  <2>1. failures' = failures + 1
    BY DEF SenderFault, SSocketReadFails, SGivesUp, SNoEofPacket, SNotKept,
           SNoPayload, SNotNumbered, Fails
  <2>2. buf_ack' = buf_ack /\ readErrors' = readErrors
    BY DEF SenderFault, SSocketReadFails, SGivesUp, SNoEofPacket, SNotKept,
           SNoPayload, SNotNumbered, SWritePayload
  <2> QED  BY <2>1, <2>2
<1>2. gaps' = gaps + 1  BY <1>1, NextGaps
<1>3. CASE SSocketReadFails
  <2>1. /\ UNCHANGED <<data, acks, rIn, sIn, created, seqNum, isLastAckNum>>
        /\ OnBad(buf_ack) \/ OnFinal(buf_ack) \/ OnAck(buf_ack) \/ OnNack(buf_ack)
    BY <1>3 DEF SSocketReadFails, linkVars
  <2>2. ASSUME sIn'.status = "ok"
        PROVE  /\ Truthful(sIn'.pkt, created, nWaited)
               /\ created - sIn'.pkt.n <= MaxLag + Overtaking'
    <3>1. /\ sIn.status = "ok" /\ created' = created + 0 /\ 0 \in {0, 1}
          /\ created' = created
      BY <2>1, <2>2, GapTypes
    <3>2. created' - sIn.pkt.n <= MaxLag + Overtaking'
      BY <1>1, <3>1, ReplyWaits
    <3> QED  BY <2>1, <3>1, <3>2 DEF GapsInv, ReplyGaps
  <2>3. buf_ack \in ReplyRead  BY DEF FaultsTypeOK, ReplyRead
  <2>4. buf_ack.status = "ok" =>
           /\ Truthful(buf_ack.pkt, created, nWaited)
           /\ front - buf_ack.pkt.n <= MaxLag + MAX_BUFFER_SIZE + gaps
    BY DEF GapsInv, ReplyGaps
  <2> QED  BY <1>1, <2>1, <2>2, <2>3, <2>4, ActUponGaps
<1>4. CASE SGivesUp \/ SNoEofPacket
  <2>1. /\ UNCHANGED <<data, rIn, created, seqNum, isLastAckNum, buf>>
        /\ ArriveAtSender /\ spc' \notin {"write", "acked"}
    BY <1>4 DEF SGivesUp, SNoEofPacket, linkVars, ArriveAtSender
  <2> QED  BY <1>1, <2>1, SameQueueGaps
<1>5. CASE SNotNumbered
  <2> DEFINE d == [seqNum |-> seqNum, length |-> GARBAGE, n |-> created]
  <2>1. /\ UNCHANGED <<rIn, created, seqNum, isLastAckNum, buf>>
        /\ ArriveAtSender /\ spc' \notin {"write", "acked"}
        /\ data' \in Sent(data, d)
    BY <1>5 DEF SNotNumbered, SWritePayload, ArriveAtSender
  <2>2. d.length = GARBAGE  OBVIOUS
  <2> HIDE DEF d
  <2>3. \A e \in data' : e.length # GARBAGE => e \in data
    BY <2>1, <2>2, SentSubset
  <2> QED  BY <1>1, <2>1, <2>3, SameQueueGaps
<1>6. ASSUME NEW len \in {1, GARBAGE}, SWritePayload,
             Number([seqNum |-> seqNum, length |-> len, n |-> created])
      PROVE  GapsInv'
  <2> DEFINE d == [seqNum |-> seqNum, length |-> len, n |-> created]
  <2>1. /\ UNCHANGED <<rIn, sIn, isLastAckNum>> /\ buf' = buf
        /\ spc = "write" /\ spc' = "scan"
    BY <1>6 DEF SWritePayload
  <2>2. Number(d) /\ d.length = len /\ d.seqNum = seqNum /\ d.n = created
    BY <1>6
  <2> HIDE DEF d
  <2>3. SenderGaps' /\ front' \in {front, front + 1}
    BY <1>2, <2>1, <2>2, SkippedNumber
  <2>4. ~ isLastAckNum /\ seqNum = ToUint8(created)  BY <2>1 DEF GapsInv, SenderGaps
  <2>5. created \in Int /\ created' = created + 1  BY <2>2, GapTypes DEF Number
  <2>6. d.length # GARBAGE => Numbered(d, created', isLastAckNum')
    BY <2>1, <2>2, <2>4, <2>5 DEF Numbered, GARBAGE, EOF_LENGTH
  <2> QED  BY <1>1, <1>2, <2>1, <2>2, <2>3, <2>6, NumberGaps
<1>7. CASE SNotKept  BY <1>6, <1>7 DEF SNotKept
<1>8. CASE SNoPayload  BY <1>6, <1>8 DEF SNoPayload
<1> QED  BY <1>3, <1>4, <1>5, <1>7, <1>8 DEF SenderFault

(* Time passes without a change to the numbers. *)
LEMMA SecondGaps ==
  ASSUME FewGaps, FaultsTypeOK, FaultsTypeOK', GapsInv, Second
  PROVE  GapsInv'
<1>1. /\ buf \in Seq(QueuedPacket) /\ Len(buf) \in Nat
      /\ \A i \in 1 .. Len(buf) : buf[i] \in QueuedPacket
  BY GapTypes, Numbers
<1>2. Len(buf') = Len(buf) /\ \A i \in 1 .. Len(buf) : buf'[i] = Older(buf[i])
  BY <1>1 DEF Second, Tick, Aged
<1>3. ASSUME NEW p \in QueuedPacket
      PROVE  /\ Older(p).n = p.n /\ Older(p).seqNum = p.seqNum
             /\ Older(p).length = p.length
  BY DEF Older, QueuedPacket
<1>4. \A i \in 1 .. Len(buf) :
         /\ buf'[i].n = buf[i].n /\ buf'[i].seqNum = buf[i].seqNum
         /\ buf'[i].length = buf[i].length
  BY <1>1, <1>2, <1>3
<1>5. UNCHANGED <<data, acks, rIn, sIn, created, spc, seqNum, isLastAckNum,
                  readErrors, rpc, waitedSeqNum, finalSeqNum, isFinalSeqNum,
                  pktQueue, ackQueue, written, nWaited, buf_ack, failures>>
  BY DEF Second, Tick, linkVars, faultVars
<1>6. SenderGaps' /\ front' = front
  <2>1. /\ spc' = "write" => Len(buf) < MAX_BUFFER_SIZE /\ ~ isLastAckNum
        /\ spc' = "acked" => Reached
    BY <1>5 DEF GapsInv, SenderGaps
  <2>2. failures' \in {failures, failures + 1}  BY <1>5
  <2> QED  BY <1>2, <1>4, <1>5, <2>1, <2>2, SameNumbers
<1>7. gaps' = gaps /\ Overtaking' = Overtaking /\ (Reached <=> Reached')
  BY <1>5 DEF gaps, Overtaking, Reached
<1>8. ReceiverGaps'  BY <1>5, <1>6, <1>7 DEF GapsInv, ReceiverGaps
<1>9. WrittenGaps' /\ DataGaps'
  BY <1>5 DEF GapsInv, WrittenGaps, WrittenOnce, DataGaps
<1>10. ReplyGaps'  BY <1>5, <1>6, <1>7 DEF GapsInv, ReplyGaps
<1> QED  BY <1>6, <1>8, <1>9, <1>10 DEF GapsInv

-----------------------------------------------------------------------------
(* The steps of the receiver. *)
(* What arrives is a packet under way, and not too old. *)
LEMMA DataArrives ==
  ASSUME FewGaps, FaultsTypeOK, GapsInv, ArriveAtReceiver
  PROVE  /\ data' \subseteq data
         /\ rIn'.status \in {"ok", "tr"} =>
               /\ Numbered(rIn'.pkt, created, isLastAckNum)
               /\ nWaited - rIn'.pkt.n <= MaxLag
<1>0. DataGaps  BY DEF GapsInv
<1>1. CASE UNCHANGED <<data, rIn>>  BY <1>0, <1>1 DEF DataGaps
<1>2. CASE \E d \in Alive(data, created) :
             /\ data' \in Taken(data, d)
             /\ rIn' \in (IF d.length = GARBAGE THEN {Garbled}
                          ELSE {Intact(d)} \cup If("corrupt", {Garbled})
                                 \cup If("truncate", {Truncated(d)}))
  <2>1. PICK d \in Alive(data, created) :
               /\ data' \in Taken(data, d)
               /\ rIn' \in (IF d.length = GARBAGE THEN {Garbled}
                            ELSE {Intact(d)} \cup If("corrupt", {Garbled})
                                   \cup If("truncate", {Truncated(d)}))
    BY <1>2
  <2>2. d \in data /\ created - d.n <= MaxLag  BY DEF Alive
  <2>3. data' \subseteq data  BY <2>1, TakenSubset
  <2>4. nWaited - d.n <= MaxLag
    <3>1. TypeOK  BY GapTypes
    <3>2. d.n \in Int /\ nWaited \in Int /\ created \in Int
      BY <2>2, <3>1, Numbers
    <3>3. nWaited <= created /\ MaxLag \in Int  BY GapBounds, GapTypes
    <3> QED  BY <2>2, <3>2, <3>3
  <2>5. \/ rIn' = Garbled
        \/ d.length # GARBAGE /\ (rIn' = Intact(d) \/ rIn' = Truncated(d))
    BY <2>1 DEF If
  <2>6. d.length # GARBAGE => Numbered(d, created, isLastAckNum)
    BY <1>0, <2>2 DEF DataGaps
  <2> QED  BY <2>3, <2>4, <2>5, <2>6 DEF Intact, Truncated, Garbled
<1> QED  BY <1>1, <1>2 DEF ArriveAtReceiver

(* The receiver accepts the packets of its window, and those only: none    *)
(* that arrives is so old or so new that its number means another one.     *)
LEMMA AcceptGaps ==
  ASSUME FewGaps, FaultsTypeOK, GapsInv, rIn.status = "ok", Accepts(rIn.pkt)
  PROVE  /\ Numbered(rIn.pkt, created, isLastAckNum) /\ rIn.pkt.n \in Nat
         /\ nWaited <= rIn.pkt.n /\ rIn.pkt.n < nWaited + MAX_BUFFER_SIZE
<1> DEFINE n == rIn.pkt.n
<1>1. /\ n \in Nat /\ Numbered(rIn.pkt, created, isLastAckNum)
      /\ nWaited - n <= MaxLag /\ n < created /\ rIn.pkt.seqNum = ToUint8(n)
  BY GapTypes, Inputs DEF GapsInv, DataGaps, Numbered
<1>2. /\ waitedSeqNum = ToUint8(nWaited) /\ nWaited \in Nat /\ created \in Nat
      /\ gaps \in Nat /\ MAX_BUFFER_SIZE \in Nat \ {0} /\ MaxLag \in Nat
      /\ SeqSpace \in Nat /\ MAX_BUFFER_SIZE <= SeqSpace
      /\ MaxLag + 2 * MAX_BUFFER_SIZE + 2 * gaps < SeqSpace
      /\ created <= nWaited + 2 * MAX_BUFFER_SIZE + 2 * gaps
  BY GapTypes, GapBounds DEF GapsInv, ReceiverGaps
<1>3. InWindow(ToUint8(n), ToUint8(nWaited), MAX_BUFFER_SIZE)
  BY <1>1, <1>2 DEF Accepts
<1> HIDE DEF n
<1>4. MAX_BUFFER_SIZE - SeqSpace <= n - nWaited /\ n - nWaited < SeqSpace
  BY ONLY <1>1, <1>2
<1>5. nWaited <= n /\ n < nWaited + MAX_BUFFER_SIZE
  <2>1. /\ n \in Int /\ nWaited \in Int /\ MAX_BUFFER_SIZE \in Nat
        /\ 1 <= MAX_BUFFER_SIZE
    BY <1>1, <1>2
  <2> QED  BY <1>2, <1>3, <1>4, <2>1, WindowTest
<1> QED  BY <1>1, <1>5 DEF n

(* The replies that are queued after one more, or after none. *)
LEMMA ReplyQueueGaps ==
  ASSUME FaultsTypeOK, GapsInv,
         NEW type \in {"ACK", "NACK"}, NEW count \in Nat, NEW reached \in Nat,
         NEW last \in BOOLEAN, NEW said, said = ToUint8(count),
         ackQueue' = ackQueue \/ Reply(type, said, count, last),
         type = "NACK" => count < created, type = "ACK" => count <= reached,
         nWaited <= reached
  PROVE  \A i \in 1 .. Len(ackQueue') :
            /\ Truthful(ackQueue'[i], created, reached)
            /\ ackQueue'[i].trFlag => last \/ Reached
<1> DEFINE ack == [type |-> type, seqNum |-> said, n |-> count,
                   window |-> MAX_BUFFER_SIZE, trFlag |-> last]
<1>0. TypeOK  BY DEF FaultsTypeOK
<1>1. ack \in QueuedAck
  <2>1. said \in Uint8  BY Division
  <2> QED  BY <2>1 DEF QueuedAck
<1>2. ackQueue \in Seq(QueuedAck) /\ Len(ackQueue) \in Nat  BY <1>0, Numbers
<1>3. Truthful(ack, created, reached) /\ (ack.trFlag => last)  BY DEF Truthful
<1>4. ackQueue' = ackQueue \/ ackQueue' = Append(ackQueue, ack)  BY DEF Reply
<1> HIDE DEF ack
<1>5. /\ Len(ackQueue') \in {Len(ackQueue), Len(ackQueue) + 1}
      /\ \A i \in 1 .. Len(ackQueue) : ackQueue'[i] = ackQueue[i]
      /\ Len(ackQueue') = Len(ackQueue) + 1 =>
            ackQueue'[Len(ackQueue) + 1] = ack
  <2>1. CASE ackQueue' = ackQueue  BY <1>2, <2>1
  <2>2. CASE ackQueue' = Append(ackQueue, ack)
    BY <1>1, <1>2, <2>2, AppendProperties
  <2> QED  BY <1>4, <2>1, <2>2
<1>6. ASSUME NEW i \in 1 .. Len(ackQueue)
      PROVE  /\ Truthful(ackQueue[i], created, reached)
             /\ ackQueue[i].trFlag => Reached
  <2>1. /\ Truthful(ackQueue[i], created, nWaited)
        /\ ackQueue[i].trFlag => Reached
        /\ ackQueue[i].n \in Int
    BY <1>0, Numbers DEF GapsInv, ReplyGaps
  <2>2. created \in Int /\ nWaited \in Int /\ reached \in Int /\ created <= created
    BY <1>0, Numbers
  <2> QED  BY <2>1, <2>2, TruthfulStays
<1> SUFFICES ASSUME NEW i \in 1 .. Len(ackQueue')
             PROVE  /\ Truthful(ackQueue'[i], created, reached)
                    /\ ackQueue'[i].trFlag => last \/ Reached
  OBVIOUS
<1>7. \/ i \in 1 .. Len(ackQueue)
      \/ i = Len(ackQueue) + 1 /\ Len(ackQueue') = Len(ackQueue) + 1
  BY <1>2, <1>5
<1> QED  BY <1>3, <1>5, <1>6, <1>7

(* The steps of the receiver that deliver nothing. *)
LEMMA UnmovedGaps ==
  ASSUME FewGaps, FaultsTypeOK, FaultsTypeOK', GapsInv,
         UNCHANGED <<senderVars, buf_ack, created, sIn>>, Unmoved,
         failures' \in {failures, failures + 1}, data' \subseteq data,
         \A a \in acks' : a \in acks \/ Truthful(a, created, nWaited),
         rIn'.status \in {"ok", "tr"} =>
            /\ Numbered(rIn'.pkt, created, isLastAckNum)
            /\ nWaited - rIn'.pkt.n <= MaxLag,
         rpc' = "final" => Reached,
         \A i \in 1 .. Len(ackQueue') :
            /\ Truthful(ackQueue'[i], created, nWaited)
            /\ ackQueue'[i].trFlag => Reached
  PROVE  GapsInv'
<1>1. /\ waitedSeqNum' = waitedSeqNum /\ finalSeqNum' = finalSeqNum
      /\ isFinalSeqNum' = isFinalSeqNum /\ pktQueue' = pktQueue
      /\ written' = written /\ nWaited' = nWaited /\ created' = created
      /\ isLastAckNum' = isLastAckNum
  BY DEF Unmoved, senderVars
<1>2. nWaited <= nWaited' /\ nWaited' <= created
  BY <1>1, GapTypes, GapBounds
<1>3. Reached <=> Reached'  BY <1>1 DEF Reached
<1>4. WrittenGaps'  BY <1>1 DEF GapsInv, WrittenGaps, WrittenOnce
<1>5. /\ waitedSeqNum' = ToUint8(nWaited')
      /\ \A i \in 1 .. Len(pktQueue') :
            /\ nWaited' < pktQueue'[i].n
            /\ pktQueue'[i].n < nWaited' + MAX_BUFFER_SIZE
            /\ Numbered(pktQueue'[i], created, isLastAckNum)
      /\ Ordered(pktQueue')
      /\ isFinalSeqNum' => isLastAckNum /\ finalSeqNum' = ToUint8(created - 1)
  BY <1>1 DEF GapsInv, ReceiverGaps, Ordered
<1>6. /\ \A a \in acks' : a \in acks \/ Truthful(a, created, nWaited')
      /\ rIn'.status \in {"ok", "tr"} =>
            /\ Numbered(rIn'.pkt, created, isLastAckNum)
            /\ nWaited' - rIn'.pkt.n <= MaxLag
      /\ rpc' = "final" => Reached'
      /\ \A i \in 1 .. Len(ackQueue') :
            /\ Truthful(ackQueue'[i], created, nWaited')
            /\ ackQueue'[i].trFlag => Reached'
  BY <1>1, <1>3
<1> QED  BY <1>2, <1>4, <1>5, <1>6, ReceiverFrame

(* A datagram, or a failure, that delivers nothing and is answered, or is  *)
(* not.                                                                    *)
LEMMA AnswerGaps ==
  ASSUME FewGaps, FaultsTypeOK, FaultsTypeOK', GapsInv,
         UNCHANGED <<senderVars, buf_ack, acks, created, sIn>>, Unmoved,
         failures' \in {failures, failures + 1}, rpc' # "final",
         ArriveAtReceiver \/ (data' = data /\ rIn' = NoInput),
         NEW type \in {"ACK", "NACK"}, NEW count \in Nat,
         ackQueue' = ackQueue \/ Reply(type, ToUint8(count), count, FALSE),
         type = "NACK" => count < created, type = "ACK" => count <= nWaited
  PROVE  GapsInv'
<1>1. /\ data' \subseteq data
      /\ rIn'.status \in {"ok", "tr"} =>
            /\ Numbered(rIn'.pkt, created, isLastAckNum)
            /\ nWaited - rIn'.pkt.n <= MaxLag
  <2>1. CASE ArriveAtReceiver  BY <2>1, DataArrives
  <2>2. CASE data' = data /\ rIn' = NoInput  BY <2>2 DEF NoInput
  <2> QED  BY <2>1, <2>2
<1>2. \A i \in 1 .. Len(ackQueue') :
         /\ Truthful(ackQueue'[i], created, nWaited)
         /\ ackQueue'[i].trFlag => Reached
  <2>1. nWaited \in Nat /\ nWaited <= nWaited /\ FALSE \in BOOLEAN  BY GapTypes
  <2>2. ToUint8(count) = ToUint8(count)  OBVIOUS
  <2> QED  BY <2>1, <2>2, ReplyQueueGaps
<1>3. \A a \in acks' : a \in acks \/ Truthful(a, created, nWaited)  OBVIOUS
<1> QED  BY <1>1, <1>2, <1>3, UnmovedGaps

(* The reply at the head of the queue goes out. *)
LEMMA ReplyLeaves ==
  ASSUME FewGaps, FaultsTypeOK, FaultsTypeOK', GapsInv,
         UNCHANGED <<senderVars, buf_ack, failures>>,
         NEW stage \in {"poll", "read"}, WriteThen(stage)
  PROVE  GapsInv'
<1> DEFINE ack  == Head(ackQueue)
           sent == [type |-> ack.type, seqNum |-> ack.seqNum,
                    window |-> ack.window, n |-> ack.n]
<1>1. /\ acks' \in Sent(acks, sent) /\ ackQueue' = Tail(ackQueue)
      /\ rpc' = "final" => ack.trFlag
      /\ UNCHANGED <<data, rIn, sIn, created>> /\ Unmoved
  BY DEF WriteThen, Unmoved
<1>2. ReplyGaps /\ DataGaps  BY DEF GapsInv
<1>3. ackQueue \in Seq(QueuedAck) /\ ackQueue # << >> /\ Len(ackQueue) \in Nat
  BY GapTypes, Numbers DEF WriteThen, TypeOK, ReceiverTypeOK
<1>4. /\ Len(ackQueue) >= 1 /\ ack = ackQueue[1]
      /\ Len(ackQueue') = Len(ackQueue) - 1
      /\ \A i \in 1 .. Len(ackQueue') : ackQueue'[i] = ackQueue[i + 1]
  BY <1>1, <1>3, HeadTailProperties
<1>5. Truthful(ack, created, nWaited) /\ (ack.trFlag => Reached)
  BY <1>2, <1>3, <1>4 DEF ReplyGaps
<1>6. Truthful(sent, created, nWaited)  BY <1>5 DEF Truthful
<1> HIDE DEF ack, sent
<1>7. \A a \in acks' : a \in acks \/ Truthful(a, created, nWaited)
  <2>1. acks' \subseteq acks \cup {sent}  BY <1>1, SentSubset
  <2> QED  BY <1>6, <2>1
<1>8. \A i \in 1 .. Len(ackQueue') :
         /\ Truthful(ackQueue'[i], created, nWaited)
         /\ ackQueue'[i].trFlag => Reached
  <2>1. \A i \in 1 .. Len(ackQueue') : i + 1 \in 1 .. Len(ackQueue)
    BY <1>3, <1>4
  <2> QED  BY <1>2, <1>4, <2>1 DEF ReplyGaps
<1>9. /\ created' = created /\ sIn' = sIn /\ data' \subseteq data
      /\ rIn'.status \in {"ok", "tr"} =>
            /\ Numbered(rIn'.pkt, created, isLastAckNum)
            /\ nWaited - rIn'.pkt.n <= MaxLag
      /\ rpc' = "final" => Reached
  BY <1>1, <1>2, <1>5 DEF DataGaps
<1>10. Unmoved /\ failures' \in {failures, failures + 1}  BY <1>1
<1> QED  BY <1>7, <1>8, <1>9, <1>10, UnmovedGaps

(* What is added to the file lies between the two positions of the         *)
(* receiver, in increasing order.                                          *)
LEMMA WritesMore ==
  ASSUME FaultsTypeOK, FaultsTypeOK', GapsInv, nWaited <= nWaited',
         NEW ns \in Seq(Nat), written' = written \o ns,
         \A i \in 1 .. Len(ns) : nWaited <= ns[i] /\ ns[i] < nWaited',
         \A i, j \in 1 .. Len(ns) : i < j => ns[i] < ns[j]
  PROVE  WrittenGaps'
<1>1. /\ written \in Seq(Nat) /\ Len(written) \in Nat /\ nWaited \in Int
      /\ \A i \in 1 .. Len(written) : written[i] \in Int
  <2>1. TypeOK  BY DEF FaultsTypeOK
  <2> QED  BY <2>1, Numbers, ElementOfSeq
<1>2. nWaited' \in Int  BY DEF FaultsTypeOK, TypeOK, ReceiverTypeOK
<1>3. /\ Len(ns) \in Nat /\ \A i \in 1 .. Len(ns) : ns[i] \in Int
  BY LenProperties, ElementOfSeq
<1>4. /\ Len(written') = Len(written) + Len(ns)
      /\ \A i \in 1 .. Len(written) + Len(ns) :
           written'[i] = IF i <= Len(written) THEN written[i]
                         ELSE ns[i - Len(written)]
  BY <1>1, ConcatProperties
<1>5. WrittenGaps  BY DEF GapsInv
<1>6. ASSUME NEW i \in 1 .. Len(written')
      PROVE  \/ /\ i \in 1 .. Len(written) /\ written'[i] = written[i]
                /\ written[i] < nWaited
             \/ /\ i - Len(written) \in 1 .. Len(ns)
                /\ written'[i] = ns[i - Len(written)] /\ i > Len(written)
  <2>1. CASE i <= Len(written)
    <3>1. i \in 1 .. Len(written)  BY <1>1, <1>3, <1>4, <2>1
    <3> QED  BY <1>3, <1>4, <1>5, <2>1, <3>1 DEF WrittenGaps
  <2>2. CASE ~ (i <= Len(written))
    <3>1. i - Len(written) \in 1 .. Len(ns) /\ i > Len(written)
      BY <1>1, <1>3, <1>4, <2>2
    <3> QED  BY <1>1, <1>3, <1>4, <2>2, <3>1
  <2> QED  BY <2>1, <2>2
<1>7. ASSUME NEW i \in 1 .. Len(written')  PROVE written'[i] < nWaited'
  <2> DEFINE x == written'[i]
  <2>1. x \in Int /\ (x < nWaited \/ x < nWaited')  BY <1>1, <1>3, <1>6
  <2> HIDE DEF x
  <2>2. x < nWaited'  BY <1>1, <1>2, <2>1
  <2> QED  BY <2>2 DEF x
<1>8. ASSUME NEW i \in 1 .. Len(written'), NEW j \in 1 .. Len(written'), i < j
      PROVE  written'[i] < written'[j]
  <2>1. CASE j \in 1 .. Len(written) /\ written'[j] = written[j]
    <3>1. i \in 1 .. Len(written)  BY <1>1, <1>8, <2>1
    <3>2. written'[i] = written[i]  BY <1>1, <1>3, <1>4, <3>1
    <3> QED  BY <1>5, <1>8, <2>1, <3>1, <3>2 DEF WrittenGaps, WrittenOnce
  <2>2. CASE /\ j - Len(written) \in 1 .. Len(ns) /\ j > Len(written)
             /\ written'[j] = ns[j - Len(written)]
    <3>1. CASE i \in 1 .. Len(written) /\ written'[i] = written[i]
               /\ written[i] < nWaited
      <4> DEFINE x == written[i]
                 y == ns[j - Len(written)]
      <4>1. /\ x \in Int /\ y \in Int /\ x < nWaited /\ nWaited <= y
            /\ written'[i] = x /\ written'[j] = y
        BY <1>1, <1>3, <2>2, <3>1
      <4> HIDE DEF x, y
      <4>2. x < y  BY <1>1, <4>1
      <4> QED  BY <4>1, <4>2
    <3>2. CASE /\ i - Len(written) \in 1 .. Len(ns) /\ i > Len(written)
               /\ written'[i] = ns[i - Len(written)]
      <4>1. i - Len(written) < j - Len(written)  BY <1>1, <1>3, <1>4, <1>8
      <4> QED  BY <2>2, <3>2, <4>1
    <3> QED  BY <1>6, <3>1, <3>2
  <2> QED  BY <1>6, <2>1, <2>2
<1> QED  BY <1>7, <1>8 DEF WrittenGaps, WrittenOnce

(* The packet of length 0 is remembered, or ends the file when every       *)
(* packet before it was delivered.                                         *)
LEMMA EofGaps ==
  ASSUME FewGaps, FaultsTypeOK, FaultsTypeOK', GapsInv,
         UNCHANGED <<senderVars, buf_ack>>, RReadSocket, EofArrives,
         failures' \in {failures, failures + 1},
         \/ ackQueue' = ackQueue
         \/ Reply("ACK", waitedSeqNum', nWaited', rIn.pkt.seqNum = waitedSeqNum)
  PROVE  GapsInv'
<1> DEFINE n == rIn.pkt.n
           last == rIn.pkt.seqNum = waitedSeqNum
           step == IF last THEN 1 ELSE 0
<1>1. /\ rIn.status = "ok" /\ Accepts(rIn.pkt) /\ rIn.pkt.length = EOF_LENGTH
      /\ rIn' = NoInput /\ rpc' = "poll"
      /\ UNCHANGED <<data, acks, sIn, created, pktQueue, written>>
      /\ isFinalSeqNum' = TRUE /\ finalSeqNum' = rIn.pkt.seqNum
      /\ waitedSeqNum' = Plus(waitedSeqNum, step)
      /\ nWaited' = nWaited + step
      /\ ackQueue' = ackQueue \/ Reply("ACK", waitedSeqNum', nWaited', last)
  BY DEF EofArrives, RReadSocket, ReadThen
<1>2. /\ n \in Nat /\ rIn.pkt.seqNum = ToUint8(n) /\ isLastAckNum
      /\ n = created - 1 /\ nWaited <= n /\ n < nWaited + MAX_BUFFER_SIZE
  BY <1>1, AcceptGaps DEF Numbered
<1> HIDE DEF n
<1>3. /\ nWaited \in Nat /\ created \in Nat /\ MAX_BUFFER_SIZE \in Nat
      /\ SeqSpace \in Nat \ {0} /\ MAX_BUFFER_SIZE <= SeqSpace
      /\ waitedSeqNum = ToUint8(nWaited) /\ TypeOK
  BY GapTypes DEF GapsInv, ReceiverGaps
<1>4. last => nWaited = n
  <2>1. /\ n - nWaited < SeqSpace /\ nWaited - n < SeqSpace
        /\ n \in Int /\ nWaited \in Int
    BY <1>2, <1>3
  <2> QED  BY <1>2, <1>3, <2>1, SameRemainder
<1>5. last \in BOOLEAN /\ step \in Nat /\ (last => step = 1) /\ (~ last => step = 0)
  OBVIOUS
<1> HIDE DEF last, step
<1>6. waitedSeqNum' = ToUint8(nWaited')
  BY <1>1, <1>3, <1>5, PlusRemainder
<1>7. nWaited' \in Nat /\ nWaited <= nWaited' /\ nWaited' <= created
  BY <1>1, <1>2, <1>3, <1>4, <1>5
<1>8. isLastAckNum' = isLastAckNum  BY DEF senderVars
<1>9. last => Reached'
  <2>1. last => nWaited' = created
    BY <1>1, <1>2, <1>3, <1>4, <1>5
  <2> QED  BY <1>1, <1>2, <1>8, <2>1 DEF Reached
<1>10. Reached => Reached'
  <2>1. Reached => nWaited' = created
    BY <1>3, <1>7 DEF Reached
  <2> QED  BY <1>1, <1>2, <1>8, <2>1 DEF Reached
<1>11. ASSUME NEW i \in 1 .. Len(pktQueue)
       PROVE  /\ nWaited' < pktQueue[i].n
              /\ pktQueue[i].n < nWaited' + MAX_BUFFER_SIZE
              /\ Numbered(pktQueue[i], created, isLastAckNum)
  <2> DEFINE x == pktQueue[i].n
  <2>1. /\ nWaited < x /\ x < nWaited + MAX_BUFFER_SIZE
        /\ Numbered(pktQueue[i], created, isLastAckNum)
    BY DEF GapsInv, ReceiverGaps
  <2>2. x \in Nat /\ pktQueue[i] \in EarlyPacket  BY <1>3, Numbers
  <2>3. x < created - 1
    BY <1>2, <2>1, <2>2 DEF Numbered, EarlyPacket, EOF_LENGTH
  <2> HIDE DEF x
  <2>4. nWaited' < x
    BY <1>1, <1>2, <1>3, <1>4, <1>5, <2>1, <2>2, <2>3
  <2>5. x < nWaited' + MAX_BUFFER_SIZE
    BY <1>1, <1>3, <1>5, <2>1, <2>2
  <2> QED  BY <2>1, <2>4, <2>5 DEF x
<1>12. WrittenGaps'
  <2>1. << >> \in Seq(Nat) /\ Len(<< >>) = 0  BY EmptySeq
  <2>2. written \in Seq(Nat)  BY <1>3, Numbers
  <2>3. written' = written \o << >>
    BY <1>1, <2>2, ConcatEmptySeq
  <2> DEFINE none == << >>
  <2>4. none \in Seq(Nat) /\ Len(none) = 0 /\ written' = written \o none
    BY <2>1, <2>3
  <2> HIDE DEF none
  <2>5. /\ \A i \in 1 .. Len(none) : nWaited <= none[i] /\ none[i] < nWaited'
        /\ \A i, j \in 1 .. Len(none) : i < j => none[i] < none[j]
    BY <2>4
  <2>6. nWaited <= nWaited'  BY <1>7
  <2> QED  BY <2>4, <2>5, <2>6, WritesMore
<1>13. \A i \in 1 .. Len(ackQueue') :
          /\ Truthful(ackQueue'[i], created, nWaited')
          /\ ackQueue'[i].trFlag => Reached'
  <2>1. \A i \in 1 .. Len(ackQueue') :
           /\ Truthful(ackQueue'[i], created, nWaited')
           /\ ackQueue'[i].trFlag => last \/ Reached
    BY <1>1, <1>5, <1>6, <1>7, ReplyQueueGaps
  <2> QED  BY <1>9, <1>10, <2>1
<1>14. /\ Ordered(pktQueue') /\ finalSeqNum' = ToUint8(created - 1)
  BY <1>1, <1>2 DEF GapsInv, ReceiverGaps, Ordered
<1>15. /\ data' \subseteq data /\ \A a \in acks' : a \in acks
       /\ ~ (rIn'.status \in {"ok", "tr"}) /\ rpc' # "final"
  BY <1>1 DEF NoInput
<1> QED
  BY <1>1, <1>2, <1>6, <1>7, <1>11, <1>12, <1>13, <1>14, <1>15, ReceiverFrame

(* The packets delivered are the next ones, without a gap, and those that  *)
(* are kept come after a gap and lie in the window still.                  *)
DeliversNext(run, rest) ==
  /\ \A i \in 1 .. Len(run) : run[i].n = nWaited + i - 1
  /\ nWaited + Len(run) <= created
  /\ isLastAckNum => nWaited + Len(run) <= created - 1
  /\ \A i \in 1 .. Len(rest) :
       /\ nWaited + Len(run) < rest[i].n
       /\ rest[i].n < nWaited + MAX_BUFFER_SIZE
       /\ Numbered(rest[i], created, isLastAckNum)
  /\ Ordered(rest)

(* A packet that is kept is a payload, so not the one that ends the file.  *)
LEMMA EarlyNumber ==
  ASSUME FaultsTypeOK, NEW p \in EarlyPacket, Numbered(p, created, isLastAckNum)
  PROVE  /\ p.n \in Nat /\ p.n + 1 <= created
         /\ isLastAckNum => p.n + 1 <= created - 1
<1>1. p.n \in Nat /\ p.length # EOF_LENGTH  BY DEF EarlyPacket, EOF_LENGTH
<1>2. p.n < created /\ (isLastAckNum => p.n < created - 1)
  BY <1>1 DEF Numbered
<1>3. created \in Nat  BY DEF FaultsTypeOK, TypeOK, LinkTypeOK
<1> QED  BY <1>1, <1>2, <1>3

(* What a payload that is accepted does to the queue. *)
LEMMA PayloadDelivers ==
  ASSUME FewGaps, FaultsTypeOK, GapsInv, rIn.status = "ok", Accepts(rIn.pkt),
         rIn.pkt.length # EOF_LENGTH
  PROVE  /\ Run \in Seq(EarlyPacket) /\ Rest \in Seq(EarlyPacket)
         /\ DeliversNext(Run, Rest)
<1> DEFINE W == MAX_BUFFER_SIZE
           Known(p) == p \in EarlyPacket /\ p.n < nWaited + W
                       /\ Numbered(p, created, isLastAckNum)
<1>1. /\ pktQueue \in Seq(EarlyPacket) /\ nWaited \in Int /\ created \in Int
      /\ waitedSeqNum = ToUint8(nWaited) /\ nWaited <= created
      /\ \A i \in 1 .. Len(pktQueue) : pktQueue[i] \in EarlyPacket
      /\ W \in Nat \ {0} /\ 2 * W <= SeqSpace /\ W <= SeqSpace /\ TypeOK
  BY GapTypes, Numbers DEF GapsInv, ReceiverGaps
<1>2. rIn.pkt \in EarlyPacket
  BY <1>1, Inputs DEF ReadablePacket, DataPacket, EarlyPacket
<1>3. Known(rIn.pkt) /\ InWindowOf(rIn.pkt, nWaited, W)
  BY <1>2, AcceptGaps DEF InWindowOf, Numbered
<1>4. ASSUME NEW i \in 1 .. Len(pktQueue)
      PROVE  /\ Known(pktQueue[i]) /\ InWindowOf(pktQueue[i], nWaited, W)
             /\ nWaited < pktQueue[i].n
  <2>1. /\ nWaited < pktQueue[i].n
        /\ pktQueue[i].n < nWaited + W
        /\ Numbered(pktQueue[i], created, isLastAckNum)
    BY DEF GapsInv, ReceiverGaps
  <2>2. pktQueue[i] \in EarlyPacket /\ pktQueue[i].n \in Int
    BY <1>1 DEF EarlyPacket
  <2>3. nWaited <= pktQueue[i].n  BY <1>1, <2>1, <2>2
  <2> QED  BY <2>1, <2>2, <2>3 DEF InWindowOf, Numbered
<1>5. Ordered(pktQueue)  BY DEF GapsInv, ReceiverGaps, Ordered
<1>6. Ahead(pktQueue, nWaited, W)  BY <1>4, <1>5 DEF Ahead
<1>7. nWaited + 0 <= created /\ (isLastAckNum => nWaited + 0 <= created - 1)
  <2>1. /\ rIn.pkt.n \in Nat /\ rIn.pkt.n + 1 <= created
        /\ isLastAckNum => rIn.pkt.n + 1 <= created - 1
    BY <1>2, <1>3, EarlyNumber
  <2>2. nWaited <= rIn.pkt.n  BY AcceptGaps
  <2> QED  BY <1>1, <2>1, <2>2
<1> HIDE DEF W
<1>8. /\ Pushed.queue \in Seq(EarlyPacket)
      /\ Ahead(Pushed.queue, nWaited, W)
      /\ \A i \in 1 .. Len(Pushed.queue) :
           \/ Pushed.queue[i] = rIn.pkt
           \/ \E j \in 1 .. Len(pktQueue) : Pushed.queue[i] = pktQueue[j]
  <2>1. Pushed = queue_ordered_push(pktQueue, rIn.pkt, ToUint8(nWaited), W)
    BY <1>1 DEF Pushed, W
  <2> QED  BY <1>1, <1>2, <1>3, <1>6, <2>1, PushOrder
<1>9. \A i \in 1 .. Len(Pushed.queue) : Known(Pushed.queue[i])
  <2> HIDE DEF Known
  <2> QED  BY <1>3, <1>4, <1>8
<1>10. /\ Out.written \in Seq(EarlyPacket) /\ Out.queue \in Seq(EarlyPacket)
       /\ Len(Out.written) \in Nat
       /\ Splits(Pushed.queue, nWaited, Out.written, Out.queue)
  <2> DEFINE q == Pushed.queue
  <2>1. q \in Seq(EarlyPacket) /\ Ahead(q, nWaited, W)  BY <1>8
  <2>2. Out = queue_payload_write(q, ToUint8(nWaited))  BY <1>1 DEF Out
  <2> HIDE DEF q
  <2>3. Splits(q, nWaited, Out.written, Out.queue)
    BY ONLY <1>1, <2>1, <2>2, PayloadWriteOrder
  <2>4. Out.written \in Seq(EarlyPacket) /\ Out.queue \in Seq(EarlyPacket)
    BY <2>1, <2>2, PayloadWriteType
  <2> QED  BY <2>3, <2>4, LenProperties DEF q
<1>11. CASE Pushed.pushed
  <2>1. Run = Out.written /\ Rest = Out.queue  BY <1>11 DEF Run, Rest
  <2>2. /\ nWaited + Len(Run) <= created
        /\ isLastAckNum => nWaited + Len(Run) <= created - 1
    <3>1. CASE Len(Run) = 0  BY <1>7, <3>1
    <3>2. CASE Len(Run) # 0
      <4>1. Len(Run) \in 1 .. Len(Run) /\ Len(Run) \in Nat
        BY <1>10, <2>1, <3>2
      <4> DEFINE x == Run[Len(Run)].n
      <4>2. x = nWaited + Len(Run) - 1
        BY <1>10, <2>1, <4>1 DEF Splits
      <4>3. Known(Run[Len(Run)])
        <5> HIDE DEF Known
        <5> QED  BY <1>9, <1>10, <2>1, <4>1 DEF Splits
      <4>4. x \in Nat /\ x + 1 <= created /\ (isLastAckNum => x + 1 <= created - 1)
        BY <4>3, EarlyNumber
      <4> HIDE DEF x
      <4> QED  BY <1>1, <4>1, <4>2, <4>4
    <3> QED  BY <3>1, <3>2
  <2>3. \A i \in 1 .. Len(Rest) : Known(Rest[i])
    <3> HIDE DEF Known
    <3> QED  BY <1>9, <1>10, <2>1 DEF Splits
  <2> QED  BY <1>10, <2>1, <2>2, <2>3 DEF Splits, DeliversNext, W
<1>12. CASE ~ Pushed.pushed
  <2>1. Run = << >> /\ Rest = pktQueue  BY <1>12 DEF Run, Rest
  <2>2. Len(Run) = 0 /\ Run \in Seq(EarlyPacket)  BY <2>1, EmptySeq
  <2>3. \A i \in 1 .. Len(Rest) :
           /\ nWaited + Len(Run) < Rest[i].n /\ Known(Rest[i])
    <3>1. nWaited + Len(Run) = nWaited  BY <1>1, <2>2
    <3> QED  BY <1>4, <2>1, <3>1
  <2>4. \A i \in 1 .. Len(Run) : FALSE  BY <2>2
  <2> QED  BY <1>1, <1>5, <1>7, <2>1, <2>2, <2>3, <2>4 DEF DeliversNext, W
<1> QED  BY <1>11, <1>12

(* A run and a remainder move the receiver on, whatever becomes of the     *)
(* payloads of the run and of the reply.                                   *)
LEMMA PayloadGaps ==
  ASSUME FewGaps, FaultsTypeOK, FaultsTypeOK', GapsInv,
         UNCHANGED <<senderVars, buf_ack>>,
         failures' \in {failures, failures + 1},
         NEW run \in Seq(EarlyPacket), NEW rest \in Seq(EarlyPacket),
         NEW last \in BOOLEAN, DeliversNext(run, rest),
         last => isFinalSeqNum /\ Plus(waitedSeqNum, Len(run)) = finalSeqNum,
         rIn' = NoInput, rpc' # "final",
         UNCHANGED <<data, acks, sIn, created, finalSeqNum, isFinalSeqNum>>,
         pktQueue' = rest,
         waitedSeqNum' = Plus(Plus(waitedSeqNum, Len(run)),
                              IF last THEN 1 ELSE 0),
         nWaited' = nWaited + Len(run) + (IF last THEN 1 ELSE 0),
         NEW ns \in Seq(Nat), written' = written \o ns,
         \A i \in 1 .. Len(ns) : nWaited <= ns[i] /\ ns[i] < nWaited + Len(run),
         \A i, j \in 1 .. Len(ns) : i < j => ns[i] < ns[j],
         ackQueue' = ackQueue \/ Reply("ACK", waitedSeqNum', nWaited', last)
  PROVE  GapsInv'
<1> DEFINE c    == Len(run)
           next == Plus(waitedSeqNum, c)
           step == IF last THEN 1 ELSE 0
<1>1. /\ waitedSeqNum' = Plus(next, step) /\ nWaited' = nWaited + c + step
      /\ last => isFinalSeqNum /\ next = finalSeqNum
      /\ created' = created
  OBVIOUS
<1>2. /\ \A i \in 1 .. c : run[i].n = nWaited + i - 1
      /\ nWaited + c <= created /\ (isLastAckNum => nWaited + c <= created - 1)
      /\ \A i \in 1 .. Len(rest) :
           /\ nWaited + c < rest[i].n /\ rest[i].n < nWaited + MAX_BUFFER_SIZE
           /\ Numbered(rest[i], created, isLastAckNum)
      /\ Ordered(rest)
  BY DEF DeliversNext
<1>3. /\ c \in Nat /\ Len(rest) \in Nat
      /\ \A i \in 1 .. Len(rest) : rest[i] \in EarlyPacket
  BY LenProperties, ElementOfSeq
<1>4. /\ nWaited \in Nat /\ created \in Nat /\ MAX_BUFFER_SIZE \in Nat \ {0}
      /\ SeqSpace \in Nat \ {0} /\ gaps \in Nat /\ MaxLag \in Nat
      /\ MaxLag + 2 * MAX_BUFFER_SIZE + 2 * gaps < SeqSpace
      /\ nWaited <= created
      /\ created <= nWaited + 2 * MAX_BUFFER_SIZE + 2 * gaps
      /\ waitedSeqNum = ToUint8(nWaited)
      /\ isFinalSeqNum => isLastAckNum /\ finalSeqNum = ToUint8(created - 1)
  BY GapTypes, GapBounds DEF GapsInv, ReceiverGaps
<1>5. next = ToUint8(nWaited + c)
  BY <1>3, <1>4, PlusRemainder
<1> HIDE DEF c
<1>6. step \in Nat /\ (last => step = 1) /\ (~ last => step = 0)
  OBVIOUS
<1>7. last => isLastAckNum /\ nWaited + c + 1 = created
  <2> SUFFICES ASSUME last  PROVE isLastAckNum /\ nWaited + c + 1 = created
    OBVIOUS
  <2>1. isLastAckNum /\ finalSeqNum = ToUint8(created - 1)  BY <1>1, <1>4
  <2> DEFINE x == nWaited + c
             y == created - 1
  <2>2. ToUint8(x) = ToUint8(y)  BY <1>1, <1>5, <2>1
  <2>3. /\ x \in Int /\ y \in Int /\ x - y < SeqSpace /\ y - x < SeqSpace
    <3>1. x \in Int /\ y \in Int /\ x <= y  BY <1>2, <1>3, <1>4, <2>1
    <3>2. y <= nWaited + 2 * MAX_BUFFER_SIZE + 2 * gaps - 1 /\ nWaited <= x
      BY <1>3, <1>4
    <3> HIDE DEF x, y
    <3> QED  BY ONLY <1>4, <3>1, <3>2
  <2> HIDE DEF x, y
  <2>4. x = y  BY ONLY <1>4, <2>2, <2>3, SameRemainder
  <2>5. nWaited + c + 1 = created  BY <1>3, <1>4, <2>4 DEF x, y
  <2> QED  BY <2>1, <2>5
<1> HIDE DEF step
<1>8. waitedSeqNum' = ToUint8(nWaited')
  <2> DEFINE x == nWaited + c
  <2>1. x \in Int /\ step \in Int /\ nWaited' = x + step
    BY ONLY <1>1, <1>3, <1>4, <1>6
  <2>2. next = ToUint8(x) /\ waitedSeqNum' = Plus(next, step)  BY <1>1, <1>5
  <2> HIDE DEF next, x
  <2>3. Plus(ToUint8(x), step) = ToUint8(x + step)
    BY ONLY <2>1, PlusRemainder
  <2> QED  BY <2>1, <2>2, <2>3
<1> HIDE DEF next
<1>9. nWaited' \in Nat /\ nWaited <= nWaited' /\ nWaited' <= created
  BY <1>1, <1>2, <1>3, <1>4, <1>6, <1>7
<1>10. isLastAckNum' = isLastAckNum  BY DEF senderVars
<1>11. last => Reached'
  <2>1. last => nWaited' = created  BY <1>1, <1>3, <1>4, <1>6, <1>7
  <2> QED  BY <1>1, <1>7, <1>10, <2>1 DEF Reached
<1>12. Reached => Reached'
  <2>1. nWaited = created => nWaited' = created  BY <1>4, <1>9
  <2> QED  BY <1>1, <1>10, <2>1 DEF Reached
<1>13. ASSUME NEW i \in 1 .. Len(rest)
       PROVE  nWaited' < rest[i].n /\ rest[i].n < nWaited' + MAX_BUFFER_SIZE
  <2> DEFINE x == rest[i].n
  <2>1. /\ x \in Nat /\ nWaited + c < x /\ x < nWaited + MAX_BUFFER_SIZE
        /\ isLastAckNum => x + 1 <= created - 1
    BY <1>2, <1>3, EarlyNumber
  <2> HIDE DEF x
  <2>2. nWaited' < x  BY <1>1, <1>3, <1>4, <1>6, <1>7, <2>1
  <2>3. x < nWaited' + MAX_BUFFER_SIZE  BY <1>4, <1>9, <2>1
  <2> QED  BY <2>2, <2>3 DEF x
<1>14. WrittenGaps'
  <2>1. ASSUME NEW i \in 1 .. Len(ns)  PROVE ns[i] < nWaited'
    <3> DEFINE x == ns[i]
    <3>1. x \in Nat /\ x < nWaited + c
      BY ElementOfSeq DEF c
    <3> HIDE DEF x
    <3>2. x < nWaited'  BY <1>1, <1>3, <1>4, <1>6, <3>1
    <3> QED  BY <3>2 DEF x
  <2> QED  BY <1>9, <2>1, WritesMore
<1>15. \A i \in 1 .. Len(ackQueue') :
          /\ Truthful(ackQueue'[i], created, nWaited')
          /\ ackQueue'[i].trFlag => Reached'
  <2>1. \A i \in 1 .. Len(ackQueue') :
           /\ Truthful(ackQueue'[i], created, nWaited')
           /\ ackQueue'[i].trFlag => last \/ Reached
    BY <1>8, <1>9, ReplyQueueGaps
  <2> QED  BY <1>11, <1>12, <2>1
<1>16. /\ data' \subseteq data /\ \A a \in acks' : a \in acks
       /\ ~ (rIn'.status \in {"ok", "tr"}) /\ rpc' # "final"
       /\ isFinalSeqNum' => isLastAckNum /\ finalSeqNum' = ToUint8(created - 1)
       /\ UNCHANGED <<created, sIn>>
  BY <1>4 DEF NoInput
<1>17. /\ \A i \in 1 .. Len(pktQueue') :
            /\ nWaited' < pktQueue'[i].n
            /\ pktQueue'[i].n < nWaited' + MAX_BUFFER_SIZE
            /\ Numbered(pktQueue'[i], created, isLastAckNum)
       /\ Ordered(pktQueue')
  BY <1>2, <1>13
<1> QED  BY <1>8, <1>9, <1>14, <1>15, <1>16, <1>17, ReceiverFrame

(* The numbers of a run that is written in full, or all but one of them,   *)
(* are some of the next ones, in increasing order.                         *)
NextNumbers(ns, count) ==
  /\ ns \in Seq(Nat)
  /\ \A i \in 1 .. Len(ns) : nWaited <= ns[i] /\ ns[i] < nWaited + count
  /\ \A i, j \in 1 .. Len(ns) : i < j => ns[i] < ns[j]

LEMMA RunNumbers ==
  ASSUME nWaited \in Nat, NEW run \in Seq(EarlyPacket),
         \A i \in 1 .. Len(run) : run[i].n = nWaited + i - 1
  PROVE  LET ns == [k \in 1 .. Len(run) |-> run[k].n]
         IN  NextNumbers(ns, Len(run)) /\ Len(ns) = Len(run)
<1> DEFINE ns == [k \in 1 .. Len(run) |-> run[k].n]
<1>1. Len(run) \in Nat /\ \A i \in 1 .. Len(run) : run[i] \in EarlyPacket
  BY LenProperties, ElementOfSeq
<1>2. \A i \in 1 .. Len(run) : run[i].n \in Nat  BY <1>1 DEF EarlyPacket
<1>3. ns \in Seq(Nat) /\ Len(ns) = Len(run)
  BY <1>1, <1>2, IsASeq
<1>4. \A i \in 1 .. Len(run) : ns[i] = nWaited + i - 1  OBVIOUS
<1> HIDE DEF ns
<1>5. ASSUME NEW i \in 1 .. Len(ns)
      PROVE  nWaited <= ns[i] /\ ns[i] < nWaited + Len(run)
  <2>1. ns[i] = nWaited + i - 1 /\ i \in 1 .. Len(run)  BY <1>3, <1>4
  <2>2. /\ nWaited <= nWaited + i - 1
        /\ nWaited + i - 1 < nWaited + Len(run)
    BY <1>1, <2>1
  <2> QED  BY <2>1, <2>2
<1>6. ASSUME NEW i \in 1 .. Len(ns), NEW j \in 1 .. Len(ns), i < j
      PROVE  ns[i] < ns[j]
  <2>1. ns[i] = nWaited + i - 1 /\ ns[j] = nWaited + j - 1  BY <1>3, <1>4
  <2>2. nWaited + i - 1 < nWaited + j - 1  BY <1>1, <1>3, <1>6
  <2> QED  BY <2>1, <2>2
<1>7. NextNumbers(ns, Len(run))  BY <1>3, <1>5, <1>6 DEF NextNumbers
<1> QED  BY <1>3, <1>7 DEF ns

LEMMA ShortNumbers ==
  ASSUME nWaited \in Nat, NEW count \in Nat, NEW ns, NextNumbers(ns, count),
         NEW i \in 1 .. Len(ns)
  PROVE  NextNumbers(WrittenShort(ns, i), count)
<1> DEFINE a == SubSeq(ns, 1, i - 1)
           b == SubSeq(ns, i + 1, Len(ns))
           short == WrittenShort(ns, i)
<1>1. ns \in Seq(Nat) /\ Len(ns) \in Nat  BY LenProperties DEF NextNumbers
<1>2. /\ a \in Seq(Nat) /\ Len(a) = i - 1
      /\ \A k \in 1 .. i - 1 : a[k] = ns[k]
  <2>1. 1 \in Nat \ {0} /\ i - 1 \in 0 .. Len(ns)  BY <1>1
  <2>2. /\ a \in Seq(Nat)
        /\ Len(a) = IF 1 <= i - 1 THEN i - 1 - 1 + 1 ELSE 0
        /\ \A k \in 1 .. i - 1 - 1 + 1 : a[k] = ns[1 + k - 1]
    BY <1>1, <2>1, Piece
  <2> HIDE DEF a
  <2> QED  BY <1>1, <2>2
<1>3. /\ b \in Seq(Nat) /\ Len(b) = Len(ns) - i
      /\ \A k \in 1 .. Len(ns) - i : b[k] = ns[i + k]
  <2>1. i + 1 \in Nat \ {0} /\ Len(ns) \in 0 .. Len(ns)  BY <1>1
  <2>2. /\ b \in Seq(Nat)
        /\ Len(b) = IF i + 1 <= Len(ns) THEN Len(ns) - (i + 1) + 1 ELSE 0
        /\ \A k \in 1 .. Len(ns) - (i + 1) + 1 : b[k] = ns[i + 1 + k - 1]
    BY <1>1, <2>1, Piece
  <2> HIDE DEF b
  <2> QED  BY <1>1, <2>2
<1>4. short = a \o b  BY DEF WrittenShort, RemoveAt
<1> HIDE DEF a, b, short
<1>5. /\ short \in Seq(Nat) /\ Len(short) = Len(ns) - 1
      /\ \A k \in 1 .. Len(ns) - 1 :
           short[k] = IF k < i THEN ns[k] ELSE ns[k + 1]
  <2>1. /\ a \o b \in Seq(Nat) /\ Len(a \o b) = Len(a) + Len(b)
        /\ \A k \in 1 .. Len(a) + Len(b) :
             (a \o b)[k] = IF k <= Len(a) THEN a[k] ELSE b[k - Len(a)]
    BY <1>2, <1>3, ConcatProperties
  <2>2. Len(a) + Len(b) = Len(ns) - 1  BY <1>1, <1>2, <1>3
  <2>3. ASSUME NEW k \in 1 .. Len(ns) - 1
        PROVE  short[k] = IF k < i THEN ns[k] ELSE ns[k + 1]
    <3>1. CASE k < i
      <4>1. k \in 1 .. i - 1 /\ k <= Len(a)  BY <1>1, <1>2, <3>1
      <4> QED  BY <1>2, <1>4, <2>1, <2>2, <3>1, <4>1
    <3>2. CASE ~ (k < i)
      <4>1. /\ k - (i - 1) \in 1 .. Len(ns) - i /\ ~ (k <= Len(a))
            /\ i + (k - (i - 1)) = k + 1
        BY <1>1, <1>2, <3>2
      <4>2. short[k] = b[k - (i - 1)]
        BY <1>1, <1>2, <1>4, <2>1, <2>2, <4>1
      <4>3. b[k - (i - 1)] = ns[k + 1]  BY <1>3, <4>1
      <4> QED  BY <3>2, <4>2, <4>3
    <3> QED  BY <3>1, <3>2
  <2> QED  BY <1>4, <2>1, <2>2, <2>3
<1> DEFINE At(k) == IF k < i THEN k ELSE k + 1
<1>6. ASSUME NEW k \in 1 .. Len(short)
      PROVE  At(k) \in 1 .. Len(ns) /\ short[k] = ns[At(k)]
  <2>1. k \in 1 .. Len(ns) - 1  BY <1>5
  <2>2. short[k] = IF k < i THEN ns[k] ELSE ns[k + 1]  BY <1>5, <2>1
  <2>3. CASE k < i  BY <1>1, <2>1, <2>2, <2>3
  <2>4. CASE ~ (k < i)  BY <1>1, <2>1, <2>2, <2>4
  <2> QED  BY <2>3, <2>4
<1>7. ASSUME NEW j \in 1 .. Len(short), NEW k \in 1 .. Len(short), j < k
      PROVE  At(j) < At(k)
  BY <1>1, <1>5, <1>7
<1> HIDE DEF At
<1>8. \A k \in 1 .. Len(short) :
         nWaited <= short[k] /\ short[k] < nWaited + count
  BY <1>6 DEF NextNumbers
<1>9. \A j, k \in 1 .. Len(short) : j < k => short[j] < short[k]
  BY <1>6, <1>7 DEF NextNumbers
<1> QED  BY <1>5, <1>8, <1>9 DEF NextNumbers, short

(* A payload arrives and is kept or written. *)
LEMMA ArrivedPayloadGaps ==
  ASSUME FewGaps, FaultsTypeOK, FaultsTypeOK', GapsInv,
         UNCHANGED <<senderVars, buf_ack>>,
         failures' \in {failures, failures + 1},
         NEW stage \in {"poll", "timeout"}, ReadThen(stage),
         NEW ends \in BOOLEAN, ends => Ends(InOrder(PushArrived)),
         PayloadArrives(PushArrived, ends),
         LET run == InOrder(PushArrived)
         IN  \/ WriteRun(run)
             \/ \E i \in 1 .. Len(run) :
                  written' =
                    written \o WrittenShort([k \in 1 .. Len(run) |-> run[k].n], i),
         ackQueue' = ackQueue \/ Reply("ACK", waitedSeqNum', nWaited', ends)
  PROVE  GapsInv'
<1> DEFINE all == [k \in 1 .. Len(Run) |-> Run[k].n]
<1>1. InOrder(PushArrived) = Run
  BY DEF InOrder, PushArrived, Pushed, Out, Run
<1>2. /\ rIn.status = "ok" /\ Accepts(rIn.pkt) /\ rIn.pkt.length # EOF_LENGTH
      /\ rIn' = NoInput /\ rpc' # "final"
      /\ UNCHANGED <<data, acks, sIn, created, finalSeqNum, isFinalSeqNum>>
      /\ pktQueue' = Rest
      /\ waitedSeqNum' = Plus(Plus(waitedSeqNum, Len(Run)),
                              IF ends THEN 1 ELSE 0)
      /\ nWaited' = nWaited + Len(Run) + (IF ends THEN 1 ELSE 0)
  BY DEF PayloadArrives, InOrder, PushArrived, ReadThen, Pushed, Out, Run, Rest
<1>3. ends => isFinalSeqNum /\ Plus(waitedSeqNum, Len(Run)) = finalSeqNum
  BY <1>1 DEF Ends
<1>4. Run \in Seq(EarlyPacket) /\ Rest \in Seq(EarlyPacket) /\ DeliversNext(Run, Rest)
  BY <1>2, PayloadDelivers
<1>5. nWaited \in Nat /\ Len(Run) \in Nat  BY <1>4, GapTypes, LenProperties
<1>6. NextNumbers(all, Len(Run)) /\ Len(all) = Len(Run)
  BY <1>4, <1>5, RunNumbers DEF DeliversNext
<1>7. \/ written' = written \o all
      \/ \E i \in 1 .. Len(Run) : written' = written \o WrittenShort(all, i)
  BY <1>1 DEF WriteRun
<1> HIDE DEF all
<1>8. \E ns : NextNumbers(ns, Len(Run)) /\ written' = written \o ns
  BY <1>5, <1>6, <1>7, ShortNumbers
<1>9. PICK ns : NextNumbers(ns, Len(Run)) /\ written' = written \o ns
  BY <1>8
<1>10. /\ ns \in Seq(Nat)
       /\ \A i \in 1 .. Len(ns) : nWaited <= ns[i] /\ ns[i] < nWaited + Len(Run)
       /\ \A i, j \in 1 .. Len(ns) : i < j => ns[i] < ns[j]
  BY <1>9 DEF NextNumbers
<1> QED  BY <1>2, <1>3, <1>4, <1>9, <1>10, PayloadGaps

(* A payload that is refused delivers nothing. *)
LEMMA RefusedGaps ==
  ASSUME FewGaps, FaultsTypeOK, FaultsTypeOK', GapsInv,
         UNCHANGED <<senderVars, buf_ack>>,
         failures' \in {failures, failures + 1}, RNotQueued
  PROVE  GapsInv'
<1> DEFINE last == Ends(<< >>)
           none == << >>
<1>1. /\ rIn.status = "ok" /\ Accepts(rIn.pkt) /\ rIn.pkt.length # EOF_LENGTH
      /\ rIn' = NoInput /\ rpc' # "final"
      /\ UNCHANGED <<data, acks, sIn, created, finalSeqNum, isFinalSeqNum>>
      /\ pktQueue' = pktQueue /\ written' = written
      /\ waitedSeqNum' = Plus(Plus(waitedSeqNum, Len(none)),
                              IF last THEN 1 ELSE 0)
      /\ nWaited' = nWaited + Len(none) + (IF last THEN 1 ELSE 0)
      /\ Reply("ACK", waitedSeqNum', nWaited', last)
      /\ last => isFinalSeqNum /\ Plus(waitedSeqNum, Len(none)) = finalSeqNum
  BY DEF RNotQueued, PayloadArrives, Refused, InOrder, Ends, RReadSocket,
         ReadThen
<1>2. last \in BOOLEAN /\ TypeOK
  BY DEF Ends, FaultsTypeOK, TypeOK, ReceiverTypeOK
<1>3. none \in Seq(EarlyPacket) /\ none \in Seq(Nat) /\ Len(none) = 0
  BY EmptySeq
<1>4. written' = written \o none
  <2>1. written \in Seq(Nat)  BY <1>2, Numbers
  <2> QED  BY <1>1, <2>1, ConcatEmptySeq
<1>5. pktQueue \in Seq(EarlyPacket)  BY <1>2, Numbers
<1>6. DeliversNext(none, pktQueue)
  <2>1. nWaited \in Nat /\ created \in Nat /\ nWaited <= created
    BY GapTypes, GapBounds
  <2>2. isLastAckNum => nWaited <= created - 1
    <3>1. /\ nWaited <= rIn.pkt.n /\ rIn.pkt.n \in Nat
          /\ isLastAckNum => rIn.pkt.n < created - 1
      BY <1>1, AcceptGaps DEF Numbered
    <3> QED  BY <2>1, <3>1
  <2>3. nWaited + Len(none) = nWaited  BY <1>3, <2>1
  <2>4. /\ \A i \in 1 .. Len(pktQueue) :
             /\ nWaited < pktQueue[i].n
             /\ pktQueue[i].n < nWaited + MAX_BUFFER_SIZE
             /\ Numbered(pktQueue[i], created, isLastAckNum)
        /\ Ordered(pktQueue)
    BY DEF GapsInv, ReceiverGaps, Ordered
  <2>5. \A i \in 1 .. Len(none) : FALSE  BY <1>3
  <2> HIDE DEF none
  <2> QED  BY <2>1, <2>2, <2>3, <2>4, <2>5 DEF DeliversNext
<1>7. \A i \in 1 .. Len(none) : FALSE  BY <1>3
<1> HIDE DEF last, none
<1> QED  BY <1>1, <1>2, <1>3, <1>4, <1>5, <1>6, <1>7, PayloadGaps

(* The receiver moves on without a failure, or reads. *)
LEMMA ReceiverStepGaps ==
  ASSUME FewGaps, FaultsTypeOK, FaultsTypeOK', GapsInv, ReceiverStep
  PROVE  GapsInv'
<1>1. /\ UNCHANGED <<senderVars, buf_ack, failures>>
      /\ failures' \in {failures, failures + 1}
      /\ waitedSeqNum = ToUint8(nWaited) /\ nWaited \in Nat
      /\ nWaited <= nWaited /\ TypeOK
  BY GapTypes DEF ReceiverStep, GapsInv, ReceiverGaps
<1>2. ASSUME UNCHANGED <<acks, sIn, created>>, Unmoved, rpc' # "final",
             ArriveAtReceiver \/ (data' = data /\ rIn' = NoInput),
             \/ ackQueue' = ackQueue
             \/ Reply("ACK", ToUint8(nWaited), nWaited, FALSE)
      PROVE  GapsInv'
  <2>1. "ACK" \in {"ACK", "NACK"} /\ "ACK" # "NACK"  OBVIOUS
  <2> QED  BY <1>1, <1>2, <2>1, AnswerGaps
<1>3. CASE RConnect \/ RTimeout \/ RPoll \/ RUnblocks
  <2>1. /\ UNCHANGED <<acks, sIn, created, ackQueue>> /\ Unmoved
        /\ rpc' # "final" /\ ArriveAtReceiver
    BY <1>3 DEF RConnect, RTimeout, RPoll, RUnblocks, Blocked, AfterWrite,
                Unmoved, linkVars, receiverVars, ArriveAtReceiver
  <2> QED  BY <1>2, <2>1
<1>4. CASE WriteThen(AfterPoll)
  <2>1. AfterPoll \in {"poll", "read"}  BY DEF AfterPoll
  <2> QED  BY <1>1, <1>4, <2>1, ReplyLeaves
<1>5. CASE RReadInvalid \/ RReadOutside
  <2>1. /\ UNCHANGED <<acks, sIn, created>> /\ Unmoved /\ rpc' # "final"
        /\ data' = data /\ rIn' = NoInput
        /\ Reply("ACK", ToUint8(nWaited), nWaited, FALSE)
    BY <1>1, <1>5 DEF RReadInvalid, RReadOutside, RReadSocket, ReadThen
  <2> QED  BY <1>2, <2>1
<1>6. CASE RReadTruncated
  <2>1. /\ UNCHANGED <<acks, sIn, created>> /\ Unmoved /\ rpc' # "final"
        /\ data' = data /\ rIn' = NoInput /\ rIn.status = "tr"
        /\ Reply("NACK", rIn.pkt.seqNum, rIn.pkt.n, FALSE)
    BY <1>6 DEF RReadTruncated, RReadSocket, ReadThen
  <2>2. /\ rIn.pkt.n \in Nat /\ rIn.pkt.seqNum = ToUint8(rIn.pkt.n)
        /\ rIn.pkt.n < created
    BY <1>1, <2>1, Inputs DEF GapsInv, DataGaps, Numbered
  <2>3. Reply("NACK", ToUint8(rIn.pkt.n), rIn.pkt.n, FALSE)
        /\ "NACK" \in {"ACK", "NACK"} /\ "NACK" # "ACK"
    BY <2>1, <2>2
  <2> QED  BY <1>1, <2>1, <2>2, <2>3, AnswerGaps
<1>7. CASE RReadEof  BY <1>1, <1>7, EofGaps DEF RReadEof
<1>8. CASE RReadPayload
  <2> DEFINE last == Ends(InOrder(PushArrived))
  <2>1. /\ ReadThen("poll") /\ PayloadArrives(PushArrived, last)
        /\ WriteRun(InOrder(PushArrived))
        /\ Reply("ACK", waitedSeqNum', nWaited', last)
    BY <1>8 DEF RReadPayload, RReadSocket
  <2>2. last \in BOOLEAN /\ "poll" \in {"poll", "timeout"}
    BY <1>1, EndsType DEF TypeOK
  <2>3. last => Ends(InOrder(PushArrived))  OBVIOUS
  <2> HIDE DEF last
  <2> QED  BY <1>1, <2>1, <2>2, <2>3, ArrivedPayloadGaps
<1> QED
  BY <1>3, <1>4, <1>5, <1>6, <1>7, <1>8 DEF ReceiverStep

(* A call of the receiver fails. *)
LEMMA ReceiverFaultGaps ==
  ASSUME FewGaps, FaultsTypeOK, FaultsTypeOK', GapsInv, ReceiverFault,
         UNCHANGED <<senderVars, buf_ack, pollin>>
  PROVE  GapsInv'
<1>1. /\ failures' \in {failures, failures + 1} /\ nWaited \in Nat
      /\ nWaited <= nWaited /\ TypeOK
  <2>1. failures' = failures + 1
    BY DEF ReceiverFault, RGivesUp, RPollFails, RSocketReadFails, RNoPacket,
           RNoReply, RReplyNotQueued, RNotQueued, RFileWriteFails, Fails
  <2> QED  BY <2>1, GapTypes
<1>2. ASSUME UNCHANGED <<acks, sIn, created, ackQueue>>, Unmoved, rpc' # "final",
             ArriveAtReceiver \/ (data' = data /\ rIn' = NoInput)
      PROVE  GapsInv'
  <2>1. "ACK" \in {"ACK", "NACK"} /\ "ACK" # "NACK" /\ ackQueue' = ackQueue
    BY <1>2
  <2> QED  BY <1>1, <1>2, <2>1, AnswerGaps
<1>3. CASE RGivesUp \/ RPollFails \/ RSocketReadFails
  <2>1. /\ Unmoved /\ UNCHANGED <<acks, sIn, created, ackQueue>>
        /\ rpc' # "final" /\ ArriveAtReceiver
    BY <1>3 DEF RGivesUp, RPollFails, RSocketReadFails, Unmoved, linkVars,
                AfterPoll, ArriveAtReceiver
  <2> QED  BY <1>2, <2>1
<1>4. CASE RNoPacket
  <2>1. /\ Unmoved /\ UNCHANGED <<acks, sIn, created, ackQueue>>
        /\ rpc' # "final" /\ data' = data /\ rIn' = NoInput
    BY <1>4 DEF RNoPacket, ReadThen
  <2> QED  BY <1>2, <2>1
<1>5. CASE RNoReply
  <2>1. /\ ReadThen("timeout") /\ PayloadArrives(PushArrived, FALSE)
        /\ WriteRun(InOrder(PushArrived)) /\ ackQueue' = ackQueue
    BY <1>5 DEF RNoReply
  <2>2. "timeout" \in {"poll", "timeout"} /\ FALSE \in BOOLEAN
        /\ (FALSE => Ends(InOrder(PushArrived)))
    OBVIOUS
  <2> QED  BY <1>1, <2>1, <2>2, ArrivedPayloadGaps
<1>6. CASE RReplyNotQueued
  <2>1. RReadSocket /\ ReadThen("poll") /\ ackQueue' = ackQueue
    BY <1>6 DEF RReplyNotQueued, RReadSocket
  <2>2. CASE Unmoved  BY <1>2, <2>1, <2>2 DEF ReadThen
  <2>3. CASE EofArrives  BY <1>1, <2>1, <2>3, EofGaps
  <2>4. CASE /\ PayloadArrives(PushArrived, Ends(InOrder(PushArrived)))
             /\ WriteRun(InOrder(PushArrived))
    <3>1. Ends(InOrder(PushArrived)) \in BOOLEAN
      BY <1>1, EndsType DEF TypeOK
    <3>2. "poll" \in {"poll", "timeout"}  OBVIOUS
    <3> QED  BY <1>1, <2>1, <2>4, <3>1, <3>2, ArrivedPayloadGaps
  <2> QED  BY <1>6, <2>2, <2>3, <2>4 DEF RReplyNotQueued
<1>7. CASE RNotQueued  BY <1>1, <1>7, RefusedGaps
<1>8. CASE RFileWriteFails
  <2> DEFINE last == Ends(InOrder(PushArrived))
  <2>1. /\ ReadThen("poll") /\ PayloadArrives(PushArrived, last)
        /\ Reply("ACK", waitedSeqNum', nWaited', last)
        /\ LET run == InOrder(PushArrived)
           IN  \E i \in 1 .. Len(run) :
                 written' =
                   written \o WrittenShort([k \in 1 .. Len(run) |-> run[k].n], i)
    BY <1>8 DEF RFileWriteFails, RReadSocket
  <2>2. last \in BOOLEAN /\ "poll" \in {"poll", "timeout"}
    BY <1>1, EndsType DEF TypeOK
  <2>3. last => Ends(InOrder(PushArrived))  OBVIOUS
  <2> HIDE DEF last
  <2> QED  BY <1>1, <2>1, <2>2, <2>3, ArrivedPayloadGaps
<1> QED  BY <1>3, <1>4, <1>5, <1>6, <1>7, <1>8 DEF ReceiverFault

-----------------------------------------------------------------------------
(* GapsInv is inductive. *)
LEMMA GapsStep ==
  ASSUME FewGaps, FaultsTypeOK, FaultsTypeOK', GapsInv, [FaultsNext]_allVars
  PROVE  GapsInv'
<1>1. CASE SenderStep  BY <1>1, SenderStepGaps
<1>2. CASE ReceiverStep  BY <1>2, ReceiverStepGaps
<1>3. CASE Second  BY <1>3, SecondGaps
<1>4. CASE SenderFault /\ UNCHANGED <<receiverVars, pollin>>
  BY <1>4, SenderFaultGaps
<1>5. CASE ReceiverFault /\ UNCHANGED <<senderVars, buf_ack, pollin>>
  BY <1>5, ReceiverFaultGaps
<1>6. CASE UNCHANGED allVars
  <2>1. /\ UNCHANGED linkVars /\ UNCHANGED senderVars
        /\ UNCHANGED receiverVars /\ UNCHANGED faultVars
    BY <1>6 DEF allVars, vars
  <2>2. /\ gaps' = gaps /\ front' = front /\ Overtaking' = Overtaking
        /\ (Reached <=> Reached')
    BY <2>1 DEF linkVars, senderVars, receiverVars, faultVars, gaps, front,
                Overtaking, Reached
  <2>3. SenderGaps' /\ ReceiverGaps'
    BY <2>1, <2>2 DEF linkVars, senderVars, receiverVars, GapsInv, SenderGaps,
                      ReceiverGaps
  <2>4. WrittenGaps' /\ DataGaps'
    BY <2>1 DEF linkVars, senderVars, receiverVars, GapsInv, WrittenGaps,
                WrittenOnce, DataGaps
  <2>5. ReplyGaps'
    BY <2>1, <2>2 DEF linkVars, senderVars, receiverVars, faultVars, GapsInv,
                      ReplyGaps
  <2> QED  BY <2>3, <2>4, <2>5 DEF GapsInv
<1> QED
  BY <1>1, <1>2, <1>3, <1>4, <1>5, <1>6 DEF FaultsNext, FaultsTerminated

(* However many packets and payloads are dropped, each number stands for   *)
(* the packet it was meant for (sender.c:274, 283, 311; receiver.c:        *)
(* 153-207), as long as no more calls fail than the sequence numbers have  *)
(* room for next to two windows and the lag of the link.                   *)
THEOREM GapsSafety ==
  ASSUME FewGaps
  PROVE  FaultsSpec => [](FaultsTypeOK /\ GapsInv)
<1>1. FaultsInit => FaultsTypeOK /\ GapsInv
  BY FaultsInitType, InitGaps
<1>2. FaultsTypeOK /\ GapsInv /\ [FaultsNext]_allVars
        => (FaultsTypeOK /\ GapsInv)'
  BY FaultsStepType, GapsStep
<1> QED  BY <1>1, <1>2, PTL DEF FaultsSpec

(* So no payload is written twice or out of order (queue_receiver.c:219,   *)
(* sender.c:31), whichever calls fail.                                     *)
THEOREM NeverTwice == ASSUME FewGaps PROVE FaultsSpec => []WrittenOnce
<1>1. GapsInv => WrittenOnce  BY DEF GapsInv, WrittenGaps
<1> QED  BY <1>1, GapsSafety, PTL

(* And whichever calls fail, a program that ends successfully has been     *)
(* told the truth (sender.c:274, receiver.c:86): the receiver has moved    *)
(* past every packet that was numbered, the one that ends the file among   *)
(* them.                                                                   *)
THEOREM EndIsTrue == ASSUME FewGaps PROVE FaultsSpec => []EndMeansReached
<1>1. GapsInv => EndMeansReached
  BY DEF GapsInv, SenderGaps, ReceiverGaps, Reached, EndMeansReached
<1> QED  BY <1>1, GapsSafety, PTL
=============================================================================
