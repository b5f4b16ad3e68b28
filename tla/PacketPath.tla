----------------------------- MODULE PacketPath -----------------------------
(***************************************************************************)
(* A packet on its way from the structure it is kept in, through a buffer  *)
(* and a damaged datagram, to the structure the other program decodes it   *)
(* into: DATA one way, replies the other.  A datagram is refused, or       *)
(* accepted as the packet it was, or as the header of that packet alone.   *)
(* A header alone that announces a payload is marked TR when the link has  *)
(* cut it, which is all the model of the link (Link) lets happen; one that *)
(* was cut in another way is accepted too (LengthIsCoherent).              *)
(***************************************************************************)
EXTENDS Codec, FiniteSets

CONSTANTS
  SeqNums, Times, Lengths, Payloads,  \* the values packets are made of
  MaxWrites,                          \* bound: datagrams written
  MaxDamage                           \* bound: how often any is damaged

MAX_PACKET_SIZE == 528
ACK_SIZE        == 12

(* The packets and datagrams the two programs may hold. *)
Packets == [window : Nat, trFlag : {0, 1}, type : Nat, seqNum : Nat,
            length : Nat, timestamp : Nat, payload : Payloads \cup {NULL}]

Datagrams == [size : Nat, window : Nat, trFlag : {0, 1}, type : Nat,
              seqNum : Nat, length : Nat, timestamp : Nat,
              crc1 : Seq(Nat) \cup {Junk},
              payload : Payloads \cup {NULL, Junk},
              crc2 : Seq(Nat \cup Payloads \cup {NULL, Junk})
                       \cup {NULL, Junk}]

ASSUME PacketPathAssumption ==
  /\ MAX_PAYLOAD_SIZE \in Nat
  /\ HEADER + MAX_PAYLOAD_SIZE + CRC <= MAX_PACKET_SIZE
  /\ SeqNums \subseteq Nat /\ Times \subseteq Nat
  /\ Lengths \subseteq 0 .. MAX_PAYLOAD_SIZE
  /\ NULL \notin Packets
  /\ Junk \notin Seq(Nat \cup Payloads \cup {NULL, Junk})
  /\ MaxWrites \in Nat /\ MaxDamage \in Nat

VARIABLES
  kept,     \* the sender's packet, in its queue until it is acknowledged
  reply,    \* the receiver's reply, in its queue until it is written
  wire,     \* the datagram under way
  buf_ack,  \* the twelve bytes the sender decodes, also when it read fewer
  got,      \* what the last decoding gave, until it is used
  written,  \* the packets encoded so far
  damage    \* how often a datagram was damaged

vars == <<kept, reply, wire, buf_ack, got, written, damage>>

Empty == [to |-> "nobody"]

(* The bytes of buf_ack before the first read: type 0, no valid checksum.  *)
Uninitialised == [size |-> ACK_SIZE, window |-> 0, trFlag |-> 0, type |-> 0,
                  seqNum |-> 0, length |-> 0, timestamp |-> 0, crc1 |-> Junk,
                  payload |-> NULL, crc2 |-> NULL]

Init ==
  /\ kept = NULL /\ reply = NULL
  /\ wire = Empty /\ buf_ack = Uninitialised
  /\ got = Empty /\ written = {} /\ damage = 0

(* An encoded packet is written to the socket. *)
Write(to, p, space) ==
  LET e == pkt_encode(p, space)
  IN  /\ wire = Empty /\ Cardinality(written) < MaxWrites
      /\ e.code = "PKT_OK"
      /\ wire' = [to |-> to, bytes |-> e.datagram, packet |-> p]
      /\ written' = written \cup {p}

-----------------------------------------------------------------------------
(* create_packet, or the packet that ends the file, built from pkt_new.    *)
create_packet(data, n, s, time) ==
  LET p == pkt_set_timestamp(pkt_set_type(pkt_new, DATA).pkt, time).pkt
      w == pkt_set_window(pkt_set_tr(p, 0).pkt, 31)
      l == pkt_set_length(pkt_set_seqnum(w.pkt, s).pkt, n)
      d == pkt_set_payload(l.pkt, data, n, TRUE)
  IN  IF "PKT_OK" # w.code \/ "PKT_OK" # l.code \/ "PKT_OK" # d.code
      THEN NULL ELSE d.pkt

\* A mistaken last packet, the type of which is not set.
LastUntyped(s, time) ==
  pkt_set_timestamp(pkt_set_seqnum(pkt_new, s).pkt, time).pkt

last_packet(s, time) ==
  pkt_set_timestamp(pkt_set_seqnum(pkt_set_type(pkt_new, DATA).pkt, s).pkt,
                    time).pkt

SendNew ==
  \E s \in SeqNums, t \in Times, n \in Lengths, data \in Payloads :
    /\ kept' = IF n = 0 THEN last_packet(s, t)
               ELSE create_packet(data, n, s, t)
    /\ Write("receiver", kept', MAX_PACKET_SIZE)
    /\ got' = Empty
    /\ UNCHANGED <<reply, buf_ack, damage>>

(* The same structure is encoded again, with the time of now. *)
Resend ==
  /\ kept # NULL
  /\ \E t \in Times : kept' = pkt_set_timestamp(kept, t).pkt
  /\ Write("receiver", kept', MAX_PACKET_SIZE)
  /\ got' = Empty
  /\ UNCHANGED <<reply, buf_ack, damage>>

(* A NACK that names the packet erases its timestamp. *)
EraseTimestamp ==
  /\ kept # NULL /\ got # Empty /\ got.to = "sender" /\ got.code = "PKT_OK"
  /\ got.pkt.type = NACK /\ got.pkt.seqNum = kept.seqNum
  /\ kept' = [kept EXCEPT !.timestamp = 0] /\ got' = Empty
  /\ UNCHANGED <<reply, wire, buf_ack, written, damage>>

(* The receiver queues a reply to what it decoded: a NACK of a truncated   *)
(* packet, or an ACK of whatever number and time its loop has come to.  TR *)
(* marks the last ACK.                                                     *)
QueueReply ==
  /\ reply = NULL /\ got # Empty /\ got.to = "receiver"
  /\ LET new == [pkt_new EXCEPT !.window = 31]
         ok  == got.code = "PKT_OK"
     IN  IF ok /\ got.pkt.trFlag = 1
         THEN reply' = [new EXCEPT !.type = NACK, !.seqNum = got.pkt.seqNum,
                                   !.timestamp = got.pkt.timestamp]
         ELSE \E s \in SeqNums, t \in Times, last \in {0, 1} :
                /\ ok \/ (t = 0 /\ last = 0)
                /\ reply' = [new EXCEPT !.type = ACK, !.seqNum = s,
                                        !.timestamp = t, !.trFlag = last]
  /\ got' = Empty
  /\ UNCHANGED <<kept, wire, buf_ack, written, damage>>

\* A mistaken reply, which carries the mark of the last ACK.
Marked(p) == p

(* The mark is for the receiver alone: it is erased before the ACK is sent *)
Unmarked(p) == [p EXCEPT !.trFlag = 0]

WriteReply ==
  /\ reply # NULL
  /\ Write("sender", Unmarked(reply), ACK_SIZE)
  /\ reply' = NULL /\ got' = Empty
  /\ UNCHANGED <<kept, buf_ack, damage>>

-----------------------------------------------------------------------------
(* What may happen to a datagram: a field is damaged, it is cut short, or  *)
(* the link cuts its payload off and says so (TR).                         *)
Altered(d) ==
  {[d EXCEPT !.window = 0], [d EXCEPT !.trFlag = 1 - @],
   [d EXCEPT !.crc1 = Junk]}
  \cup {[d EXCEPT !.type = x] : x \in 0 .. 3}
  \cup {[d EXCEPT !.seqNum = x] : x \in SeqNums \cup {0}}
  \cup {[d EXCEPT !.length = Swap(x)] :
           x \in Lengths \cup {0, MAX_PAYLOAD_SIZE + 1}}
  \cup {[d EXCEPT !.timestamp = x] : x \in Times \cup {0}}
  \cup (IF d.payload = NULL THEN {}
        ELSE {[d EXCEPT !.crc2 = Junk]}
             \cup {[d EXCEPT !.payload = x] : x \in Payloads \cup {Junk}})

Cut(d) ==
  {[d EXCEPT !.size = k] :
     k \in {HEADER - 4, HEADER, HEADER + 1 + CRC} \cap 0 .. d.size}

CutByLink(d) == [d EXCEPT !.size = HEADER, !.trFlag = 1]

Damage ==
  /\ wire # Empty /\ damage < MaxDamage /\ damage' = damage + 1
  /\ \E d \in Altered(wire.bytes) \cup Cut(wire.bytes) :
       /\ d # wire.bytes
       /\ wire' = [wire EXCEPT !.bytes = d]
  /\ UNCHANGED <<kept, reply, buf_ack, got, written>>

Lose ==
  /\ wire # Empty /\ wire' = Empty
  /\ UNCHANGED <<kept, reply, buf_ack, got, written, damage>>

-----------------------------------------------------------------------------
Decode(to, bytes, packet, memory) ==
  LET d == pkt_decode(bytes, memory)
  IN  got' = [to |-> to, code |-> d.code, pkt |-> d.pkt, bytes |-> bytes,
              packet |-> packet, memory |-> memory]

ReceiverReads ==
  /\ wire # Empty /\ wire.to = "receiver"
  /\ \E memory \in BOOLEAN, cut \in BOOLEAN :
       Decode("receiver", IF cut THEN CutByLink(wire.bytes) ELSE wire.bytes,
              wire.packet, memory)
  /\ wire' = Empty
  /\ UNCHANGED <<kept, reply, buf_ack, written, damage>>

(* What buf_ack holds after d was read into it: a short datagram leaves    *)
(* the end of the old bytes in place.                                      *)
Over(d, old) ==
  IF d.size >= ACK_SIZE THEN [d EXCEPT !.size = ACK_SIZE]
  ELSE [d EXCEPT !.size = ACK_SIZE, !.crc1 = old.crc1]

(* A read that fails leaves all of the old bytes, and the datagram waiting. *)
SenderReads ==
  /\ wire # Empty /\ wire.to = "sender"
  /\ \/ buf_ack' = Over(wire.bytes, buf_ack) /\ wire' = Empty
     \/ UNCHANGED <<buf_ack, wire>>
  /\ Decode("sender", buf_ack', wire.packet, TRUE)
  /\ UNCHANGED <<kept, reply, written, damage>>

(* The two programs have ended, and are started again. *)
Restart ==
  /\ wire = Empty /\ written # {}
  /\ kept' = NULL /\ reply' = NULL
  /\ wire' = Empty /\ buf_ack' = Uninitialised
  /\ got' = Empty /\ written' = {} /\ damage' = 0

Next ==
  \/ SendNew \/ Resend \/ EraseTimestamp \/ QueueReply \/ WriteReply
  \/ Damage \/ Lose
  \/ ReceiverReads \/ SenderReads
  \/ Restart

Spec == Init /\ [][Next]_vars

-----------------------------------------------------------------------------
Accepted == got # Empty /\ got.code = "PKT_OK"

BytesOf(p) == pkt_encode(p, MAX_PACKET_SIZE).datagram

(* What the two programs encode: no TR, a known type, no payload that is   *)
(* not counted.                                                            *)
Sound(p) ==
  /\ p \in Packets /\ p.trFlag = 0 /\ p.type \in DATA .. NACK
  /\ p.length <= MAX_PAYLOAD_SIZE
  /\ p.length = 0 => p.payload = NULL

(* What BytesOf gives, written as its fields. *)
Image(p) ==
  [size |-> EncodedSize(p.length), window |-> p.window, trFlag |-> p.trFlag,
   type |-> p.type, seqNum |-> p.seqNum, length |-> Swap(p.length),
   timestamp |-> p.timestamp,
   crc1 |-> <<p.window, p.type, p.seqNum, Swap(p.length), p.timestamp>>,
   payload |-> IF p.length = 0 THEN NULL ELSE p.payload,
   crc2 |-> IF p.length = 0 THEN NULL ELSE <<p.payload, p.length>>]

(* A datagram that may have come of p: its checksums are p's or nothing.   *)
(* Twelve bytes have one checksum only.                                    *)
Trace(d, p) ==
  /\ d \in Datagrams
  /\ d.crc1 \in {Junk, Image(p).crc1}
  /\ d.size # HEADER => d.crc2 \in {Junk, Image(p).crc2}

(* What the receiver keeps until it is written; a mark may be set. *)
Replies == {p \in Packets : /\ p.type \in {ACK, NACK}
                            /\ p.length = 0 /\ p.payload = NULL}

\* A datagram some accident may have made of that of p.
Remains(d, p) ==
  /\ d \in Datagrams
  /\ d.crc1 \in {Junk, Image(p).crc1}
  /\ d.crc2 \in {Junk, Image(p).crc2}

Encoded ==
  /\ IsFiniteSet(written) /\ Cardinality(written) <= MaxWrites
  /\ \A p \in written : Sound(p)
  /\ damage \in 0 .. MaxDamage

Queued ==
  /\ kept # NULL => Sound(kept) /\ kept.type = DATA
  /\ reply # NULL => reply \in Replies

UnderWay ==
  wire # Empty =>
    /\ wire \in [to : {"receiver", "sender"}, bytes : Datagrams,
                 packet : written]
    /\ Remains(wire.bytes, wire.packet)
    /\ wire.to = "receiver" => wire.packet.type = DATA

Buffered ==
  /\ buf_ack \in Datagrams /\ buf_ack.size = ACK_SIZE
  /\ buf_ack.crc1 # Junk => \E p \in written : buf_ack.crc1 = Image(p).crc1

Decoded ==
  got # Empty =>
    /\ got.packet \in written /\ got.memory \in BOOLEAN
    /\ got.to = "receiver" => got.packet.type = DATA
    /\ \E p \in written : Trace(got.bytes, p)
    /\ got.code = pkt_decode(got.bytes, got.memory).code
    /\ got.pkt = pkt_decode(got.bytes, got.memory).pkt

(* What is known of every packet and datagram the programs and the link    *)
(* hold, and what the other properties rest on: what is written is Sound,  *)
(* also after a new time, a NACK or the erasure of a mark; a datagram      *)
(* under way has the checksums of the packet it was, or none; the buffer   *)
(* the sender reuses has the checksum of one packet that was written, or   *)
(* none, whatever was left in it (sender.c:72, 267-271).                   *)
PacketInv == Encoded /\ Queued /\ UnderWay /\ Buffered /\ Decoded

(* A packet that arrives as it was written is decoded to what was encoded, *)
(* also one that is sent again with another time (pkt_encode, pkt_decode), *)
(* and the last ACK, whose mark the sender would refuse (receiver.c:69).   *)
RoundTrip ==
  got # Empty /\ got.memory /\ got.packet # NULL =>
    (got.bytes = BytesOf(got.packet) => Accepted /\ got.pkt = got.packet)

(* Whatever is accepted is one packet that was written, TR aside: with its *)
(* own payload, or, when there were twelve bytes, its header alone.  Two   *)
(* damaged fields, a datagram cut anywhere, and the end of an older reply  *)
(* behind the beginning of a newer one (sender.c:267-271) are refused      *)
(* (packet_implem.c:64, 106).                                              *)
NothingForged ==
  Accepted =>
    \E p \in written :
      got.pkt = [p EXCEPT !.trFlag = got.pkt.trFlag,
                          !.payload = IF got.bytes.size = HEADER THEN NULL
                                      ELSE p.payload]

(* A packet whose payload the link has cut off is recognised and named by  *)
(* its number, so that a NACK can ask for it (packet_implem.c:59-69,       *)
(* receiver.c:137-149).                                                    *)
TruncationIsSeen ==
  got # Empty /\ got.to = "receiver" =>
    (got.bytes = CutByLink(BytesOf(got.packet)) =>
       Accepted /\ got.pkt.trFlag = 1 /\ got.pkt.seqNum = got.packet.seqNum)

(* What packet_interface.h:63 says of pkt_decode and packet_implem.c:74    *)
(* does not keep: the length of an accepted packet agrees with the number  *)
(* of bytes, unless TR tells that the payload was cut off.                 *)
LengthIsCoherent ==
  Accepted =>
    got.pkt.trFlag = 1 \/ got.bytes.size = EncodedSize(got.pkt.length)
=============================================================================
