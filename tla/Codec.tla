------------------------------- MODULE Codec --------------------------------
(***************************************************************************)
(* Packets in memory and on the wire (packet_implem.c).  A datagram is the *)
(* fields it is read as: twelve bytes of header, then, if there is a       *)
(* payload, the payload and four bytes of checksum.  A checksum stands for *)
(* the values it is computed from, so that it matches those only; damage   *)
(* turns it into Junk, which matches nothing.                              *)
(***************************************************************************)
EXTENDS Integers, Sequences

CONSTANTS
  MAX_PAYLOAD_SIZE,  \* 512
  MAX_WINDOW_SIZE,   \* 31
  NULL,              \* no packet, no payload
  Junk               \* bytes that are no field of any packet

HEADER == 12
CRC    == 4

DATA == 1
ACK  == 2
NACK == 3

(* htons, ntohs: the two bytes of a uint16_t change places. *)
Swap(x) == (x % 256) * 256 + x \div 256

(* crc32 over the first eight bytes with the TR bit 0, and over a payload. *)
\* Mistaken checksums: over the first four bytes only, and with the TR bit.
ShortCrc(h) == <<h.window, h.type, h.seqNum, h.length>>
TrCrc(h) == <<h.trFlag, h.window, h.type, h.seqNum, h.length, h.timestamp>>

HeaderCrc(h) == <<h.window, h.type, h.seqNum, h.length, h.timestamp>>

PayloadCrc(payload, length) == <<payload, length>>

-----------------------------------------------------------------------------
(* pkt_new: every field is 0. *)
pkt_new == [window |-> 0, trFlag |-> 0, type |-> 0, seqNum |-> 0,
            length |-> 0, timestamp |-> 0, payload |-> NULL]

(* A setter changes nothing when it refuses the value. *)
Set(p, ok, code, q) == IF ok THEN [code |-> "PKT_OK", pkt |-> q]
                       ELSE [code |-> code, pkt |-> p]

pkt_set_type(p, t)   == Set(p, t \in 0 .. 3, "E_TYPE", [p EXCEPT !.type = t])
pkt_set_tr(p, tr)    == Set(p, tr \in {0, 1}, "E_TR", [p EXCEPT !.trFlag = tr])
pkt_set_window(p, w) == Set(p, w <= MAX_WINDOW_SIZE, "E_WINDOW",
                            [p EXCEPT !.window = w])
pkt_set_length(p, n) == Set(p, n <= MAX_PAYLOAD_SIZE, "E_LENGTH",
                            [p EXCEPT !.length = n])
pkt_set_seqnum(p, s)    == Set(p, TRUE, "PKT_OK", [p EXCEPT !.seqNum = s])
pkt_set_timestamp(p, t) == Set(p, TRUE, "PKT_OK", [p EXCEPT !.timestamp = t])

(* The payload is copied, its length becomes the packet's.  A packet that  *)
(* has one already would have it resized, and what realloc returns dropped *)
(* (packet_implem.c:289): neither program sets a payload twice.            *)
pkt_set_payload(p, data, n, memory) ==
  IF n > MAX_PAYLOAD_SIZE THEN [code |-> "E_LENGTH", pkt |-> p]
  ELSE Set(p, memory, "E_NOMEM", [p EXCEPT !.payload = data, !.length = n])

-----------------------------------------------------------------------------
(* pkt_encode: the bytes of p, for a buffer of space bytes. *)
EncodedSize(length) == IF length = 0 THEN HEADER ELSE HEADER + length + CRC

pkt_encode(p, space) ==
  LET h == [p EXCEPT !.length = Swap(p.length)]
  IN  IF p = NULL THEN [code |-> "E_UNCONSISTENT"]
      ELSE IF space % 2^16 < EncodedSize(p.length) THEN [code |-> "E_NOMEM"]
      ELSE [code |-> "PKT_OK",
            datagram |->
              [size |-> EncodedSize(p.length), window |-> h.window,
               trFlag |-> h.trFlag, type |-> h.type, seqNum |-> h.seqNum,
               length |-> h.length, timestamp |-> h.timestamp,
               crc1 |-> HeaderCrc(h),
               payload |-> IF p.length = 0 THEN NULL ELSE p.payload,
               crc2 |-> IF p.length = 0 THEN NULL
                        ELSE PayloadCrc(p.payload, p.length)]]

(***************************************************************************)
(* pkt_decode: the checks in the order they are made, each with its code;  *)
(* the first one that d fails refuses it, and frees the packet.  Those of  *)
(* the payload are not reached when there are only twelve bytes.           *)
(***************************************************************************)
Checks(d, memory) ==
  LET length == Swap(d.length)
      more   == d.size # HEADER
  IN  << <<d.size < HEADER,                              "E_NOHEADER">>,
         <<d.type \notin DATA .. NACK,                   "E_TYPE">>,
         <<d.trFlag = 1 /\ d.type # DATA,                "E_TR">>,
         <<d.trFlag = 1 /\ more,                         "E_TR">>,
         <<length > MAX_PAYLOAD_SIZE,                    "E_LENGTH">>,
         <<d.crc1 # HeaderCrc(d),                        "E_CRC">>,
         <<more /\ d.size # HEADER + length + CRC,       "E_UNCONSISTENT">>,
         <<more /\ length = 0,                           "E_UNCONSISTENT">>,
         <<more /\ ~ memory,                             "E_NOMEM">>,
         <<more /\ d.crc2 # PayloadCrc(d.payload, length), "E_CRC">> >>

pkt_decode(d, memory) ==
  LET checks == Checks(d, memory)
      failed == {i \in DOMAIN checks : checks[i][1]}
      first  == CHOOSE i \in failed : \A j \in failed : i <= j
  IN  IF failed # {} THEN [code |-> checks[first][2], pkt |-> NULL]
      ELSE [code |-> "PKT_OK",
            pkt |-> [window |-> d.window, trFlag |-> d.trFlag,
                     type |-> d.type, seqNum |-> d.seqNum,
                     length |-> Swap(d.length), timestamp |-> d.timestamp,
                     payload |-> IF d.size = HEADER THEN NULL
                                 ELSE d.payload]]
=============================================================================
