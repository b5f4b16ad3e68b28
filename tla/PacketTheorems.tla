---------------------------- MODULE PacketTheorems ----------------------------
(***************************************************************************)
(* What encoding and decoding do to every packet, and to every datagram    *)
(* that was damaged, cut short or mixed with an older one.                 *)
(***************************************************************************)
EXTENDS PacketPath, FiniteSetTheorems, WellFoundedInduction, TLAPS

(* A nonempty set of positions has a first one. *)
LEMMA Smallest ==
  ASSUME NEW S, S \subseteq Nat, S # {}
  PROVE  \E x \in S : \A y \in S : x <= y
<1> DEFINE R == {ss \in Nat \X Nat : ss[1] < ss[2]}
<1>1. IsWellFoundedOn(R, Nat)
  BY NatLessThanWellFounded, Zenon DEF OpToRel
<1>2. \E x \in S : \A y \in S : ~ (<<y, x>> \in R)
  <2> HIDE DEF R
  <2> QED  BY <1>1, WFMin
<1>3. PICK x \in S : \A y \in S : ~ (<<y, x>> \in R)  BY <1>2
<1>4. ASSUME NEW y \in S  PROVE x <= y
  <2>1. ~ (y < x)  BY <1>3
  <2> QED  BY <2>1
<1> QED  BY <1>4

(* Changing the places of two bytes twice changes nothing. *)
LEMMA SwapTwice ==
  ASSUME NEW x \in Nat, x < 65536
  PROVE  Swap(x) \in Nat /\ Swap(Swap(x)) = x
<1> DEFINE a == x % 256
           b == x \div 256
<1>1. a \in 0 .. 255 /\ b \in 0 .. 255 /\ x = 256 * b + a  OBVIOUS
<1> DEFINE y == a * 256 + b
<1>2. Swap(x) = y /\ Swap(y) = (y % 256) * 256 + y \div 256  BY DEF Swap
<1> HIDE DEF a, b
<1>3. y \in Nat /\ y % 256 = b /\ y \div 256 = a  BY ONLY <1>1
<1> HIDE DEF y
<1>4. Swap(y) = b * 256 + a  BY <1>2, <1>3
<1> QED  BY <1>1, <1>2, <1>3, <1>4

(* The conditions pkt_decode accepts a datagram under. *)
Fits(d, memory) ==
  LET length == Swap(d.length)
      more   == d.size # HEADER
  IN  /\ d.size >= HEADER
      /\ d.type \in DATA .. NACK
      /\ d.trFlag = 1 => d.type = DATA /\ ~ more
      /\ length <= MAX_PAYLOAD_SIZE
      /\ d.crc1 = HeaderCrc(d)
      /\ more => /\ d.size = HEADER + length + CRC /\ length # 0
                 /\ memory
                 /\ d.crc2 = PayloadCrc(d.payload, length)

(* A datagram is decoded to its fields, or refused with an error code and  *)
(* no packet.                                                              *)
LEMMA Decoding ==
  ASSUME NEW d \in Datagrams, NEW memory \in BOOLEAN
  PROVE  /\ Fits(d, memory) =>
              pkt_decode(d, memory) =
                [code |-> "PKT_OK",
                 pkt |-> [window |-> d.window, trFlag |-> d.trFlag,
                          type |-> d.type, seqNum |-> d.seqNum,
                          length |-> Swap(d.length),
                          timestamp |-> d.timestamp,
                          payload |-> IF d.size = HEADER THEN NULL
                                      ELSE d.payload]]
         /\ ~ Fits(d, memory) =>
              /\ pkt_decode(d, memory).code # "PKT_OK"
              /\ pkt_decode(d, memory).pkt = NULL
<1> DEFINE c == Checks(d, memory)
           length == Swap(d.length)
           more == d.size # HEADER
           failed == {i \in DOMAIN c : c[i][1]}
           first == CHOOSE i \in failed : \A j \in failed : i <= j
<1>1. /\ c[1][1] = (d.size < HEADER)
      /\ c[2][1] = (d.type \notin DATA .. NACK)
      /\ c[3][1] = (d.trFlag = 1 /\ d.type # DATA)
      /\ c[4][1] = (d.trFlag = 1 /\ more)
      /\ c[5][1] = (length > MAX_PAYLOAD_SIZE)
      /\ c[6][1] = (d.crc1 # HeaderCrc(d))
      /\ c[7][1] = (more /\ d.size # HEADER + length + CRC)
      /\ c[8][1] = (more /\ length = 0)
      /\ c[9][1] = (more /\ ~ memory)
      /\ c[10][1] = (more /\ d.crc2 # PayloadCrc(d.payload, length))
  BY DEF Checks
<1>2. DOMAIN c = 1 .. 10 /\ \A i \in 1 .. 10 : c[i][2] # "PKT_OK"
  BY DEF Checks
<1>3. Fits(d, memory) <=> failed = {}
  <2>1. failed = {} <=> \A i \in 1 .. 10 : ~ c[i][1]  BY <1>2
  <2> HIDE DEF failed, c
  <2>2. failed = {} <=> /\ ~ c[1][1] /\ ~ c[2][1] /\ ~ c[3][1] /\ ~ c[4][1]
                        /\ ~ c[5][1] /\ ~ c[6][1] /\ ~ c[7][1] /\ ~ c[8][1]
                        /\ ~ c[9][1] /\ ~ c[10][1]
    BY <2>1
  <2>3. d.size \in Nat /\ HEADER \in Nat  BY DEF Datagrams, HEADER
  <2>4. length \in Int /\ MAX_PAYLOAD_SIZE \in Int
    <3>1. d.length \in Nat  BY DEF Datagrams
    <3> QED  BY <3>1, PacketPathAssumption DEF Swap
  <2>5. /\ ~ (d.size < HEADER) <=> d.size >= HEADER
        /\ ~ (length > MAX_PAYLOAD_SIZE) <=> length <= MAX_PAYLOAD_SIZE
    BY <2>3, <2>4
  <2>6. /\ ~ c[1][1] <=> d.size >= HEADER
        /\ ~ c[2][1] <=> d.type \in DATA .. NACK
        /\ ~ c[3][1] <=> (d.trFlag = 1 => d.type = DATA)
        /\ ~ c[4][1] <=> (d.trFlag = 1 => ~ more)
        /\ ~ c[5][1] <=> length <= MAX_PAYLOAD_SIZE
        /\ ~ c[6][1] <=> d.crc1 = HeaderCrc(d)
    BY <1>1, <2>5
  <2>7. /\ ~ c[7][1] <=> (more => d.size = HEADER + length + CRC)
        /\ ~ c[8][1] <=> (more => length # 0)
        /\ ~ c[9][1] <=> (more => memory)
        /\ ~ c[10][1] <=> (more => d.crc2 = PayloadCrc(d.payload, length))
    BY <1>1
  <2>8. Fits(d, memory) <=>
          /\ d.size >= HEADER /\ d.type \in DATA .. NACK
          /\ d.trFlag = 1 => d.type = DATA /\ ~ more
          /\ length <= MAX_PAYLOAD_SIZE /\ d.crc1 = HeaderCrc(d)
          /\ more => /\ d.size = HEADER + length + CRC /\ length # 0
                     /\ memory
                     /\ d.crc2 = PayloadCrc(d.payload, length)
    BY DEF Fits
  <2> HIDE DEF more, length
  <2> QED  BY <2>2, <2>6, <2>7, <2>8
<1>4. failed # {} => first \in 1 .. 10 /\ first \in failed
  <2>1. failed \subseteq 1 .. 10  BY <1>2
  <2> HIDE DEF failed
  <2>2. failed # {} => \E i \in failed : \A j \in failed : i <= j
    <3>1. failed \subseteq Nat  BY <2>1
    <3> QED  BY <3>1, Smallest
  <2> QED  BY <2>1, <2>2
<1>5. failed # {} =>
        pkt_decode(d, memory) = [code |-> c[first][2], pkt |-> NULL]
  BY DEF pkt_decode
<1>6. failed = {} =>
        pkt_decode(d, memory) =
          [code |-> "PKT_OK",
           pkt |-> [window |-> d.window, trFlag |-> d.trFlag,
                    type |-> d.type, seqNum |-> d.seqNum,
                    length |-> Swap(d.length), timestamp |-> d.timestamp,
                    payload |-> IF d.size = HEADER THEN NULL ELSE d.payload]]
  BY DEF pkt_decode
<1> HIDE DEF c, failed, first
<1> QED  BY <1>2, <1>3, <1>4, <1>5, <1>6

-----------------------------------------------------------------------------
LEMMA Encoding ==
  ASSUME NEW p \in Packets, p.length <= MAX_PAYLOAD_SIZE
  PROVE  /\ BytesOf(p) = Image(p)
         /\ \A space : pkt_encode(p, space).code = "PKT_OK" =>
                         pkt_encode(p, space).datagram = Image(p)
         /\ Image(p) \in Datagrams
         /\ EncodedSize(p.length) \in HEADER .. MAX_PACKET_SIZE
<1>1. p # NULL  BY PacketPathAssumption
<1> DEFINE h == [p EXCEPT !.length = Swap(p.length)]
<1>2. /\ h.window = p.window /\ h.trFlag = p.trFlag /\ h.type = p.type
      /\ h.seqNum = p.seqNum /\ h.length = Swap(p.length)
      /\ h.timestamp = p.timestamp
  BY DEF Packets
<1>3. EncodedSize(p.length) \in HEADER .. MAX_PACKET_SIZE
      /\ EncodedSize(p.length) \in Nat
  <2>1. /\ HEADER \in Nat /\ CRC \in Nat /\ HEADER <= MAX_PACKET_SIZE
        /\ MAX_PACKET_SIZE \in Nat
    BY DEF HEADER, CRC, MAX_PACKET_SIZE
  <2>2. /\ p.length \in Nat /\ p.length <= MAX_PAYLOAD_SIZE
        /\ MAX_PAYLOAD_SIZE \in Nat
        /\ HEADER + MAX_PAYLOAD_SIZE + CRC <= MAX_PACKET_SIZE
    BY PacketPathAssumption DEF Packets
  <2> QED  BY <2>1, <2>2 DEF EncodedSize
<1>4. ASSUME NEW space, ~ (space % 2^16 < EncodedSize(p.length))
      PROVE  pkt_encode(p, space) = [code |-> "PKT_OK", datagram |-> Image(p)]
  BY <1>1, <1>2, <1>4 DEF pkt_encode, Image, HeaderCrc, PayloadCrc
<1>5. ASSUME NEW space, space % 2^16 < EncodedSize(p.length)
      PROVE  pkt_encode(p, space).code # "PKT_OK"
  BY <1>1, <1>5 DEF pkt_encode
<1>6. ~ (MAX_PACKET_SIZE % 2^16 < EncodedSize(p.length))
  <2>1. MAX_PACKET_SIZE % 2^16 = MAX_PACKET_SIZE /\ MAX_PACKET_SIZE \in Nat
    BY DEF MAX_PACKET_SIZE
  <2> QED  BY <1>3, <2>1
<1>7. BytesOf(p) = Image(p)  BY <1>4, <1>6 DEF BytesOf
<1>8. ASSUME NEW space, pkt_encode(p, space).code = "PKT_OK"
      PROVE  pkt_encode(p, space).datagram = Image(p)
  BY <1>4, <1>5, <1>8
<1>9. Image(p) \in Datagrams
  <2>1. Swap(p.length) \in Nat
    <3>1. p.length \in Nat  BY DEF Packets
    <3> QED  BY <3>1 DEF Swap
  <2>2. <<p.window, p.type, p.seqNum, Swap(p.length), p.timestamp>> \in Seq(Nat)
    BY <2>1 DEF Packets
  <2>3. <<p.payload, p.length>> \in Seq(Nat \cup Payloads \cup {NULL, Junk})
    BY DEF Packets
  <2> QED  BY <1>3, <2>1, <2>2, <2>3 DEF Image, Datagrams, Packets
<1> QED  BY <1>3, <1>7, <1>8, <1>9

(* What was encoded is decoded to what it was, whatever the number of      *)
(* bytes of its payload.                                                   *)
LEMMA ImageDecoded ==
  ASSUME NEW p, Sound(p)
  PROVE  /\ pkt_decode(Image(p), TRUE).code = "PKT_OK"
         /\ pkt_decode(Image(p), TRUE).pkt = p
<1> DEFINE d == Image(p)
<1>1. /\ p \in Packets /\ p.length \in Nat /\ p.length < 65536
      /\ p.length <= MAX_PAYLOAD_SIZE
  <2>1. p \in Packets /\ p.length \in Nat /\ p.length <= MAX_PAYLOAD_SIZE
    BY DEF Sound, Packets
  <2>2. MAX_PAYLOAD_SIZE \in Nat /\ 12 + MAX_PAYLOAD_SIZE + 4 <= 528
    BY PacketPathAssumption DEF HEADER, CRC, MAX_PACKET_SIZE
  <2> QED  BY <2>1, <2>2
<1>2. Swap(d.length) = p.length  BY <1>1, SwapTwice DEF Image
<1>3. d \in Datagrams /\ d.size \in Nat /\ d.size >= HEADER
  BY <1>1, Encoding DEF Image, HEADER
<1>4. d.size # HEADER <=> p.length # 0
  BY <1>1 DEF Image, EncodedSize, HEADER, CRC
<1>5. Fits(d, TRUE)
  <2>1. /\ d.type \in DATA .. NACK /\ d.trFlag = 0 /\ d.crc1 = HeaderCrc(d)
    BY DEF Sound, Image, HeaderCrc
  <2>2. p.length # 0 => /\ d.size = HEADER + p.length + CRC
                        /\ d.crc2 = PayloadCrc(d.payload, p.length)
    BY DEF Image, EncodedSize, PayloadCrc
  <2> QED  BY <1>1, <1>2, <1>3, <1>4, <2>1, <2>2 DEF Fits
<1>6. p = [window |-> d.window, trFlag |-> d.trFlag, type |-> d.type,
           seqNum |-> d.seqNum, length |-> Swap(d.length),
           timestamp |-> d.timestamp,
           payload |-> IF d.size = HEADER THEN NULL ELSE d.payload]
  <2>1. /\ p.window = d.window /\ p.trFlag = d.trFlag /\ p.type = d.type
        /\ p.seqNum = d.seqNum /\ p.timestamp = d.timestamp
    BY DEF Image
  <2>2. p.payload = IF d.size = HEADER THEN NULL ELSE d.payload
    BY <1>4 DEF Sound, Image
  <2> HIDE DEF d
  <2> QED  BY <1>1, <1>2, <2>1, <2>2 DEF Packets
<1> HIDE DEF d
<1>7. pkt_decode(d, TRUE) =
        [code |-> "PKT_OK",
         pkt |-> [window |-> d.window, trFlag |-> d.trFlag, type |-> d.type,
                  seqNum |-> d.seqNum, length |-> Swap(d.length),
                  timestamp |-> d.timestamp,
                  payload |-> IF d.size = HEADER THEN NULL ELSE d.payload]]
  BY <1>3, <1>5, Decoding
<1> DEFINE r == pkt_decode(d, TRUE)
<1>8. r = [code |-> "PKT_OK", pkt |-> p]  BY <1>6, <1>7
<1> HIDE DEF r
<1>9. r.code = "PKT_OK" /\ r.pkt = p  BY <1>8
<1> QED  BY <1>9 DEF d, r

(* q is p, with or without TR; of twelve bytes, p without its payload. *)
Given(q, p, size) ==
  q = [p EXCEPT !.trFlag = q.trFlag,
                !.payload = IF size = HEADER THEN NULL ELSE p.payload]

(* Whatever else was changed, what is accepted of such a datagram is p,    *)
(* with or without TR, without its payload if there are twelve bytes.      *)
LEMMA TraceDecoded ==
  ASSUME NEW p, Sound(p), NEW d, Trace(d, p), NEW memory \in BOOLEAN,
         pkt_decode(d, memory).code = "PKT_OK",
         NEW q, q = pkt_decode(d, memory).pkt
  PROVE  Given(q, p, d.size) /\ q \in Packets
<1>1. d \in Datagrams /\ p \in Packets  BY DEF Trace, Sound
<1>2. /\ Fits(d, memory)
      /\ q = [window |-> d.window, trFlag |-> d.trFlag, type |-> d.type,
              seqNum |-> d.seqNum, length |-> Swap(d.length),
              timestamp |-> d.timestamp,
              payload |-> IF d.size = HEADER THEN NULL ELSE d.payload]
  BY <1>1, Decoding
<1>3. /\ p.length \in Nat /\ p.length < 65536 /\ Swap(d.length) \in Nat
      /\ Swap(p.length) \in Nat
  <2>1. p.length \in Nat /\ p.length <= MAX_PAYLOAD_SIZE /\ d.length \in Nat
    BY DEF Sound, Packets, Trace, Datagrams
  <2>2. MAX_PAYLOAD_SIZE \in Nat /\ 12 + MAX_PAYLOAD_SIZE + 4 <= 528
    BY PacketPathAssumption DEF HEADER, CRC, MAX_PACKET_SIZE
  <2>3. p.length < 65536  BY <2>1, <2>2
  <2> QED  BY <2>1, <2>3 DEF Swap
<1>4. HeaderCrc(d) = <<p.window, p.type, p.seqNum, Swap(p.length), p.timestamp>>
  <2>1. HeaderCrc(d) \in Seq(Nat \cup Payloads \cup {NULL, Junk})
    BY <1>1 DEF HeaderCrc, Datagrams
  <2>2. HeaderCrc(d) # Junk  BY <2>1, PacketPathAssumption
  <2>3. d.crc1 = HeaderCrc(d)  BY <1>2 DEF Fits
  <2> QED  BY <2>2, <2>3 DEF Trace, Image
<1>5. /\ d.window = p.window /\ d.type = p.type /\ d.seqNum = p.seqNum
      /\ d.length = Swap(p.length) /\ d.timestamp = p.timestamp
  BY <1>4 DEF HeaderCrc
<1>6. Swap(d.length) = p.length  BY <1>3, <1>5, SwapTwice
<1>7. d.size # HEADER => d.payload = p.payload
  <2> SUFFICES ASSUME d.size # HEADER  PROVE d.payload = p.payload
    OBVIOUS
  <2>1. p.length # 0 /\ d.crc2 = <<d.payload, p.length>>
    BY <1>2, <1>6 DEF Fits, PayloadCrc
  <2>2. <<d.payload, p.length>> \in Seq(Nat \cup Payloads \cup {NULL, Junk})
    BY <1>1, <1>3 DEF Datagrams
  <2>3. d.crc2 # Junk  BY <2>1, <2>2, PacketPathAssumption
  <2>4. d.crc2 = <<p.payload, p.length>>  BY <2>1, <2>3 DEF Trace, Image
  <2> QED  BY <2>1, <2>4
<1>8. /\ q.window = p.window /\ q.type = p.type /\ q.seqNum = p.seqNum
      /\ q.length = p.length /\ q.timestamp = p.timestamp
      /\ q.trFlag = d.trFlag
      /\ q.payload = IF d.size = HEADER THEN NULL ELSE d.payload
  BY <1>2, <1>5, <1>6
<1>9. q.payload = IF d.size = HEADER THEN NULL ELSE p.payload
  BY <1>7, <1>8
<1>10. q \in Packets
  <2>1. p.payload \in Payloads \cup {NULL} /\ d.trFlag \in {0, 1}
    BY <1>1 DEF Packets, Datagrams
  <2>2. d.size = HEADER \/ d.payload = p.payload  BY <1>7
  <2> QED  BY <1>1, <1>2, <1>3, <2>1, <2>2 DEF Packets, Datagrams
<1>11. q = [p EXCEPT !.trFlag = q.trFlag,
                     !.payload = IF d.size = HEADER THEN NULL ELSE p.payload]
  BY <1>1, <1>8, <1>9, <1>10 DEF Packets
<1> QED  BY <1>10, <1>11 DEF Given

(* Damage may turn a checksum into Junk, and never into another checksum.  *)
LEMMA DamagedTrace ==
  ASSUME NEW d \in Datagrams, NEW e \in Altered(d) \cup Cut(d) \cup {CutByLink(d)}
  PROVE  /\ e \in Datagrams
         /\ e.crc1 \in {Junk, d.crc1} /\ e.crc2 \in {Junk, d.crc2}
<1>1. /\ SeqNums \subseteq Nat /\ Times \subseteq Nat
      /\ Lengths \subseteq Nat /\ MAX_PAYLOAD_SIZE \in Nat
  BY PacketPathAssumption
<1>2. CASE \/ e \in {[d EXCEPT !.window = 0], [d EXCEPT !.trFlag = 1 - @],
                     [d EXCEPT !.crc1 = Junk]}
           \/ e = CutByLink(d)
  <2>1. CASE e = [d EXCEPT !.window = 0]  BY <2>1 DEF Datagrams
  <2>2. CASE e = [d EXCEPT !.trFlag = 1 - @]
    <3>1. 1 - d.trFlag \in {0, 1}  BY DEF Datagrams
    <3> QED  BY <2>2, <3>1 DEF Datagrams
  <2>3. CASE e = [d EXCEPT !.crc1 = Junk]  BY <2>3 DEF Datagrams
  <2>4. CASE e = CutByLink(d)  BY <2>4 DEF Datagrams, CutByLink, HEADER
  <2> QED  BY <1>2, <2>1, <2>2, <2>3, <2>4
<1>3. CASE \/ e \in {[d EXCEPT !.type = x] : x \in 0 .. 3}
           \/ e \in {[d EXCEPT !.seqNum = x] : x \in SeqNums \cup {0}}
           \/ e \in {[d EXCEPT !.timestamp = x] : x \in Times \cup {0}}
  <2>1. CASE e \in {[d EXCEPT !.type = x] : x \in 0 .. 3}
    <3>1. PICK x \in Nat : e = [d EXCEPT !.type = x]  BY <2>1
    <3> QED  BY <3>1 DEF Datagrams
  <2>2. CASE e \in {[d EXCEPT !.seqNum = x] : x \in SeqNums \cup {0}}
    <3>1. PICK x \in Nat : e = [d EXCEPT !.seqNum = x]  BY <1>1, <2>2
    <3> QED  BY <3>1 DEF Datagrams
  <2>3. CASE e \in {[d EXCEPT !.timestamp = x] : x \in Times \cup {0}}
    <3>1. PICK x \in Nat : e = [d EXCEPT !.timestamp = x]  BY <1>1, <2>3
    <3> QED  BY <3>1 DEF Datagrams
  <2> QED  BY <1>3, <2>1, <2>2, <2>3
<1>4. CASE e \in {[d EXCEPT !.length = Swap(x)] :
                    x \in Lengths \cup {0, MAX_PAYLOAD_SIZE + 1}}
  <2>1. PICK x \in Lengths \cup {0, MAX_PAYLOAD_SIZE + 1} :
          e = [d EXCEPT !.length = Swap(x)]
    BY <1>4
  <2>2. x \in Nat  BY <1>1, <2>1
  <2>3. Swap(x) \in Nat  BY <2>2 DEF Swap
  <2> QED  BY <2>1, <2>3 DEF Datagrams
<1>5. CASE \/ e = [d EXCEPT !.crc2 = Junk]
           \/ e \in {[d EXCEPT !.payload = x] : x \in Payloads \cup {Junk}}
  BY <1>5 DEF Datagrams
<1>6. CASE e \in Cut(d)
  <2>1. PICK k \in {HEADER - 4, HEADER, HEADER + 1 + CRC} \cap 0 .. d.size :
          e = [d EXCEPT !.size = k]
    BY <1>6 DEF Cut
  <2>2. k \in Nat  BY <2>1
  <2> QED  BY <2>1, <2>2 DEF Datagrams
<1> QED  BY <1>2, <1>3, <1>4, <1>5, <1>6 DEF Altered

-----------------------------------------------------------------------------
(* A DATA packet, by the fields that are set.                              *)
Data(w, s, n, data, t) ==
  [window |-> w, trFlag |-> 0, type |-> DATA, seqNum |-> s, length |-> n,
   timestamp |-> t, payload |-> data]

(* What each of the setters makes of it, when it does not refuse.          *)
LEMMA Setters ==
  ASSUME NEW w, NEW s, NEW n, NEW data, NEW t, NEW x
  PROVE  LET p == Data(w, s, n, data, t)
         IN  /\ pkt_set_type(pkt_new, DATA).pkt = Data(0, 0, 0, NULL, 0)
             /\ pkt_set_timestamp(p, x).pkt = Data(w, s, n, data, x)
             /\ pkt_set_seqnum(p, x).pkt = Data(w, x, n, data, t)
             /\ pkt_set_tr(p, 0).pkt = p
             /\ pkt_set_window(p, x).code = "PKT_OK" =>
                  pkt_set_window(p, x).pkt = Data(x, s, n, data, t)
             /\ pkt_set_length(p, x).code = "PKT_OK" =>
                  pkt_set_length(p, x).pkt = Data(w, s, x, data, t)
<1> DEFINE p == Data(w, s, n, data, t)
<1>1. DATA \in 0 .. 3  BY DEF DATA
<1>2. pkt_set_type(pkt_new, DATA).pkt = Data(0, 0, 0, NULL, 0)
  BY <1>1 DEF pkt_set_type, Set, pkt_new, Data
<1>3. pkt_set_timestamp(p, x).pkt = Data(w, s, n, data, x)
  BY DEF pkt_set_timestamp, Set, Data
<1>4. pkt_set_seqnum(p, x).pkt = Data(w, x, n, data, t)
  BY DEF pkt_set_seqnum, Set, Data
<1>5. pkt_set_tr(p, 0).pkt = p
  BY DEF pkt_set_tr, Set, Data
<1>6. pkt_set_window(p, x).code = "PKT_OK" =>
        pkt_set_window(p, x).pkt = Data(x, s, n, data, t)
  BY DEF pkt_set_window, Set, Data
<1>7. pkt_set_length(p, x).code = "PKT_OK" =>
        pkt_set_length(p, x).pkt = Data(w, s, x, data, t)
  BY DEF pkt_set_length, Set, Data
<1> QED  BY <1>2, <1>3, <1>4, <1>5, <1>6, <1>7

(* The packets the sender makes.                                           *)
LEMMA Created ==
  ASSUME NEW s \in SeqNums, NEW t \in Times, NEW n \in Lengths,
         NEW data \in Payloads
  PROVE  /\ Sound(last_packet(s, t)) /\ last_packet(s, t).type = DATA
         /\ LET p == create_packet(data, n, s, t)
            IN  n # 0 => p = NULL \/ (Sound(p) /\ p.type = DATA)
<1>1. /\ s \in Nat /\ t \in Nat /\ n \in 0 .. MAX_PAYLOAD_SIZE
      /\ MAX_PAYLOAD_SIZE \in Nat
  BY PacketPathAssumption
<1>2. ASSUME NEW m \in 0 .. MAX_PAYLOAD_SIZE, NEW window \in Nat,
             NEW bytes \in Payloads \cup {NULL}, m = 0 => bytes = NULL
      PROVE  Sound(Data(window, s, m, bytes, t))
             /\ Data(window, s, m, bytes, t).type = DATA
  BY <1>1, <1>2 DEF Sound, Packets, Data, DATA, NACK
<1>3. last_packet(s, t) = Data(0, s, 0, NULL, t)
  BY Setters DEF last_packet
<1> DEFINE w == pkt_set_window(pkt_set_tr(Data(0, 0, 0, NULL, t), 0).pkt, 31)
           l == pkt_set_length(pkt_set_seqnum(w.pkt, s).pkt, n)
           d == pkt_set_payload(l.pkt, data, n, TRUE)
           p == create_packet(data, n, s, t)
<1>4. p = IF "PKT_OK" # w.code \/ "PKT_OK" # l.code \/ "PKT_OK" # d.code
          THEN NULL ELSE d.pkt
  <2>1. pkt_set_timestamp(pkt_set_type(pkt_new, DATA).pkt, t).pkt =
          Data(0, 0, 0, NULL, t)
    BY Setters
  <2> QED  BY <2>1 DEF create_packet
<1>5. w.code = "PKT_OK" => w.pkt = Data(31, 0, 0, NULL, t)  BY Setters
<1> HIDE DEF w
<1>6. w.code = "PKT_OK" /\ l.code = "PKT_OK" =>
        l.pkt = Data(31, s, n, NULL, t)
  BY <1>5, Setters
<1> HIDE DEF l
<1>7. w.code = "PKT_OK" /\ l.code = "PKT_OK" /\ d.code = "PKT_OK" =>
        d.pkt = Data(31, s, n, data, t)
  <2> DEFINE set == pkt_set_payload(Data(31, s, n, NULL, t), data, n, TRUE)
  <2>1. set.code = "PKT_OK" => set.pkt = Data(31, s, n, data, t)
    BY DEF pkt_set_payload, Set, Data
  <2>2. w.code = "PKT_OK" /\ l.code = "PKT_OK" => d = set
    BY <1>6
  <2> HIDE DEF d, set
  <2> QED  BY <2>1, <2>2
<1> HIDE DEF d, p
<1>8. p = NULL \/ p = Data(31, s, n, data, t)  BY <1>4, <1>7
<1> QED  BY <1>1, <1>2, <1>3, <1>8 DEF p

LEMMA Renewed ==
  ASSUME NEW p, Sound(p), NEW t \in Nat
  PROVE  /\ Sound([p EXCEPT !.timestamp = t])
         /\ [p EXCEPT !.timestamp = t].type = p.type
BY DEF Sound, Packets

-----------------------------------------------------------------------------
LEMMA RemainsTrace ==
  ASSUME NEW d, NEW p, Remains(d, p)  PROVE Trace(d, p)
BY DEF Remains, Trace

LEMMA ImageRemains ==
  ASSUME NEW p, Sound(p)  PROVE Image(p) \in Datagrams /\ Remains(Image(p), p)
BY Encoding DEF Sound, Remains

LEMMA DamagedRemains ==
  ASSUME NEW d, NEW p, Remains(d, p),
         NEW e \in Altered(d) \cup Cut(d) \cup {CutByLink(d)}
  PROVE  Remains(e, p)
<1>1. d \in Datagrams  BY DEF Remains
<1>2. /\ e \in Datagrams
      /\ e.crc1 \in {Junk, d.crc1} /\ e.crc2 \in {Junk, d.crc2}
  BY <1>1, DamagedTrace
<1> QED  BY <1>2 DEF Remains

(* What a datagram leaves of an older one is a checksum of one of them.    *)
LEMMA OverTrace ==
  ASSUME NEW d \in Datagrams, NEW old \in Datagrams
  PROVE  /\ Over(d, old) \in Datagrams /\ Over(d, old).size = ACK_SIZE
         /\ Over(d, old).crc1 \in {d.crc1, old.crc1}
<1>1. ACK_SIZE \in Nat  BY DEF ACK_SIZE
<1>2. CASE d.size >= ACK_SIZE  BY <1>1, <1>2 DEF Over, Datagrams
<1>3. CASE ~ (d.size >= ACK_SIZE)  BY <1>1, <1>3 DEF Over, Datagrams
<1> QED  BY <1>2, <1>3

LEMMA Started == Init => PacketInv
<1> SUFFICES ASSUME Init  PROVE PacketInv
  OBVIOUS
<1>1. Encoded
  BY FS_EmptySet, PacketPathAssumption DEF Init, Encoded
<1>2. Uninitialised \in Datagrams /\ Uninitialised.size = ACK_SIZE
      /\ Uninitialised.crc1 = Junk
  BY DEF Uninitialised, Datagrams, ACK_SIZE
<1>3. Queued /\ UnderWay /\ Decoded
  BY DEF Init, Queued, UnderWay, Decoded
<1> QED  BY <1>1, <1>2, <1>3 DEF Init, Buffered, PacketInv

LEMMA Writing ==
  ASSUME PacketInv, NEW to \in {"receiver", "sender"}, NEW p, Sound(p),
         to = "receiver" => p.type = DATA, NEW space, Write(to, p, space),
         damage' = damage, buf_ack' = buf_ack
  PROVE  Encoded' /\ UnderWay' /\ Buffered'
<1>1. /\ written' = written \cup {p} /\ Cardinality(written) < MaxWrites
      /\ wire' = [to |-> to, bytes |-> pkt_encode(p, space).datagram,
                  packet |-> p]
      /\ pkt_encode(p, space).code = "PKT_OK"
  BY DEF Write
<1>2. pkt_encode(p, space).datagram = Image(p)
  BY <1>1, Encoding DEF Sound
<1>3. Encoded'
  <2>1. /\ IsFiniteSet(written) /\ Cardinality(written) \in Nat
        /\ MaxWrites \in Nat
    BY PacketPathAssumption, FS_CardinalityType DEF PacketInv, Encoded
  <2>2. /\ IsFiniteSet(written \cup {p})
        /\ Cardinality(written \cup {p}) \in
             {Cardinality(written), Cardinality(written) + 1}
    BY <2>1, FS_AddElement
  <2>3. IsFiniteSet(written') /\ Cardinality(written') <= MaxWrites
    BY <1>1, <2>1, <2>2
  <2>4. (\A q \in written : Sound(q))'
    <3>1. ASSUME NEW q \in written'  PROVE Sound(q)
      BY <1>1 DEF PacketInv, Encoded
    <3> QED  BY <3>1 DEF Sound, Packets
  <2> QED  BY <2>3, <2>4 DEF PacketInv, Encoded
<1>4. UnderWay'
  <2>1. wire' = [to |-> to, bytes |-> Image(p), packet |-> p] /\ p \in written'
    BY <1>1, <1>2
  <2>2. Image(p) \in Datagrams /\ Remains(Image(p), p)  BY ImageRemains
  <2> HIDE DEF Remains
  <2> QED  BY <2>1, <2>2 DEF UnderWay
<1>5. Buffered'  BY <1>1 DEF PacketInv, Buffered
<1> QED  BY <1>3, <1>4, <1>5

LEMMA Untouched ==
  ASSUME PacketInv, written' = written, damage' = damage
  PROVE  /\ Encoded'
         /\ wire' = wire => UnderWay'
         /\ buf_ack' = buf_ack => Buffered'
BY DEF PacketInv, Encoded, UnderWay, Buffered, Sound, Remains

LEMMA NothingRead == ASSUME got' = Empty  PROVE Decoded'
BY DEF Decoded, Empty

LEMMA Reading ==
  ASSUME NEW to, NEW bytes, NEW p \in written, NEW q \in written,
         NEW memory \in BOOLEAN, Trace(bytes, q),
         to = "receiver" => p.type = DATA,
         Decode(to, bytes, p, memory), written' = written
  PROVE  Decoded'
<1>1. got' = [to |-> to, code |-> pkt_decode(bytes, memory).code,
              pkt |-> pkt_decode(bytes, memory).pkt, bytes |-> bytes,
              packet |-> p, memory |-> memory]
  BY DEF Decode
<1>2. \E r \in written' : Trace(got'.bytes, r)  BY <1>1
<1> HIDE DEF Trace, pkt_decode
<1> QED  BY <1>1, <1>2 DEF Decoded

LEMMA PacketStep == PacketInv /\ [Next]_vars => PacketInv'
<1> SUFFICES ASSUME PacketInv, [Next]_vars  PROVE PacketInv'
  OBVIOUS
<1>1. CASE SendNew
  <2>1. PICK s \in SeqNums, t \in Times, n \in Lengths, data \in Payloads :
          /\ kept' = IF n = 0 THEN last_packet(s, t)
                     ELSE create_packet(data, n, s, t)
          /\ Write("receiver", kept', MAX_PACKET_SIZE)
    BY <1>1 DEF SendNew
  <2>2. kept' # NULL
    BY <2>1 DEF Write, pkt_encode
  <2>3. Sound(kept') /\ kept'.type = DATA
    BY <2>1, <2>2, Created
  <2>4. got' = Empty /\ reply' = reply /\ buf_ack' = buf_ack
        /\ damage' = damage
    BY <1>1 DEF SendNew
  <2>5. Encoded' /\ UnderWay' /\ Buffered'  BY <2>1, <2>3, <2>4, Writing
  <2>6. Queued'  BY <2>3, <2>4 DEF PacketInv, Queued, Sound
  <2> QED  BY <2>4, <2>5, <2>6, NothingRead DEF PacketInv
<1>2. CASE Resend
  <2>1. PICK t \in Times : kept' = [kept EXCEPT !.timestamp = t]
    BY <1>2 DEF Resend, pkt_set_timestamp, Set
  <2>2. t \in Nat /\ Sound(kept) /\ kept.type = DATA
    BY <1>2, <2>1, PacketPathAssumption DEF Resend, PacketInv, Queued
  <2>3. Sound(kept') /\ kept'.type = DATA  BY <2>1, <2>2, Renewed
  <2>4. /\ Write("receiver", kept', MAX_PACKET_SIZE)
        /\ got' = Empty /\ reply' = reply /\ buf_ack' = buf_ack
        /\ damage' = damage
    BY <1>2 DEF Resend
  <2>5. Encoded' /\ UnderWay' /\ Buffered'  BY <2>3, <2>4, Writing
  <2>6. Queued'  BY <2>3, <2>4 DEF PacketInv, Queued, Sound
  <2> QED  BY <2>4, <2>5, <2>6, NothingRead DEF PacketInv
<1>3. CASE EraseTimestamp
  <2>1. /\ kept # NULL /\ kept' = [kept EXCEPT !.timestamp = 0]
        /\ got' = Empty /\ reply' = reply /\ wire' = wire
        /\ buf_ack' = buf_ack /\ written' = written /\ damage' = damage
    BY <1>3 DEF EraseTimestamp
  <2>2. Sound(kept) /\ kept.type = DATA  BY <2>1 DEF PacketInv, Queued
  <2>3. Sound(kept') /\ kept'.type = DATA  BY <2>1, <2>2, Renewed
  <2>4. Queued'  BY <2>1, <2>3 DEF PacketInv, Queued, Sound
  <2> QED  BY <2>1, <2>4, Untouched, NothingRead DEF PacketInv
<1>4. CASE QueueReply
  <2>1. /\ got' = Empty /\ kept' = kept /\ wire' = wire
        /\ buf_ack' = buf_ack /\ written' = written /\ damage' = damage
    BY <1>4 DEF QueueReply
  <2>2. reply' \in Replies
    <3> DEFINE new == [pkt_new EXCEPT !.window = 31]
    <3>1. CASE got.code = "PKT_OK" /\ got.pkt.trFlag = 1
      <4>1. PICK q \in written : Trace(got.bytes, q)
        BY <1>4 DEF QueueReply, PacketInv, Decoded
      <4>2. /\ pkt_decode(got.bytes, got.memory).code = "PKT_OK"
            /\ pkt_decode(got.bytes, got.memory).pkt = got.pkt
            /\ got.memory \in BOOLEAN /\ got.bytes \in Datagrams
        BY <1>4, <3>1, <4>1 DEF QueueReply, PacketInv, Decoded, Trace
      <4>3. got.pkt \in Packets
        <5>1. Sound(q)  BY <4>1 DEF PacketInv, Encoded
        <5> QED  BY <4>1, <4>2, <5>1, TraceDecoded
      <4>4. reply' = [new EXCEPT !.type = NACK, !.seqNum = got.pkt.seqNum,
                                 !.timestamp = got.pkt.timestamp]
        BY <1>4, <3>1 DEF QueueReply
      <4> QED  BY <4>3, <4>4 DEF Replies, Packets, pkt_new, NACK
    <3>2. CASE ~ (got.code = "PKT_OK" /\ got.pkt.trFlag = 1)
      <4>1. PICK s \in SeqNums, t \in Times, last \in {0, 1} :
              reply' = [new EXCEPT !.type = ACK, !.seqNum = s,
                                   !.timestamp = t, !.trFlag = last]
        BY <1>4, <3>2 DEF QueueReply
      <4>2. s \in Nat /\ t \in Nat  BY PacketPathAssumption
      <4> QED  BY <4>1, <4>2 DEF Replies, Packets, pkt_new, ACK
    <3> QED  BY <3>1, <3>2
  <2>3. Queued'  BY <2>1, <2>2 DEF PacketInv, Queued, Sound, Replies
  <2> QED  BY <2>1, <2>3, Untouched, NothingRead DEF PacketInv
<1>5. CASE WriteReply
  <2>1. /\ reply # NULL /\ Write("sender", Unmarked(reply), ACK_SIZE)
        /\ reply' = NULL /\ got' = Empty /\ kept' = kept
        /\ buf_ack' = buf_ack /\ damage' = damage
    BY <1>5 DEF WriteReply
  <2>2. Sound(Unmarked(reply))
    <3>1. reply \in Replies  BY <2>1 DEF PacketInv, Queued
    <3>2. MAX_PAYLOAD_SIZE \in Nat  BY PacketPathAssumption
    <3> QED
      BY <3>1, <3>2 DEF Replies, Sound, Unmarked, Packets, DATA, ACK, NACK
  <2>3. Encoded' /\ UnderWay' /\ Buffered'  BY <2>1, <2>2, Writing
  <2>4. Queued'  BY <2>1 DEF PacketInv, Queued, Sound
  <2> QED  BY <2>1, <2>3, <2>4, NothingRead DEF PacketInv
<1>6. CASE Damage
  <2>1. /\ wire # Empty /\ damage < MaxDamage /\ damage' = damage + 1
        /\ kept' = kept /\ reply' = reply /\ buf_ack' = buf_ack
        /\ got' = got /\ written' = written
    BY <1>6 DEF Damage
  <2>2. PICK d \in Altered(wire.bytes) \cup Cut(wire.bytes) :
          wire' = [wire EXCEPT !.bytes = d]
    BY <1>6 DEF Damage
  <2>3. /\ wire \in [to : {"receiver", "sender"}, bytes : Datagrams,
                     packet : written]
        /\ Remains(wire.bytes, wire.packet)
        /\ wire.to = "receiver" => wire.packet.type = DATA
    BY <2>1 DEF PacketInv, UnderWay
  <2>4. Remains(d, wire.packet) /\ d \in Datagrams
    BY <2>2, <2>3, DamagedRemains DEF Remains
  <2>5. UnderWay'
    <3>1. wire' = [to |-> wire.to, bytes |-> d, packet |-> wire.packet]
      BY <2>2, <2>3
    <3> HIDE DEF Remains
    <3> QED  BY <2>1, <2>3, <2>4, <3>1 DEF UnderWay
  <2>6. Encoded'
    BY <2>1, PacketPathAssumption DEF PacketInv, Encoded, Sound
  <2>7. Queued' /\ Buffered' /\ Decoded'
    BY <2>1 DEF PacketInv, Queued, Buffered, Decoded, Sound, Replies, Trace
  <2> QED  BY <2>5, <2>6, <2>7 DEF PacketInv
<1>7. CASE Lose
  <2>1. /\ wire' = Empty /\ kept' = kept /\ reply' = reply
        /\ buf_ack' = buf_ack /\ got' = got /\ written' = written
        /\ damage' = damage
    BY <1>7 DEF Lose
  <2>2. UnderWay'  BY <2>1 DEF UnderWay, Empty
  <2>3. Queued' /\ Decoded'
    BY <2>1 DEF PacketInv, Queued, Decoded, Sound, Replies, Trace
  <2> QED  BY <2>1, <2>2, <2>3, Untouched DEF PacketInv
<1>8. CASE ReceiverReads
  <2>1. PICK memory \in BOOLEAN, cut \in BOOLEAN :
          Decode("receiver",
                 IF cut THEN CutByLink(wire.bytes) ELSE wire.bytes,
                 wire.packet, memory)
    BY <1>8 DEF ReceiverReads
  <2>2. /\ wire # Empty /\ wire.to = "receiver" /\ wire' = Empty
        /\ kept' = kept /\ reply' = reply /\ buf_ack' = buf_ack
        /\ written' = written /\ damage' = damage
    BY <1>8 DEF ReceiverReads
  <2> DEFINE bytes == IF cut THEN CutByLink(wire.bytes) ELSE wire.bytes
  <2>3. /\ wire.packet \in written /\ Remains(wire.bytes, wire.packet)
        /\ wire.packet.type = DATA
    BY <2>2 DEF PacketInv, UnderWay
  <2>4. Trace(bytes, wire.packet)
    <3>1. Remains(CutByLink(wire.bytes), wire.packet)
      BY <2>3, DamagedRemains
    <3> QED  BY <2>3, <3>1, RemainsTrace
  <2> HIDE DEF bytes
  <2>5. Decode("receiver", bytes, wire.packet, memory)  BY <2>1 DEF bytes
  <2>6. Decoded'  BY <2>2, <2>3, <2>4, <2>5, Reading
  <2>7. UnderWay'  BY <2>2 DEF UnderWay, Empty
  <2>8. Queued'  BY <2>2 DEF PacketInv, Queued, Sound, Replies
  <2> QED  BY <2>2, <2>6, <2>7, <2>8, Untouched DEF PacketInv
<1>9. CASE SenderReads
  <2>1. /\ wire # Empty
        /\ Decode("sender", buf_ack', wire.packet, TRUE)
        /\ kept' = kept /\ reply' = reply /\ written' = written
        /\ damage' = damage
        /\ \/ buf_ack' = Over(wire.bytes, buf_ack) /\ wire' = Empty
           \/ buf_ack' = buf_ack /\ wire' = wire
    BY <1>9 DEF SenderReads
  <2>2. /\ wire.packet \in written /\ wire.bytes \in Datagrams
        /\ Remains(wire.bytes, wire.packet)
    BY <2>1 DEF PacketInv, UnderWay, Remains
  <2>3. Buffered'
    <3>1. CASE buf_ack' = Over(wire.bytes, buf_ack)
      <4>1. /\ buf_ack' \in Datagrams /\ buf_ack'.size = ACK_SIZE
            /\ buf_ack'.crc1 \in {wire.bytes.crc1, buf_ack.crc1}
        BY <2>2, <3>1, OverTrace DEF PacketInv, Buffered
      <4>2. buf_ack'.crc1 # Junk =>
              \E p \in written : buf_ack'.crc1 = Image(p).crc1
        BY <2>2, <4>1 DEF PacketInv, Buffered, Remains
      <4> QED  BY <2>1, <4>1, <4>2 DEF Buffered
    <3>2. CASE buf_ack' = buf_ack
      BY <2>1, <3>2, Untouched
    <3> QED  BY <2>1, <3>1, <3>2
  <2>4. \E q \in written : Trace(buf_ack', q)
    <3>1. buf_ack'.size = HEADER
      BY <2>3 DEF Buffered, ACK_SIZE, HEADER
    <3>2. /\ buf_ack' \in Datagrams
          /\ \E q \in written : buf_ack'.crc1 \in {Junk, Image(q).crc1}
      BY <2>1, <2>2, <2>3 DEF Buffered
    <3> QED  BY <3>1, <3>2 DEF Trace
  <2>5. PICK q \in written : Trace(buf_ack', q)  BY <2>4
  <2>6. Decoded'
    <3> DEFINE bytes == buf_ack'
    <3>1. Decode("sender", bytes, wire.packet, TRUE) /\ Trace(bytes, q)
      BY <2>1, <2>5
    <3> HIDE DEF bytes
    <3> QED  BY <2>1, <2>2, <3>1, Reading
  <2>7. UnderWay'
    <3>1. CASE wire' = Empty  BY <3>1 DEF UnderWay, Empty
    <3>2. CASE wire' = wire  BY <2>1, <3>2, Untouched
    <3> QED  BY <2>1, <3>1, <3>2
  <2>8. Queued'  BY <2>1 DEF PacketInv, Queued, Sound, Replies
  <2> QED  BY <2>1, <2>3, <2>6, <2>7, <2>8, Untouched DEF PacketInv
<1>10. CASE Restart
  <2>1. Init'  BY <1>10 DEF Restart, Init
  <2> QED  BY <2>1, Started, PTL
<1>11. CASE UNCHANGED vars
  <2>1. /\ kept' = kept /\ reply' = reply /\ wire' = wire
        /\ buf_ack' = buf_ack /\ got' = got /\ written' = written
        /\ damage' = damage
    BY <1>11 DEF vars
  <2>2. Queued' /\ Decoded'
    BY <2>1 DEF PacketInv, Queued, Decoded, Sound, Replies, Trace
  <2> QED  BY <2>1, <2>2, Untouched DEF PacketInv
<1> QED
  BY <1>1, <1>2, <1>3, <1>4, <1>5, <1>6, <1>7, <1>8, <1>9, <1>10, <1>11
  DEF Next

(* Whatever is sent again, damaged, cut, read in part or read twice, for    *)
(* every length, number and time: what is written can be decoded, and of   *)
(* the bytes under way and in the sender's buffer the checksums belong to   *)
(* one packet that was written, or to none (packet_implem.c:115-160,       *)
(* sender.c:267-271).                                                      *)
THEOREM PacketInvariant == Spec => []PacketInv
<1>1. Init => PacketInv  BY Started
<1>2. PacketInv /\ [Next]_vars => PacketInv'  BY PacketStep
<1> QED  BY <1>1, <1>2, PTL DEF Spec

-----------------------------------------------------------------------------
(* What got holds, in the words of the two functions.                      *)
LEMMA GotDecoded ==
  ASSUME PacketInv, got # Empty
  PROVE  /\ got.packet \in written /\ Sound(got.packet)
         /\ got.memory \in BOOLEAN
         /\ got.to = "receiver" => got.packet.type = DATA
         /\ \E p \in written :
              /\ Sound(p) /\ Trace(got.bytes, p) /\ got.bytes \in Datagrams
         /\ got.code = pkt_decode(got.bytes, got.memory).code
         /\ got.pkt = pkt_decode(got.bytes, got.memory).pkt
<1>1. /\ got.packet \in written /\ got.memory \in BOOLEAN
      /\ got.to = "receiver" => got.packet.type = DATA
      /\ got.code = pkt_decode(got.bytes, got.memory).code
      /\ got.pkt = pkt_decode(got.bytes, got.memory).pkt
  BY DEF PacketInv, Decoded
<1>2. PICK p \in written : Trace(got.bytes, p)
  BY DEF PacketInv, Decoded
<1>3. \A q \in written : Sound(q)  BY DEF PacketInv, Encoded
<1>4. got.bytes \in Datagrams  BY <1>2 DEF Trace
<1> HIDE DEF Sound, Trace
<1> QED  BY <1>1, <1>2, <1>3, <1>4

(* pkt_encode then pkt_decode give back every packet the two programs      *)
(* write: DATA of any length, also sent again with another time, and the   *)
(* replies, the last one included, for every number of bytes and whatever  *)
(* was damaged before.                                                     *)
THEOREM DecodesEncoded == Spec => []RoundTrip
<1>1. PacketInv => RoundTrip
  <2> SUFFICES ASSUME PacketInv, got # Empty, got.memory = TRUE,
                      got.bytes = BytesOf(got.packet)
               PROVE  Accepted /\ got.pkt = got.packet
    <3>1. PacketInv /\ got # Empty => got.memory \in BOOLEAN
      BY GotDecoded
    <3> QED  BY <3>1 DEF RoundTrip
  <2>1. Sound(got.packet)  BY GotDecoded
  <2>2. got.bytes = Image(got.packet)  BY <2>1, Encoding DEF Sound
  <2>3. /\ pkt_decode(got.bytes, TRUE).code = "PKT_OK"
        /\ pkt_decode(got.bytes, TRUE).pkt = got.packet
    BY <2>1, <2>2, ImageDecoded
  <2>4. /\ got.code = pkt_decode(got.bytes, TRUE).code
        /\ got.pkt = pkt_decode(got.bytes, TRUE).pkt
    BY DEF PacketInv, Decoded
  <2> QED  BY <2>3, <2>4 DEF Accepted
<1> QED  BY <1>1, PacketInvariant, PTL

(* Whatever the link and the reused buffer of the sender make of the bytes *)
(* -- any number of damaged fields, a cut at any place, the end of an      *)
(* older reply -- what pkt_decode accepts is one packet that was written,  *)
(* TR aside, with its own payload, or its header if there are twelve bytes.*)
THEOREM OnlyWritten == Spec => []NothingForged
<1>1. PacketInv => NothingForged
  <2> SUFFICES ASSUME PacketInv, got # Empty, got.code = "PKT_OK"
               PROVE  \E p \in written : Given(got.pkt, p, got.bytes.size)
    BY DEF NothingForged, Accepted, Given
  <2>1. PICK p \in written : Sound(p) /\ Trace(got.bytes, p)
    BY GotDecoded
  <2>2. /\ got.memory \in BOOLEAN
        /\ got.code = pkt_decode(got.bytes, got.memory).code
        /\ got.pkt = pkt_decode(got.bytes, got.memory).pkt
    BY GotDecoded
  <2> QED  BY <2>1, <2>2, TraceDecoded
<1> QED  BY <1>1, PacketInvariant, PTL

(* A DATA packet the link has cut is decoded as a truncated packet with    *)
(* its own number, whatever its payload was.                               *)
THEOREM CutIsSeen == Spec => []TruncationIsSeen
<1>1. PacketInv => TruncationIsSeen
  <2> SUFFICES ASSUME PacketInv, got # Empty, got.to = "receiver",
                      got.bytes = CutByLink(BytesOf(got.packet))
               PROVE  /\ Accepted /\ got.pkt.trFlag = 1
                      /\ got.pkt.seqNum = got.packet.seqNum
    BY DEF TruncationIsSeen
  <2> DEFINE p == got.packet
             d == CutByLink(Image(p))
  <2>1. Sound(p) /\ p.type = DATA /\ got.memory \in BOOLEAN
    BY GotDecoded
  <2>2. BytesOf(p) = Image(p) /\ Image(p) \in Datagrams
    BY <2>1, Encoding DEF Sound
  <2>3. /\ d \in Datagrams /\ d.size = HEADER /\ d.trFlag = 1
        /\ d.type = DATA /\ d.seqNum = p.seqNum /\ d.length = Swap(p.length)
        /\ d.crc1 = HeaderCrc(d)
    <3>1. d \in Datagrams  BY <2>2, DamagedTrace
    <3> QED  BY <2>1, <3>1 DEF CutByLink, Image, HeaderCrc
  <2>4. p.length \in Nat /\ p.length < 65536 /\ p.length <= MAX_PAYLOAD_SIZE
    <3>1. p.length \in Nat /\ p.length <= MAX_PAYLOAD_SIZE
      BY <2>1 DEF Sound, Packets
    <3>2. MAX_PAYLOAD_SIZE \in Nat /\ 12 + MAX_PAYLOAD_SIZE + 4 <= 528
      BY PacketPathAssumption DEF HEADER, CRC, MAX_PACKET_SIZE
    <3> QED  BY <3>1, <3>2
  <2>5. Swap(d.length) <= MAX_PAYLOAD_SIZE
    BY <2>3, <2>4, SwapTwice
  <2>6. got.code = pkt_decode(got.bytes, got.memory).code
        /\ got.pkt = pkt_decode(got.bytes, got.memory).pkt
    BY DEF PacketInv, Decoded
  <2> HIDE DEF p
  <2>7. got.bytes = d  BY <2>2 DEF p
  <2> HIDE DEF d
  <2>8. Fits(d, got.memory)
    BY <2>3, <2>5 DEF Fits, HEADER, DATA, NACK
  <2>9. Accepted /\ got.pkt.trFlag = 1 /\ got.pkt.seqNum = p.seqNum
    BY <2>1, <2>3, <2>6, <2>7, <2>8, Decoding DEF Accepted
  <2> QED  BY <2>9 DEF p
<1> QED  BY <1>1, PacketInvariant, PTL
=============================================================================
