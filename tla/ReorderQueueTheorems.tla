------------------------ MODULE ReorderQueueTheorems ------------------------
(***************************************************************************)
(* The receiver's queue alone implements a set of numbers, for every       *)
(* modulus and every window of at most half of it.  (With a longer one,    *)
(* queue_ordered_push takes numbers of the window for wrapped ones.)       *)
(***************************************************************************)
EXTENDS ReorderQueue, QueueTheorems, TLAPS

HalfWindow == 2 * MAX_BUFFER_SIZE <= SeqSpace

Pkt == [seqNum : Uint8]

(* The inductive invariant: the numbers of the queue lie behind the one    *)
(* waited for, within the window, and in order.                            *)
RQInv ==
  /\ waited \in Uint8 /\ q \in Seq(Pkt)
  /\ \A i \in 1 .. Len(q) : Distance(q[i].seqNum) \in 1 .. MAX_BUFFER_SIZE - 1
  /\ QueueSorted

(* What bounds the arithmetic. *)
LEMMA RQNumbers ==
  ASSUME HalfWindow
  PROVE  /\ SeqSpace \in Nat \ {0} /\ MAX_BUFFER_SIZE \in Nat \ {0}
         /\ MAX_BUFFER_SIZE < SeqSpace /\ 2 * MAX_BUFFER_SIZE <= SeqSpace
  BY SeqSpaceAssumption, ReorderQueueAssumption DEF HalfWindow

-----------------------------------------------------------------------------
(* A shadow of a queue: a queue with the same sequence numbers, whose      *)
(* packets may carry more.                                                 *)
Shadow(p, r) ==
  Len(p) = Len(r) /\ \A i \in 1 .. Len(r) : p[i].seqNum = r[i].seqNum

(* The position at which a packet is inserted is the same in both.         *)
LEMMA ShadowIndex ==
  ASSUME NEW T, NEW U, NEW p \in Seq(T), NEW r \in Seq(U), Shadow(p, r),
         NEW s, NEW first, NEW size
  PROVE  InsertIndex(p, s, first, size) = InsertIndex(r, s, first, size)
<1> DEFINE High(x)   == x >= SeqSpace - size
           wraps     == first >= SeqSpace - size
           lowP      == {i \in 1 .. Len(p) : ~ High(p[i].seqNum)}
           lowR      == {i \in 1 .. Len(r) : ~ High(r[i].seqNum)}
           start     == IF wraps /\ s < size - 1 THEN FirstOf(r, lowR) ELSE 1
           BeforeP(i) == p[i].seqNum < s /\ (wraps /\ High(s) => High(p[i].seqNum))
           BeforeR(i) == r[i].seqNum < s /\ (wraps /\ High(s) => High(r[i].seqNum))
           notP      == {i \in start .. Len(p) : ~ BeforeP(i)}
           notR      == {i \in start .. Len(r) : ~ BeforeR(i)}
<1>1. Len(p) = Len(r) /\ Len(r) \in Nat  BY LenProperties DEF Shadow
<1>2. \A i \in 1 .. Len(r) : p[i].seqNum = r[i].seqNum  BY DEF Shadow
<1>3. lowP = lowR  BY <1>1, <1>2
<1>4. FirstOf(p, lowP) = FirstOf(r, lowR)  BY <1>1, <1>3 DEF FirstOf
<1>5. start \in 1 .. Len(r) + 1
  <2>1. lowR \in SUBSET (1 .. Len(r))  OBVIOUS
  <2> HIDE DEF lowR
  <2>2. FirstOf(r, lowR) \in 1 .. Len(r) + 1  BY <2>1, FirstOfPosition
  <2> QED  BY <1>1, <2>2
<1> HIDE DEF start
<1>6. notP = notR
  <2>1. \A i \in start .. Len(r) : i \in 1 .. Len(r)  BY <1>1, <1>5
  <2> QED  BY <1>1, <1>2, <2>1
<1>7. FirstOf(p, notP) = FirstOf(r, notR)  BY <1>1, <1>6 DEF FirstOf
<1>8. InsertIndex(p, s, first, size) = FirstOf(p, notP)
  BY <1>4 DEF InsertIndex, start
<1>9. InsertIndex(r, s, first, size) = FirstOf(r, notR)
  BY DEF InsertIndex, start
<1> QED  BY <1>7, <1>8, <1>9

(* So does the number of packets that are written. *)
LEMMA ShadowRun ==
  ASSUME NEW T, NEW U, NEW p \in Seq(T), NEW r \in Seq(U), Shadow(p, r),
         NEW first
  PROVE  RunLength(p, first) = RunLength(r, first)
<1>1. Len(p) = Len(r)  BY DEF Shadow
<1>2. {i \in 1 .. Len(p) : p[i].seqNum # Plus(first, i - 1)}
        = {i \in 1 .. Len(r) : r[i].seqNum # Plus(first, i - 1)}
  BY DEF Shadow
<1> QED  BY <1>1, <1>2 DEF RunLength, FirstOf

-----------------------------------------------------------------------------
(* A packet that is pushed is inserted at one position.                    *)
LEMMA PushPlace ==
  ASSUME NEW T, NEW r \in Seq(T), NEW pkt \in T, NEW first, NEW size,
         queue_ordered_push(r, pkt, first, size).pushed
  PROVE  LET k   == InsertIndex(r, pkt.seqNum, first, size)
             new == queue_ordered_push(r, pkt, first, size).queue
         IN  /\ k \in 1 .. Len(r) + 1
             /\ new \in Seq(T) /\ Len(new) = Len(r) + 1
             /\ \A i \in 1 .. Len(r) + 1 :
                  new[i] = IF i < k THEN r[i]
                           ELSE IF i = k THEN pkt ELSE r[i - 1]
<1> DEFINE k   == InsertIndex(r, pkt.seqNum, first, size)
           new == queue_ordered_push(r, pkt, first, size).queue
<1>1. k \in 1 .. Len(r) + 1  BY InsertIndexPosition
<1>2. new = InsertAt(r, k, pkt)  BY DEF queue_ordered_push
<1> HIDE DEF k
<1>3. /\ InsertAt(r, k, pkt) \in Seq(T)
      /\ Len(InsertAt(r, k, pkt)) = Len(r) + 1
      /\ \A i \in 1 .. Len(r) + 1 :
           InsertAt(r, k, pkt)[i] = IF i < k THEN r[i]
                                    ELSE IF i = k THEN pkt ELSE r[i - 1]
  BY <1>1, Insertion
<1> HIDE DEF new
<1> QED  BY <1>1, <1>2, <1>3 DEF k, new

Numbers(r) == {r[i].seqNum : i \in 1 .. Len(r)}

(* Nothing is forgotten by it. *)
LEMMA PushContents ==
  ASSUME NEW T, NEW r \in Seq(T), NEW pkt \in T, NEW first, NEW size,
         queue_ordered_push(r, pkt, first, size).pushed
  PROVE  Numbers(queue_ordered_push(r, pkt, first, size).queue)
           = Numbers(r) \cup {pkt.seqNum}
<1> DEFINE k   == InsertIndex(r, pkt.seqNum, first, size)
           new == queue_ordered_push(r, pkt, first, size).queue
<1>1. /\ k \in 1 .. Len(r) + 1 /\ Len(new) = Len(r) + 1
      /\ \A i \in 1 .. Len(r) + 1 :
           new[i] = IF i < k THEN r[i] ELSE IF i = k THEN pkt ELSE r[i - 1]
  BY PushPlace
<1>2. Len(r) \in Nat  BY LenProperties
<1> HIDE DEF k, new
<1>3. new[k] = pkt /\ k \in 1 .. Len(new)  BY <1>1
<1>4. ASSUME NEW i \in 1 .. Len(r)
      PROVE  \E j \in 1 .. Len(new) : new[j] = r[i]
  <2>1. CASE i < k
    <3>1. i \in 1 .. Len(new) /\ new[i] = r[i]  BY <1>1, <1>2, <2>1
    <3> QED  BY <3>1
  <2>2. CASE ~ (i < k)
    <3>1. i + 1 \in 1 .. Len(new) /\ new[i + 1] = r[(i + 1) - 1]
      BY <1>1, <1>2, <2>2
    <3>2. (i + 1) - 1 = i  OBVIOUS
    <3> QED  BY <3>1, <3>2
  <2> QED  BY <2>1, <2>2
<1>5. ASSUME NEW i \in 1 .. Len(new)
      PROVE  new[i] = pkt \/ \E j \in 1 .. Len(r) : new[i] = r[j]
  <2>1. CASE i < k
    <3>1. i \in 1 .. Len(r) /\ new[i] = r[i]  BY <1>1, <1>2, <2>1
    <3> QED  BY <3>1
  <2>2. CASE i = k  BY <1>3, <2>2
  <2>3. CASE k < i
    <3>1. i - 1 \in 1 .. Len(r) /\ new[i] = r[i - 1]  BY <1>1, <1>2, <2>3
    <3> QED  BY <3>1
  <2> QED  BY <1>1, <1>2, <2>1, <2>2, <2>3
<1>6. {new[i].seqNum : i \in 1 .. Len(new)}
        = {r[i].seqNum : i \in 1 .. Len(r)} \cup {pkt.seqNum}
  <2>1. ASSUME NEW i \in 1 .. Len(new)
        PROVE  new[i].seqNum
                 \in {r[j].seqNum : j \in 1 .. Len(r)} \cup {pkt.seqNum}
    BY <1>5
  <2>2. ASSUME NEW i \in 1 .. Len(r)
        PROVE  r[i].seqNum \in {new[j].seqNum : j \in 1 .. Len(new)}
    BY <1>4
  <2>3. pkt.seqNum \in {new[j].seqNum : j \in 1 .. Len(new)}  BY <1>3
  <2> QED  BY <2>1, <2>2, <2>3
<1> QED  BY <1>6 DEF new, Numbers

(* What is written and what stays are the two parts of the queue.          *)
LEMMA WriteParts ==
  ASSUME NEW T, NEW r \in Seq(T), NEW first
  PROVE  LET out == queue_payload_write(r, first)
             c   == RunLength(r, first)
         IN  /\ c \in 0 .. Len(r)
             /\ out.written \in Seq(T) /\ Len(out.written) = c
             /\ \A i \in 1 .. c : out.written[i] = r[i]
             /\ out.queue \in Seq(T) /\ Len(out.queue) = Len(r) - c
             /\ \A i \in 1 .. Len(r) - c : out.queue[i] = r[c + i]
<1> DEFINE c == RunLength(r, first)
<1>1. Len(r) \in Nat  BY LenProperties
<1>2. c \in 0 .. Len(r)  BY RunLengthBound
<1> HIDE DEF c
<1>3. /\ SubSeq(r, 1, c) \in Seq(T)
      /\ Len(SubSeq(r, 1, c)) = IF 1 <= c THEN c - 1 + 1 ELSE 0
      /\ \A i \in 1 .. c - 1 + 1 : SubSeq(r, 1, c)[i] = r[1 + i - 1]
  BY <1>2, Piece
<1>4. c + 1 \in Nat \ {0} /\ Len(r) \in 0 .. Len(r)  BY <1>1, <1>2
<1>5. /\ SubSeq(r, c + 1, Len(r)) \in Seq(T)
      /\ Len(SubSeq(r, c + 1, Len(r)))
           = IF c + 1 <= Len(r) THEN Len(r) - (c + 1) + 1 ELSE 0
      /\ \A i \in 1 .. Len(r) - (c + 1) + 1 :
           SubSeq(r, c + 1, Len(r))[i] = r[(c + 1) + i - 1]
  BY <1>4, Piece
<1>6. /\ Len(SubSeq(r, 1, c)) = c
      /\ \A i \in 1 .. c : SubSeq(r, 1, c)[i] = r[i]
  BY <1>1, <1>2, <1>3
<1>7. /\ Len(SubSeq(r, c + 1, Len(r))) = Len(r) - c
      /\ \A i \in 1 .. Len(r) - c : SubSeq(r, c + 1, Len(r))[i] = r[c + i]
  BY <1>1, <1>2, <1>5
<1> DEFINE out == queue_payload_write(r, first)
<1>8. out.written = SubSeq(r, 1, c) /\ out.queue = SubSeq(r, c + 1, Len(r))
  BY DEF queue_payload_write, c
<1> HIDE DEF out
<1>9. /\ c \in 0 .. Len(r)
      /\ out.written \in Seq(T) /\ Len(out.written) = c
      /\ \A i \in 1 .. c : out.written[i] = r[i]
      /\ out.queue \in Seq(T) /\ Len(out.queue) = Len(r) - c
      /\ \A i \in 1 .. Len(r) - c : out.queue[i] = r[c + i]
  BY <1>2, <1>3, <1>5, <1>6, <1>7, <1>8
<1> QED  BY <1>9 DEF out, c

-----------------------------------------------------------------------------
(* The absolute number of s, counted from the number waited for.           *)
Count(s) == waited + Distance(s)

LEMMA CountOf ==
  ASSUME waited \in Uint8, NEW s \in Uint8
  PROVE  Distance(s) \in Uint8 /\ ToUint8(Count(s)) = s
<1>1. waited \in Int /\ s \in Int /\ s - waited \in Int
  BY SeqSpaceAssumption DEF Uint8
<1>2. Distance(s) = ToUint8(s - waited)  BY DEF Distance, Minus
<1>3. Plus(ToUint8(s - waited), waited) = ToUint8(s - waited + waited)
  BY <1>1, PlusRemainder
<1>4. Distance(s) \in Uint8  BY <1>1, <1>2, Division
<1>5. Distance(s) \in Int  BY <1>4, SeqSpaceAssumption DEF Uint8
<1>6. ToUint8(Count(s)) = ToUint8(s)
  <2>1. Distance(s) + waited = Count(s) /\ s - waited + waited = s
    BY <1>1, <1>5 DEF Count
  <2> QED  BY <1>2, <1>3, <2>1 DEF Plus
<1> QED  BY <1>4, <1>6, SmallNumber

(* The queue with the absolute numbers of its packets, in order.           *)
Counted == [i \in 1 .. Len(q) |-> [seqNum |-> q[i].seqNum, n |-> Count(q[i].seqNum)]]
CountedPkt == [seqNum : Uint8, n : Int]

LEMMA CountedQueue ==
  ASSUME HalfWindow, RQInv
  PROVE  /\ Counted \in Seq(CountedPkt) /\ Shadow(Counted, q)
         /\ Ahead(Counted, waited, MAX_BUFFER_SIZE)
<1>1. Len(q) \in Nat  BY LenProperties DEF RQInv
<1>2. waited \in Int  BY SeqSpaceAssumption DEF RQInv, Uint8
<1>3. \A i \in 1 .. Len(q) :
        /\ q[i].seqNum \in Uint8 /\ ToUint8(Count(q[i].seqNum)) = q[i].seqNum
        /\ Distance(q[i].seqNum) \in 1 .. MAX_BUFFER_SIZE - 1
  <2> SUFFICES ASSUME NEW i \in 1 .. Len(q)
               PROVE  /\ q[i].seqNum \in Uint8
                      /\ ToUint8(Count(q[i].seqNum)) = q[i].seqNum
    BY DEF RQInv
  <2>1. q[i] \in Pkt  BY ElementOfSeq DEF RQInv
  <2>2. q[i].seqNum \in Uint8  BY <2>1 DEF Pkt
  <2> QED  BY <2>2, CountOf DEF RQInv
<1>4. \A i \in 1 .. Len(q) :
        Count(q[i].seqNum) \in Int /\ waited <= Count(q[i].seqNum)
        /\ Count(q[i].seqNum) < waited + MAX_BUFFER_SIZE
  BY <1>2, <1>3, RQNumbers DEF Count
<1>5. Counted \in Seq(CountedPkt) /\ Len(Counted) = Len(q)
  <2>1. \A i \in 1 .. Len(q) : Counted[i] \in CountedPkt
    BY <1>3, <1>4 DEF Counted, CountedPkt
  <2>2. Counted \in [1 .. Len(q) -> CountedPkt]  BY <2>1 DEF Counted
  <2> QED  BY <1>1, <2>2, SeqDef, LenProperties
<1>6. \A i \in 1 .. Len(q) : /\ Counted[i].seqNum = q[i].seqNum
                             /\ Counted[i].n = Count(q[i].seqNum)
  BY DEF Counted
<1>7. \A i \in 1 .. Len(q) : InWindowOf(Counted[i], waited, MAX_BUFFER_SIZE)
  BY <1>3, <1>4, <1>6 DEF InWindowOf
<1>8. Ordered(Counted)
  <2> SUFFICES ASSUME NEW i \in 1 .. Len(q), NEW j \in 1 .. Len(q), i < j
               PROVE  Counted[i].n < Counted[j].n
    BY <1>5 DEF Ordered
  <2>1. Distance(q[i].seqNum) < Distance(q[j].seqNum)
    BY DEF RQInv, QueueSorted
  <2>2. Distance(q[i].seqNum) \in Int /\ Distance(q[j].seqNum) \in Int
    BY <1>3, RQNumbers
  <2> QED  BY <1>2, <1>6, <2>1, <2>2 DEF Count
<1> QED  BY <1>5, <1>6, <1>7, <1>8 DEF Ahead, Shadow

(* A packet that is pushed is pushed to the counted queue, too.            *)
LEMMA PushCounted ==
  ASSUME HalfWindow, RQInv, NEW s \in Uint8,
         InWindow(s, waited, MAX_BUFFER_SIZE),
         queue_ordered_push(q, [seqNum |-> s], waited, MAX_BUFFER_SIZE).pushed
  PROVE  \E p \in Seq(CountedPkt) :
           /\ Ahead(p, waited, MAX_BUFFER_SIZE)
           /\ Shadow(p, queue_ordered_push(q, [seqNum |-> s], waited,
                                           MAX_BUFFER_SIZE).queue)
<1> DEFINE k    == InsertIndex(q, s, waited, MAX_BUFFER_SIZE)
           pkt  == [seqNum |-> s]
           cpkt == [seqNum |-> s, n |-> Count(s)]
           new  == queue_ordered_push(q, pkt, waited, MAX_BUFFER_SIZE).queue
           p    == queue_ordered_push(Counted, cpkt, waited, MAX_BUFFER_SIZE)
<1>1. Counted \in Seq(CountedPkt) /\ Shadow(Counted, q)
      /\ Ahead(Counted, waited, MAX_BUFFER_SIZE) /\ q \in Seq(Pkt)
      /\ waited \in Uint8 /\ ToUint8(waited) = waited /\ waited \in Int
  BY CountedQueue, SmallNumber, SeqSpaceAssumption DEF RQInv, Uint8
<1>2. InsertIndex(Counted, s, waited, MAX_BUFFER_SIZE) = k
  BY <1>1, ShadowIndex
<1>3. pkt \in Pkt /\ pkt.seqNum = s /\ cpkt.seqNum = s /\ cpkt.n = Count(s)
  BY DEF Pkt
<1>4. /\ Distance(s) \in Int /\ 0 <= Distance(s)
      /\ Distance(s) < MAX_BUFFER_SIZE /\ ToUint8(Count(s)) = s
  BY <1>1, CountOf, SeqSpaceAssumption DEF InWindow, Distance, Uint8
<1>5. cpkt \in CountedPkt /\ InWindowOf(cpkt, waited, MAX_BUFFER_SIZE)
  <2>1. /\ Count(s) \in Int /\ waited <= Count(s)
        /\ Count(s) < waited + MAX_BUFFER_SIZE
    BY <1>1, <1>4, RQNumbers DEF Count
  <2> QED  BY <1>4, <2>1 DEF CountedPkt, InWindowOf
<1>6. ~ (k <= Len(q) /\ q[k].seqNum = s)
  BY DEF queue_ordered_push
<1> HIDE DEF k
<1>7. p.pushed
  <2>1. Len(Counted) = Len(q) /\ \A i \in 1 .. Len(q) :
          Counted[i].seqNum = q[i].seqNum
    BY <1>1 DEF Shadow
  <2>2. k \in 1 .. Len(q) + 1  BY <1>1, InsertIndexPosition DEF k
  <2>3. Len(q) \in Nat  BY <1>1, LenProperties
  <2>4. ~ (k <= Len(Counted) /\ Counted[k].seqNum = s)
    BY <1>6, <2>1, <2>2, <2>3
  <2> HIDE DEF cpkt
  <2> QED  BY <1>2, <1>3, <2>4 DEF queue_ordered_push
<1>8. p.queue \in Seq(CountedPkt) /\ Ahead(p.queue, waited, MAX_BUFFER_SIZE)
  <2> HIDE DEF cpkt, p
  <2>1. LET push == queue_ordered_push(Counted, cpkt, ToUint8(waited),
                                       MAX_BUFFER_SIZE)
        IN  push.queue \in Seq(CountedPkt)
            /\ Ahead(push.queue, waited, MAX_BUFFER_SIZE)
    BY <1>1, <1>5, RQNumbers, PushOrder
  <2> QED  BY <1>1, <2>1 DEF p
<1>9. Shadow(p.queue, new)
  <2>1. /\ k \in 1 .. Len(q) + 1 /\ Len(new) = Len(q) + 1
        /\ \A i \in 1 .. Len(q) + 1 :
             new[i] = IF i < k THEN q[i] ELSE IF i = k THEN pkt ELSE q[i - 1]
    <3>1. LET j == InsertIndex(q, pkt.seqNum, waited, MAX_BUFFER_SIZE)
          IN  /\ j \in 1 .. Len(q) + 1 /\ Len(new) = Len(q) + 1
              /\ \A i \in 1 .. Len(q) + 1 :
                   new[i] = IF i < j THEN q[i]
                            ELSE IF i = j THEN pkt ELSE q[i - 1]
      BY <1>1, <1>3, PushPlace
    <3> QED  BY <1>3, <3>1 DEF k
  <2>2. /\ Len(p.queue) = Len(Counted) + 1
        /\ \A i \in 1 .. Len(Counted) + 1 :
             p.queue[i] = IF i < k THEN Counted[i]
                          ELSE IF i = k THEN cpkt ELSE Counted[i - 1]
    <3> HIDE DEF cpkt
    <3>1. LET j == InsertIndex(Counted, cpkt.seqNum, waited, MAX_BUFFER_SIZE)
          IN  /\ Len(p.queue) = Len(Counted) + 1
              /\ \A i \in 1 .. Len(Counted) + 1 :
                   p.queue[i] = IF i < j THEN Counted[i]
                                ELSE IF i = j THEN cpkt ELSE Counted[i - 1]
      BY <1>1, <1>5, <1>7, PushPlace
    <3> QED  BY <1>2, <1>3, <3>1
  <2>3. Len(Counted) = Len(q) /\ \A i \in 1 .. Len(q) :
          Counted[i].seqNum = q[i].seqNum
    BY <1>1 DEF Shadow
  <2>4. Len(q) \in Nat  BY <1>1, LenProperties
  <2> HIDE DEF new, p
  <2>5. ASSUME NEW i \in 1 .. Len(q) + 1
        PROVE  p.queue[i].seqNum = new[i].seqNum
    <3>1. CASE i < k
      <4>1. i \in 1 .. Len(q)  BY <2>1, <2>4, <3>1
      <4> QED  BY <2>1, <2>2, <2>3, <3>1, <4>1
    <3>2. CASE i = k  BY <1>3, <2>1, <2>2, <2>3, <3>2
    <3>3. CASE k < i
      <4>1. i - 1 \in 1 .. Len(q) /\ ~ (i < k) /\ i # k  BY <2>1, <2>4, <3>3
      <4> QED  BY <2>1, <2>2, <2>3, <4>1
    <3> QED  BY <2>1, <2>4, <3>1, <3>2, <3>3
  <2> QED  BY <2>1, <2>2, <2>3, <2>5 DEF Shadow
<1> QED  BY <1>8, <1>9

(* What is written of a counted queue is the numbers waited, waited + 1,   *)
(* ..., and what stays begins after a gap.                                 *)
LEMMA WriteMeaning ==
  ASSUME HalfWindow, waited \in Uint8, NEW r \in Seq(Pkt),
         NEW p \in Seq(CountedPkt), Shadow(p, r),
         Ahead(p, waited, MAX_BUFFER_SIZE)
  PROVE  LET out == queue_payload_write(r, waited)
             c   == Len(out.written)
         IN  /\ c \in 0 .. MAX_BUFFER_SIZE
             /\ \A i \in 0 .. c - 1 : Plus(waited, i) \in Numbers(r)
             /\ Plus(waited, c) \notin Numbers(r)
             /\ Numbers(out.queue) = Numbers(r) \ {Plus(waited, i) : i \in 0 .. c - 1}
             /\ out.queue \in Seq(Pkt)
             /\ \A i \in 1 .. Len(out.queue) :
                  /\ p[c + i].n \in Int /\ waited + c < p[c + i].n
                  /\ p[c + i].n < waited + MAX_BUFFER_SIZE
                  /\ out.queue[i].seqNum = ToUint8(p[c + i].n)
             /\ \A i, j \in 1 .. Len(out.queue) : i < j => p[c + i].n < p[c + j].n
<1> DEFINE out  == queue_payload_write(r, waited)
           outP == queue_payload_write(p, waited)
           c    == RunLength(r, waited)
           L    == Len(r)
<1>1. waited \in Int /\ ToUint8(waited) = waited
  BY SmallNumber, SeqSpaceAssumption DEF Uint8
<1>2. /\ L \in Nat /\ Len(p) = L
      /\ \A i \in 1 .. L : p[i].seqNum = r[i].seqNum
  BY LenProperties DEF Shadow
<1>3. /\ c \in 0 .. L /\ Len(out.written) = c
      /\ \A i \in 1 .. c : out.written[i] = r[i]
      /\ out.queue \in Seq(Pkt) /\ Len(out.queue) = L - c
      /\ \A i \in 1 .. L - c : out.queue[i] = r[c + i]
  BY WriteParts
<1>4. RunLength(p, waited) = c  BY ShadowRun
<1>5. /\ Len(outP.written) = c /\ \A i \in 1 .. c : outP.written[i] = p[i]
      /\ Len(outP.queue) = L - c
      /\ \A i \in 1 .. L - c : outP.queue[i] = p[c + i]
  <2>1. LET k == RunLength(p, waited)
        IN  /\ Len(outP.written) = k /\ \A i \in 1 .. k : outP.written[i] = p[i]
            /\ Len(outP.queue) = Len(p) - k
            /\ \A i \in 1 .. Len(p) - k : outP.queue[i] = p[k + i]
    BY WriteParts
  <2> HIDE DEF c, outP
  <2> QED  BY <1>2, <1>4, <2>1
<1>6. Splits(p, waited, outP.written, outP.queue)
  <2>1. Splits(p, waited, queue_payload_write(p, ToUint8(waited)).written,
                          queue_payload_write(p, ToUint8(waited)).queue)
    BY <1>1, RQNumbers, PayloadWriteOrder
  <2> QED  BY <1>1, <2>1
<1> HIDE DEF c, out, outP
<1>7. \A i \in 1 .. L : /\ p[i].n \in Int /\ waited <= p[i].n
                        /\ p[i].n < waited + MAX_BUFFER_SIZE
                        /\ r[i].seqNum = ToUint8(p[i].n)
  BY <1>2 DEF Ahead, InWindowOf
<1>8. \A i \in 1 .. c : p[i].n = waited + i - 1
  BY <1>5, <1>6 DEF Splits
<1>9. \A i \in 1 .. L - c : waited + c < p[c + i].n
  BY <1>5, <1>6 DEF Splits
<1>10. \A i \in 1 .. c : r[i].seqNum = Plus(waited, i - 1)
  <2> SUFFICES ASSUME NEW i \in 1 .. c
               PROVE  r[i].seqNum = Plus(waited, i - 1)
    OBVIOUS
  <2>1. i \in 1 .. L /\ i \in Int /\ waited + i - 1 = waited + (i - 1)
    BY <1>1, <1>2, <1>3
  <2>2. r[i].seqNum = ToUint8(waited + (i - 1))  BY <1>7, <1>8, <2>1
  <2> QED  BY <2>2 DEF Plus
<1>11. c \in 0 .. MAX_BUFFER_SIZE
  <2>1. CASE c = 0  BY <2>1, RQNumbers
  <2>2. CASE c # 0
    <3>1. c \in 1 .. c /\ c \in 1 .. L  BY <1>2, <1>3, <2>2
    <3>2. p[c].n = waited + c - 1 /\ p[c].n < waited + MAX_BUFFER_SIZE
      BY <1>7, <1>8, <3>1
    <3> QED  BY <1>1, <1>3, <3>2, RQNumbers
  <2> QED  BY <2>1, <2>2
<1>12. ASSUME NEW i \in 0 .. c - 1  PROVE  Plus(waited, i) \in Numbers(r)
  <2>1. i + 1 \in 1 .. c /\ i + 1 \in 1 .. L /\ (i + 1) - 1 = i
    BY <1>2, <1>3
  <2>2. r[i + 1].seqNum = Plus(waited, (i + 1) - 1)  BY <1>10, <2>1
  <2> QED  BY <2>1, <2>2 DEF Numbers
<1>13. ASSUME NEW i \in 1 .. L - c, NEW k \in 0 .. c
       PROVE  r[c + i].seqNum # Plus(waited, k)
  <2>1. c + i \in 1 .. L  BY <1>2, <1>3
  <2> DEFINE x == p[c + i].n
             y == waited + k
  <2>2. /\ x \in Int /\ y \in Int /\ y < x /\ x < waited + MAX_BUFFER_SIZE
        /\ waited <= y
    <3>1. /\ x \in Int /\ x < waited + MAX_BUFFER_SIZE /\ waited + c < x
      BY <1>7, <1>9, <2>1
    <3>2. y \in Int /\ y <= waited + c /\ waited <= y  BY <1>1, <1>3
    <3> HIDE DEF x, y
    <3> QED  BY <1>1, <1>3, <3>1, <3>2
  <2>3. x - y < SeqSpace /\ y - x < SeqSpace
    <3> HIDE DEF x, y
    <3> QED  BY <1>1, <2>2, RQNumbers
  <2>4. r[c + i].seqNum = ToUint8(x) /\ Plus(waited, k) = ToUint8(y)
    BY <1>7, <2>1 DEF Plus
  <2>5. x # y  BY <2>2
  <2> HIDE DEF x, y
  <2> QED  BY <2>2, <2>3, <2>4, <2>5, SameRemainder
<1>14. Plus(waited, c) \notin Numbers(r)
  <2> SUFFICES ASSUME NEW i \in 1 .. L, r[i].seqNum = Plus(waited, c)
               PROVE  FALSE
    BY DEF Numbers
  <2>1. CASE i <= c
    <3>1. i \in 1 .. c /\ i \in Int  BY <1>3, <2>1
    <3> DEFINE x == waited + c
               y == waited + (i - 1)
    <3>2. ToUint8(x) = ToUint8(y)  BY <1>10, <3>1 DEF Plus
    <3>3. x \in Int /\ y \in Int /\ y < x /\ x - y <= c
      BY <1>1, <1>3, <3>1
    <3>4. x - y < SeqSpace /\ y - x < SeqSpace
      <4> HIDE DEF x, y
      <4> QED  BY <1>3, <1>11, <3>3, RQNumbers
    <3> HIDE DEF x, y
    <3> QED  BY <3>2, <3>3, <3>4, SameRemainder
  <2>2. CASE ~ (i <= c)
    <3>1. i - c \in 1 .. L - c /\ c + (i - c) = i /\ c \in 0 .. c
      BY <1>2, <1>3, <2>2
    <3> QED  BY <1>13, <3>1
  <2> QED  BY <2>1, <2>2
<1>15. Numbers(out.queue) = Numbers(r) \ {Plus(waited, i) : i \in 0 .. c - 1}
  <2>1. ASSUME NEW i \in 1 .. L - c
        PROVE  /\ r[c + i].seqNum \in Numbers(r)
               /\ r[c + i].seqNum \notin {Plus(waited, k) : k \in 0 .. c - 1}
    <3>1. c + i \in 1 .. L  BY <1>2, <1>3
    <3>2. \A k \in 0 .. c - 1 : k \in 0 .. c  BY <1>3
    <3> QED  BY <1>13, <3>1, <3>2 DEF Numbers
  <2>2. ASSUME NEW i \in 1 .. L,
               r[i].seqNum \notin {Plus(waited, k) : k \in 0 .. c - 1}
        PROVE  \E j \in 1 .. L - c : r[i] = r[c + j]
    <3>1. CASE i <= c
      <4>1. i \in 1 .. c /\ i - 1 \in 0 .. c - 1  BY <1>3, <3>1
      <4> QED  BY <1>10, <2>2, <4>1
    <3>2. CASE ~ (i <= c)
      <4>1. i - c \in 1 .. L - c /\ c + (i - c) = i  BY <1>2, <1>3, <3>2
      <4> QED  BY <4>1
    <3> QED  BY <3>1, <3>2
  <2>3. \A x : x \in Numbers(out.queue)
               <=> \E i \in 1 .. L - c : x = r[c + i].seqNum
    <3>1. \A x : x \in Numbers(out.queue)
                 <=> \E i \in 1 .. Len(out.queue) : x = out.queue[i].seqNum
      BY DEF Numbers
    <3>2. \A i \in 1 .. L - c : out.queue[i].seqNum = r[c + i].seqNum
      BY <1>3
    <3>3. Len(out.queue) = L - c  BY <1>3
    <3> QED  BY <3>1, <3>2, <3>3
  <2>4. \A x : x \in Numbers(r) <=> \E i \in 1 .. L : x = r[i].seqNum
    BY DEF Numbers
  <2> DEFINE Gone == {Plus(waited, k) : k \in 0 .. c - 1}
  <2>5. ASSUME NEW x \in Numbers(out.queue)
        PROVE  x \in Numbers(r) \ Gone
    BY <2>1, <2>3
  <2>6. ASSUME NEW x \in Numbers(r) \ Gone
        PROVE  x \in Numbers(out.queue)
    BY <2>2, <2>3, <2>4
  <2> HIDE DEF Gone
  <2>7. Numbers(out.queue) = Numbers(r) \ Gone  BY <2>5, <2>6
  <2> QED  BY <2>7 DEF Gone
<1>16. ASSUME NEW i \in 1 .. Len(out.queue)
       PROVE  /\ p[c + i].n \in Int /\ waited + c < p[c + i].n
              /\ p[c + i].n < waited + MAX_BUFFER_SIZE
              /\ out.queue[i].seqNum = ToUint8(p[c + i].n)
  <2>1. i \in 1 .. L - c /\ c + i \in 1 .. L  BY <1>2, <1>3
  <2> QED  BY <1>3, <1>7, <1>9, <2>1
<1>17. ASSUME NEW i \in 1 .. Len(out.queue), NEW j \in 1 .. Len(out.queue), i < j
       PROVE  p[c + i].n < p[c + j].n
  <2>1. c + i \in 1 .. L /\ c + j \in 1 .. L /\ c + i < c + j
    BY <1>2, <1>3, <1>17
  <2> QED  BY <1>2, <2>1 DEF Ahead, Ordered
<1> QED
  BY <1>3, <1>11, <1>12, <1>14, <1>15, <1>16, <1>17 DEF out

-----------------------------------------------------------------------------
(* What a packet that is pushed does to the queue and the number waited    *)
(* for.                                                                    *)
LEMMA ArriveMeaning ==
  ASSUME HalfWindow, RQInv, NEW s \in Uint8,
         InWindow(s, waited, MAX_BUFFER_SIZE), Arrive(s)
  PROVE  /\ RQInv'
         /\ \E c \in 0 .. MAX_BUFFER_SIZE :
              /\ waited' = Plus(waited, c)
              /\ \A i \in 0 .. c - 1 : Plus(waited, i) \in Numbers(q) \cup {s}
              /\ Plus(waited, c) \notin Numbers(q) \cup {s}
              /\ Numbers(q') = (Numbers(q) \cup {s})
                                 \ {Plus(waited, i) : i \in 0 .. c - 1}
<1> DEFINE pkt == [seqNum |-> s]
           r   == queue_ordered_push(q, pkt, waited, MAX_BUFFER_SIZE).queue
           out == queue_payload_write(r, waited)
           c   == Len(out.written)
<1>1. waited \in Uint8 /\ waited \in Int /\ q \in Seq(Pkt) /\ pkt \in Pkt
  BY SeqSpaceAssumption DEF RQInv, Uint8, Pkt
<1>2. queue_ordered_push(q, pkt, waited, MAX_BUFFER_SIZE).pushed
      /\ q' = out.queue /\ waited' = Plus(waited, c)
  BY DEF Arrive
<1>3. PICK p \in Seq(CountedPkt) :
        Ahead(p, waited, MAX_BUFFER_SIZE) /\ Shadow(p, r)
  BY <1>2, PushCounted
<1>4. r \in Seq(Pkt)
  BY <1>1, <1>2, PushPlace
<1>5. Numbers(r) = Numbers(q) \cup {s}
  <2>1. pkt.seqNum = s  OBVIOUS
  <2> HIDE DEF pkt
  <2> QED  BY <1>1, <1>2, <2>1, PushContents
<1> HIDE DEF r, pkt
<1>6. /\ c \in 0 .. MAX_BUFFER_SIZE
      /\ \A i \in 0 .. c - 1 : Plus(waited, i) \in Numbers(r)
      /\ Plus(waited, c) \notin Numbers(r)
      /\ Numbers(out.queue) = Numbers(r) \ {Plus(waited, i) : i \in 0 .. c - 1}
      /\ out.queue \in Seq(Pkt)
      /\ \A i \in 1 .. Len(out.queue) :
           /\ p[c + i].n \in Int /\ waited + c < p[c + i].n
           /\ p[c + i].n < waited + MAX_BUFFER_SIZE
           /\ out.queue[i].seqNum = ToUint8(p[c + i].n)
      /\ \A i, j \in 1 .. Len(out.queue) : i < j => p[c + i].n < p[c + j].n
  BY <1>1, <1>3, <1>4, WriteMeaning
<1> HIDE DEF c, out
<1>7. waited' = ToUint8(waited + c) /\ waited + c \in Int
  BY <1>1, <1>2, <1>6, RQNumbers DEF Plus
<1>8. ASSUME NEW i \in 1 .. Len(q')
      PROVE  Minus((q')[i].seqNum, waited') = p[c + i].n - (waited + c)
  <2> DEFINE n == p[c + i].n
             w == waited + c
  <2>1. /\ n \in Int /\ w < n /\ n < waited + MAX_BUFFER_SIZE
        /\ (q')[i].seqNum = ToUint8(n)
    BY <1>2, <1>6
  <2> HIDE DEF n
  <2>2. n - w \in Uint8
    <3>1. w \in Int /\ waited <= w  BY <1>1, <1>6
    <3> HIDE DEF w
    <3> QED  BY <1>1, <2>1, <3>1, RQNumbers DEF Uint8
  <2> HIDE DEF w
  <2>3. waited' = ToUint8(w) /\ w \in Int  BY <1>7 DEF w
  <2>4. Minus(ToUint8(n), ToUint8(w)) = ToUint8(n - w)
    BY <2>1, <2>3, MinusRemainder
  <2>5. Minus((q')[i].seqNum, waited') = n - w
    BY <2>1, <2>2, <2>3, <2>4, SmallNumber
  <2> QED  BY <2>5 DEF n, w
<1>9. RQInv'
  <2>1. waited' \in Uint8 /\ q' \in Seq(Pkt)  BY <1>2, <1>6, <1>7, Division
  <2>2. ASSUME NEW i \in 1 .. Len(q')
        PROVE  Minus((q')[i].seqNum, waited') \in 1 .. MAX_BUFFER_SIZE - 1
    <3>1. /\ p[c + i].n \in Int /\ waited + c < p[c + i].n
          /\ p[c + i].n < waited + MAX_BUFFER_SIZE
      BY <1>2, <1>6
    <3>2. Minus((q')[i].seqNum, waited') = p[c + i].n - (waited + c)  BY <1>8
    <3>3. c \in Nat /\ MAX_BUFFER_SIZE \in Nat  BY <1>6, RQNumbers
    <3> QED  BY ONLY <1>1, <3>1, <3>2, <3>3
  <2>3. ASSUME NEW i \in 1 .. Len(q'), NEW j \in 1 .. Len(q'), i < j
        PROVE  Minus((q')[i].seqNum, waited') < Minus((q')[j].seqNum, waited')
    <3>1. /\ p[c + i].n \in Int /\ p[c + j].n \in Int
          /\ p[c + i].n < p[c + j].n
      BY <1>2, <1>6, <2>3
    <3>2. /\ Minus((q')[i].seqNum, waited') = p[c + i].n - (waited + c)
          /\ Minus((q')[j].seqNum, waited') = p[c + j].n - (waited + c)
      BY <1>8
    <3> QED  BY ONLY <1>7, <3>1, <3>2
  <2> QED  BY <2>1, <2>2, <2>3 DEF RQInv, QueueSorted, Distance
<1>10. Numbers(q') = Numbers(r) \ {Plus(waited, i) : i \in 0 .. c - 1}
  BY <1>2, <1>6
<1> QED
  BY <1>2, <1>5, <1>6, <1>9, <1>10

(* The invariant is inductive. *)
LEMMA RQInvStep == HalfWindow /\ RQInv /\ [Next]_vars => RQInv'
<1> SUFFICES ASSUME HalfWindow, RQInv, [Next]_vars  PROVE RQInv'  OBVIOUS
<1>1. ASSUME NEW s \in Uint8, InWindow(s, waited, MAX_BUFFER_SIZE), Arrive(s)
      PROVE  RQInv'
  BY <1>1, ArriveMeaning
<1>2. ASSUME UNCHANGED vars  PROVE RQInv'
  BY <1>2 DEF vars, RQInv, QueueSorted, Distance
<1> QED  BY <1>1, <1>2 DEF Next, ArriveTwice

LEMMA RQInvInit == HalfWindow /\ Init => RQInv
<1> SUFFICES ASSUME Init  PROVE RQInv  OBVIOUS
<1>1. q \in Seq(Pkt) /\ Len(q) = 0  BY EmptySeq DEF Init
<1> QED  BY <1>1 DEF Init, RQInv, QueueSorted

(* The queue is in order, whatever arrives and wherever the window lies    *)
(* (queue_receiver.c:74-154).                                              *)
THEOREM Sorted == ASSUME HalfWindow PROVE Spec => []QueueSorted
<1>1. Init => RQInv  BY RQInvInit
<1>2. RQInv /\ [Next]_vars => RQInv'  BY RQInvStep
<1>3. RQInv => QueueSorted  BY DEF RQInv
<1> QED  BY <1>1, <1>2, <1>3, PTL DEF Spec

-----------------------------------------------------------------------------
(* The numbers released are as many as follow without a gap.               *)
LEMMA FollowingIs ==
  ASSUME HalfWindow, NEW S, NEW c \in 0 .. MAX_BUFFER_SIZE,
         \A i \in 0 .. c - 1 : Plus(waited, i) \in S,
         Plus(waited, c) \notin S
  PROVE  RS!Following(S) = c
<1> DEFINE Is(k) == /\ \A i \in 0 .. k - 1 : Plus(waited, i) \in S
                    /\ k = MAX_BUFFER_SIZE \/ Plus(waited, k) \notin S
<1>1. \A a, b : RS!Plus(a, b) = Plus(a, b)
  BY DEF RS!Plus, RS!ToUint8, Plus, ToUint8
<1>2. RS!Following(S) = CHOOSE k \in 0 .. MAX_BUFFER_SIZE : Is(k)
  BY <1>1 DEF RS!Following
<1>3. Is(c)  OBVIOUS
<1>4. ASSUME NEW k \in 0 .. MAX_BUFFER_SIZE, Is(k)  PROVE k = c
  <2>1. CASE k < c
    <3>1. k # MAX_BUFFER_SIZE /\ k \in 0 .. c - 1  BY <2>1, RQNumbers
    <3> QED  BY <1>4, <3>1
  <2>2. CASE c < k
    <3>1. c \in 0 .. k - 1  BY <2>2, RQNumbers
    <3> QED  BY <1>4, <3>1
  <2> QED  BY <2>1, <2>2, RQNumbers
<1> HIDE DEF Is
<1> QED  BY <1>2, <1>3, <1>4

(* Every behaviour of the queue is one of the set of numbers: none is      *)
(* forgotten or passed over, and each is released when no number before it *)
(* is missing (queue_receiver.c:54-155, 212-243).                          *)
THEOREM QueueImplements == ASSUME HalfWindow PROVE Spec => ImplementsReorderSet
<1>1. Init => RS!Init
  <2> SUFFICES ASSUME Init  PROVE RS!Init  OBVIOUS
  <2>1. Len(q) = 0  BY EmptySeq DEF Init
  <2>2. waited \in RS!Uint8  BY DEF Init, Uint8, RS!Uint8
  <2> QED  BY <2>1, <2>2 DEF RS!Init
<1>2. RQInv /\ [Next]_vars
        => [\E s \in RS!Window : RS!Arrive(s)]_<<waited, Numbers(q)>>
  <2> SUFFICES ASSUME RQInv, [Next]_vars
               PROVE  \/ \E s \in RS!Window : RS!Arrive(s)
                      \/ UNCHANGED <<waited, Numbers(q)>>
    OBVIOUS
  <2>1. ASSUME NEW s \in Uint8, InWindow(s, waited, MAX_BUFFER_SIZE), Arrive(s)
        PROVE  \E x \in RS!Window : RS!Arrive(x)
    <3>1. PICK c \in 0 .. MAX_BUFFER_SIZE :
            /\ waited' = Plus(waited, c)
            /\ \A i \in 0 .. c - 1 : Plus(waited, i) \in Numbers(q) \cup {s}
            /\ Plus(waited, c) \notin Numbers(q) \cup {s}
            /\ Numbers(q') = (Numbers(q) \cup {s})
                               \ {Plus(waited, i) : i \in 0 .. c - 1}
      BY <2>1, ArriveMeaning
    <3>2. RS!Following(Numbers(q) \cup {s}) = c  BY <3>1, FollowingIs
    <3>3. \A a, b : RS!Plus(a, b) = Plus(a, b)
      BY DEF RS!Plus, RS!ToUint8, Plus, ToUint8
    <3>4. RS!Arrive(s)
      BY <3>1, <3>2, <3>3 DEF RS!Arrive, Numbers
    <3>5. s \in RS!Window
      <4> DEFINE d == Distance(s)
      <4>1. waited \in Uint8 /\ ToUint8(waited + d) = s /\ d \in Uint8
        BY CountOf DEF RQInv, Count
      <4>2. d < MAX_BUFFER_SIZE  BY <2>1 DEF InWindow, Distance
      <4> HIDE DEF d
      <4>3. d \in 0 .. MAX_BUFFER_SIZE - 1
        BY <4>1, <4>2, RQNumbers DEF Uint8
      <4>4. s = RS!Plus(waited, d)  BY <3>3, <4>1 DEF Plus
      <4> QED  BY <4>3, <4>4 DEF RS!Window
    <3> QED  BY <3>4, <3>5
  <2>2. ASSUME UNCHANGED vars  PROVE UNCHANGED <<waited, Numbers(q)>>
    BY <2>2 DEF vars, Numbers
  <2> QED  BY <2>1, <2>2 DEF Next, ArriveTwice
<1>3. RQInv /\ [Next]_vars
        => [\E s \in RS!Window :
              RS!Arrive(s)]_<<waited, {q[i].seqNum : i \in 1 .. Len(q)}>>
  BY <1>2 DEF Numbers
<1>4. Init => RQInv  BY RQInvInit
<1>5. RQInv /\ [Next]_vars => RQInv'  BY RQInvStep
<1> QED
  BY <1>1, <1>3, <1>4, <1>5, PTL DEF Spec, ImplementsReorderSet, RS!Spec
=============================================================================
