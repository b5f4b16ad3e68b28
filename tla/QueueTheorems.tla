---------------------------- MODULE QueueTheorems ----------------------------
(***************************************************************************)
(* What the 8-bit arithmetic of the program computes, when a sequence      *)
(* number is seen as the remainder of an absolute number n: sums and       *)
(* distances of sequence numbers are the remainders of the sums and        *)
(* distances of the absolute numbers, and the window test tells them apart *)
(* as long as they are not too far from each other.  Then what the         *)
(* operations of the two queues return, for every queue.                   *)
(***************************************************************************)
EXTENDS QueueReceiver, QueueSender, SequenceTheorems, WellFoundedInduction,
        TLAPS

(* A number divides into a multiple of SeqSpace and its remainder. *)
LEMMA Division ==
  ASSUME NEW x \in Int
  PROVE  /\ ToUint8(x) \in Uint8
         /\ x \div SeqSpace \in Int
         /\ x = SeqSpace * (x \div SeqSpace) + ToUint8(x)
  BY SeqSpaceAssumption DEF ToUint8, Uint8

(* The remainder is the only one of its kind. *)
LEMMA Remainder ==
  ASSUME NEW x \in Int, NEW k \in Int, NEW r \in Uint8, x = SeqSpace * k + r
  PROVE  ToUint8(x) = r
  BY SeqSpaceAssumption DEF ToUint8, Uint8

(* A number of the range is its own remainder, one below it wraps once. *)
LEMMA SmallNumber == \A x \in Uint8 : ToUint8(x) = x
  BY SeqSpaceAssumption DEF ToUint8, Uint8

(* A number just below zero wraps once. *)
LEMMA SmallNegative ==
  \A x \in Int : -SeqSpace <= x /\ x < 0 => ToUint8(x) = x + SeqSpace
<1> SUFFICES ASSUME NEW x \in Int, -SeqSpace <= x, x < 0
             PROVE  ToUint8(x) = x + SeqSpace
  OBVIOUS
<1>1. x + SeqSpace \in Uint8  BY SeqSpaceAssumption DEF Uint8
<1>2. x = SeqSpace * (-1) + (x + SeqSpace)  BY SeqSpaceAssumption
<1> QED  BY <1>1, <1>2, Remainder

(* Two numbers with the same remainder that differ by less than SeqSpace   *)
(* are equal: a sequence number identifies a packet among those nearby.    *)
LEMMA SameRemainder ==
  ASSUME NEW a \in Int, NEW b \in Int, ToUint8(a) = ToUint8(b),
         a - b < SeqSpace, b - a < SeqSpace
  PROVE  a = b
<1> DEFINE ka == a \div SeqSpace
           kb == b \div SeqSpace
<1>1. /\ ka \in Int /\ kb \in Int /\ ToUint8(a) \in Int
      /\ a = SeqSpace * ka + ToUint8(a)
      /\ b = SeqSpace * kb + ToUint8(a)
  BY Division DEF Uint8
<1> HIDE DEF ka, kb
<1>2. a - b = SeqSpace * (ka - kb)  BY <1>1, SeqSpaceAssumption
<1>3. ka = kb
  <2>1. CASE ka >= kb + 1
    <3>1. SeqSpace * (ka - kb) >= SeqSpace  BY <1>1, <2>1, SeqSpaceAssumption
    <3> QED  BY <1>2, <3>1, SeqSpaceAssumption
  <2>2. CASE kb >= ka + 1
    <3>1. SeqSpace * (kb - ka) >= SeqSpace  BY <1>1, <2>2, SeqSpaceAssumption
    <3>2. b - a = SeqSpace * (kb - ka)  BY <1>1, SeqSpaceAssumption
    <3> QED  BY <3>1, <3>2, SeqSpaceAssumption
  <2> QED  BY <1>1, <2>1, <2>2
<1> QED  BY <1>1, <1>3

(* Sums and distances of remainders are those of the numbers. *)
LEMMA PlusRemainder ==
  ASSUME NEW a \in Int, NEW d \in Int
  PROVE  Plus(ToUint8(a), d) = ToUint8(a + d)
<1> DEFINE k == a \div SeqSpace
           s == ToUint8(a) + d
           j == s \div SeqSpace
<1>1. k \in Int /\ ToUint8(a) \in Int /\ a = SeqSpace * k + ToUint8(a)
  BY Division DEF Uint8
<1>2. j \in Int /\ ToUint8(s) \in Uint8 /\ s = SeqSpace * j + ToUint8(s)
  BY <1>1, Division
<1>3. ToUint8(s) \in Int  BY <1>2 DEF Uint8
<1> HIDE DEF k, j
<1>4. s = ToUint8(a) + d  OBVIOUS
<1> HIDE DEF s
<1>5. a + d = SeqSpace * (k + j) + ToUint8(s)
  BY <1>1, <1>2, <1>3, <1>4, SeqSpaceAssumption
<1>6. ToUint8(a + d) = ToUint8(s)  BY <1>1, <1>2, <1>5, Remainder
<1> QED  BY <1>4, <1>6 DEF Plus

(* The 8-bit distance of two numbers is that of the absolute ones. *)
LEMMA MinusRemainder ==
  ASSUME NEW a \in Int, NEW b \in Int
  PROVE  Minus(ToUint8(a), ToUint8(b)) = ToUint8(a - b)
<1> DEFINE ka == a \div SeqSpace
           kb == b \div SeqSpace
           s  == ToUint8(a) - ToUint8(b)
           j  == s \div SeqSpace
<1>1. /\ ka \in Int /\ ToUint8(a) \in Int /\ a = SeqSpace * ka + ToUint8(a)
      /\ kb \in Int /\ ToUint8(b) \in Int /\ b = SeqSpace * kb + ToUint8(b)
  BY Division DEF Uint8
<1>2. j \in Int /\ ToUint8(s) \in Uint8 /\ s = SeqSpace * j + ToUint8(s)
  BY <1>1, Division
<1>3. ToUint8(s) \in Int  BY <1>2 DEF Uint8
<1> HIDE DEF ka, kb, j
<1>4. s = ToUint8(a) - ToUint8(b)  OBVIOUS
<1> HIDE DEF s
<1>5. a - b = SeqSpace * (ka - kb + j) + ToUint8(s)
  <2> DEFINE pa == SeqSpace * ka
             pb == SeqSpace * kb
             pj == SeqSpace * j
  <2>1. SeqSpace * (ka - kb + j) = pa - pb + pj
    BY <1>1, <1>2, SeqSpaceAssumption
  <2>2. pa \in Int /\ pb \in Int /\ pj \in Int
    BY <1>1, <1>2, SeqSpaceAssumption
  <2>3. a = pa + ToUint8(a) /\ b = pb + ToUint8(b)  BY <1>1
  <2>4. ToUint8(a) - ToUint8(b) = pj + ToUint8(s)  BY <1>2, <1>4
  <2> HIDE DEF pa, pb, pj
  <2>5. a - b = pa - pb + pj + ToUint8(s)
    BY <1>1, <1>3, <2>2, <2>3, <2>4
  <2> QED  BY <2>1, <2>5
<1>6. ToUint8(a - b) = ToUint8(s)  BY <1>1, <1>2, <1>5, Remainder
<1> QED  BY <1>4, <1>6 DEF Minus

(* A sequence number minus a constant. *)
LEMMA MinusConstant ==
  ASSUME NEW a \in Int, NEW d \in Int
  PROVE  Minus(ToUint8(a), d) = ToUint8(a - d)
<1>1. Plus(ToUint8(a), -d) = ToUint8(a + (-d))  BY PlusRemainder
<1>2. ToUint8(a) \in Int  BY Division DEF Uint8
<1> QED  BY <1>1, <1>2 DEF Plus, Minus

(* The window test, made on remainders, answers for the absolute numbers:  *)
(* it accepts those from `first' to first + size - 1 and no other, older   *)
(* or newer, provided that none is so old that SeqSpace - size numbers came*)
(* after it, nor SeqSpace ahead (receiver.c:153-158, sender.c:309-314).    *)
THEOREM WindowTest ==
  ASSUME NEW n \in Int, NEW first \in Int, NEW size \in Nat,
         1 <= size, size <= SeqSpace,
         size - SeqSpace <= n - first, n - first < SeqSpace
  PROVE  InWindow(ToUint8(n), ToUint8(first), size)
           <=> first <= n /\ n < first + size
<1> DEFINE s == ToUint8(n)
           f == ToUint8(first)
           inf == Minus(s, f)
           sup == Minus(f + size - 1, s)
<1>1. s \in Int /\ f \in Int  BY Division DEF Uint8
<1>2. inf = ToUint8(n - first)  BY MinusRemainder
<1>3. ASSUME first <= n  PROVE inf = n - first
  BY <1>2, <1>3, SmallNumber, SeqSpaceAssumption DEF Uint8
<1>4. CASE first <= n /\ first + size <= n
  BY <1>3, <1>4 DEF InWindow
<1>5. CASE first <= n /\ n < first + size
  <2>1. inf = n - first  BY <1>3, <1>5
  <2>2. sup = size - 1 - (n - first)
    <3>1. Plus(ToUint8(first - n), size - 1) = ToUint8(first - n + (size - 1))
      BY PlusRemainder
    <3>2. Minus(f, s) = ToUint8(first - n)  BY MinusRemainder
    <3>4. Plus(ToUint8(f - s), size - 1) = ToUint8(f - s + (size - 1))
      BY <1>1, PlusRemainder
    <3>5. ToUint8(f - s) = ToUint8(first - n)  BY <3>2 DEF Minus
    <3>6. sup = ToUint8(first - n + (size - 1))
      <4>1. f - s + (size - 1) = f + size - 1 - s  BY <1>1
      <4>2. ToUint8(f - s + (size - 1)) = ToUint8(first - n + (size - 1))
        BY <3>1, <3>4, <3>5
      <4> HIDE DEF f, s
      <4>3. sup = ToUint8((f + size - 1) - s)  BY ONLY DEF sup, Minus
      <4> HIDE DEF sup
      <4>4. ToUint8((f + size - 1) - s) = ToUint8(f - s + (size - 1))
        BY <1>1, <4>1
      <4>5. sup = ToUint8(f - s + (size - 1))  BY <4>3, <4>4
      <4> QED  BY <4>2, <4>5
    <3>7. first - n + (size - 1) \in Uint8
      BY <1>5, SeqSpaceAssumption DEF Uint8
    <3> QED  BY <3>6, <3>7, SmallNumber
  <2> QED  BY <1>5, <2>1, <2>2 DEF InWindow
<1>6. CASE n < first
  <2>1. ToUint8(n - first) = n - first + SeqSpace
    BY <1>6, SmallNegative, SeqSpaceAssumption
  <2>2. ~ (inf < size)  BY <1>2, <2>1, SeqSpaceAssumption
  <2> QED  BY <1>6, <2>2 DEF InWindow
<1> QED  BY <1>4, <1>5, <1>6

(* The sequence number k places after that of a: it wraps at most once.    *)
LEMMA Offset ==
  ASSUME NEW a \in Int, NEW k \in Int, 0 <= k, k < SeqSpace
  PROVE  ToUint8(a + k) = IF ToUint8(a) + k < SeqSpace THEN ToUint8(a) + k
                          ELSE ToUint8(a) + k - SeqSpace
<1> DEFINE r == ToUint8(a)
<1>1. r \in Int /\ 0 <= r /\ r < SeqSpace
  BY Division, SeqSpaceAssumption DEF Uint8
<1>2. ToUint8(a + k) = ToUint8(r + k)  BY PlusRemainder DEF Plus
<1> HIDE DEF r
<1>3. CASE r + k < SeqSpace
  <2>1. r + k \in Uint8  BY <1>1, <1>3, SeqSpaceAssumption DEF Uint8
  <2> QED  BY <1>2, <1>3, <2>1, SmallNumber DEF r
<1>4. CASE r + k >= SeqSpace
  <2>1. r + k - SeqSpace \in Uint8
    BY <1>1, <1>4, SeqSpaceAssumption DEF Uint8
  <2>2. r + k = SeqSpace * 1 + (r + k - SeqSpace) /\ r + k \in Int
    BY <1>1, SeqSpaceAssumption
  <2>3. ToUint8(r + k) = r + k - SeqSpace  BY <2>1, <2>2, Remainder
  <2>4. ~ (r + k < SeqSpace)  BY <1>1, <1>4, SeqSpaceAssumption
  <2> QED  BY <1>2, <2>3, <2>4 DEF r
<1> QED  BY <1>1, <1>3, <1>4, SeqSpaceAssumption

(* How the sequence numbers of a window that starts at a compare, when two *)
(* windows fit into SeqSpace: in a window that may wrap, the numbers at    *)
(* the upper end come first, and the others are the smallest of all.       *)
LEMMA WindowOrder ==
  ASSUME NEW a \in Int, NEW size \in Nat \ {0}, 2 * size <= SeqSpace,
         NEW x \in Int, a <= x, x < a + size,
         NEW y \in Int, a <= y, y < a + size
  PROVE  LET wraps   == ToUint8(a) >= SeqSpace - size
             High(s) == s >= SeqSpace - size
         IN  /\ ~ wraps => (ToUint8(x) < ToUint8(y) <=> x < y)
             /\ wraps /\ (High(ToUint8(x)) <=> High(ToUint8(y)))
                  => (ToUint8(x) < ToUint8(y) <=> x < y)
             /\ wraps /\ High(ToUint8(x)) /\ ~ High(ToUint8(y)) => x < y
             /\ wraps => (ToUint8(x) < size - 1 <=> ~ High(ToUint8(x)))
<1>1. /\ ToUint8(a) \in Int /\ 0 <= ToUint8(a) /\ ToUint8(a) < SeqSpace
      /\ SeqSpace \in Int
  BY Division, SeqSpaceAssumption DEF Uint8
<1>2. ASSUME NEW z \in Int, a <= z, z < a + size
      PROVE  ToUint8(z) = IF ToUint8(a) + (z - a) < SeqSpace
                          THEN ToUint8(a) + (z - a)
                          ELSE ToUint8(a) + (z - a) - SeqSpace
  <2>1. z - a \in Int /\ 0 <= z - a /\ z - a < SeqSpace
    BY <1>1, <1>2
  <2>2. a + (z - a) = z  BY <1>2
  <2> DEFINE k == z - a
  <2>3. k \in Int /\ 0 <= k /\ k < SeqSpace /\ a + k = z  BY <2>1, <2>2
  <2> HIDE DEF k
  <2>4. ToUint8(a + k) = IF ToUint8(a) + k < SeqSpace THEN ToUint8(a) + k
                         ELSE ToUint8(a) + k - SeqSpace
    BY ONLY a \in Int, <2>3, Offset
  <2> QED  BY <2>3, <2>4 DEF k
<1>3. /\ ToUint8(x) = IF ToUint8(a) + (x - a) < SeqSpace
                      THEN ToUint8(a) + (x - a)
                      ELSE ToUint8(a) + (x - a) - SeqSpace
      /\ ToUint8(y) = IF ToUint8(a) + (y - a) < SeqSpace
                      THEN ToUint8(a) + (y - a)
                      ELSE ToUint8(a) + (y - a) - SeqSpace
  BY <1>2
<1> QED  BY <1>1, <1>3

-----------------------------------------------------------------------------
(* A nonempty set of natural numbers has a smallest element, and Min is it *)
LEMMA MinOf ==
  ASSUME NEW S, S \subseteq Nat, S # {}
  PROVE  Min(S) \in S /\ \A x \in S : Min(S) <= x
<1> DEFINE R == {ss \in Nat \X Nat : ss[1] < ss[2]}
<1>1. IsWellFoundedOn(R, Nat)
  BY NatLessThanWellFounded, Zenon DEF OpToRel
<1>2. \E x \in S : \A y \in S : ~ (<<y, x>> \in R)
  <2> HIDE DEF R
  <2> QED  BY <1>1, WFMin
<1>3. PICK x \in S : \A y \in S : ~ (<<y, x>> \in R)
  BY <1>2
<1>4. \A y \in S : x =< y
  <2> SUFFICES ASSUME NEW y \in S  PROVE x =< y  OBVIOUS
  <2>1. ~ (y < x)  BY <1>3
  <2> QED  BY <2>1
<1> QED  BY <1>4 DEF Min

(* FirstOf is the first position of the set, or the one past the end. *)
LEMMA FirstOfPosition ==
  ASSUME NEW T, NEW q \in Seq(T), NEW S \in SUBSET (1 .. Len(q))
  PROVE  /\ FirstOf(q, S) \in 1 .. Len(q) + 1
         /\ S # {} => FirstOf(q, S) \in S
         /\ S = {} => FirstOf(q, S) = Len(q) + 1
         /\ \A i \in S : FirstOf(q, S) <= i
<1>1. Len(q) \in Nat  BY LenProperties
<1>2. CASE S = {}  BY <1>1, <1>2 DEF FirstOf
<1>3. CASE S # {}
  <2>1. S \subseteq Nat  BY <1>1
  <2>2. Min(S) \in S /\ \A x \in S : Min(S) <= x  BY <1>3, <2>1, MinOf
  <2>3. FirstOf(q, S) \in S /\ \A x \in S : FirstOf(q, S) <= x
    BY <1>3, <2>2 DEF FirstOf
  <2>4. FirstOf(q, S) \in 1 .. Len(q)  BY <2>3
  <2> QED  BY <1>1, <1>3, <2>3, <2>4
<1> QED  BY <1>2, <1>3

(* A piece of a queue is a queue. *)
LEMMA Piece ==
  ASSUME NEW T, NEW q \in Seq(T), NEW a \in Nat \ {0}, NEW b \in 0 .. Len(q)
  PROVE  /\ SubSeq(q, a, b) \in Seq(T)
         /\ Len(SubSeq(q, a, b)) = IF a <= b THEN b - a + 1 ELSE 0
         /\ \A i \in 1 .. b - a + 1 : SubSeq(q, a, b)[i] = q[a + i - 1]
<1>1. Len(q) \in Nat  BY LenProperties
<1>2. a \in Int /\ b \in Int  BY <1>1
<1>3. \A i \in a .. b : q[i] \in T  BY <1>1, ElementOfSeq
<1> QED  BY <1>2, <1>3, SubSeqProperties

(* Inserting an element shifts the ones behind it. *)
LEMMA Insertion ==
  ASSUME NEW T, NEW q \in Seq(T), NEW e \in T, NEW k \in 1 .. Len(q) + 1
  PROVE  /\ InsertAt(q, k, e) \in Seq(T)
         /\ Len(InsertAt(q, k, e)) = Len(q) + 1
         /\ \A i \in 1 .. Len(q) + 1 :
              InsertAt(q, k, e)[i] = IF i < k THEN q[i]
                                     ELSE IF i = k THEN e ELSE q[i - 1]
<1> DEFINE front == SubSeq(q, 1, k - 1)
           back  == SubSeq(q, k, Len(q))
           most  == front \o <<e>>
<1>1. Len(q) \in Nat  BY LenProperties
<1>2. /\ front \in Seq(T) /\ Len(front) = k - 1
      /\ \A i \in 1 .. k - 1 : front[i] = q[i]
  <2>1. k - 1 \in 0 .. Len(q)  BY <1>1
  <2>2. /\ front \in Seq(T)
        /\ Len(front) = IF 1 <= k - 1 THEN k - 1 - 1 + 1 ELSE 0
        /\ \A i \in 1 .. (k - 1) - 1 + 1 : front[i] = q[1 + i - 1]
    BY <2>1, Piece
  <2> QED  BY <1>1, <2>2
<1>3. /\ back \in Seq(T) /\ Len(back) = Len(q) - k + 1
      /\ \A i \in 1 .. Len(q) - k + 1 : back[i] = q[k + i - 1]
  <2>1. k \in Nat \ {0} /\ Len(q) \in 0 .. Len(q)  BY <1>1
  <2>2. /\ back \in Seq(T)
        /\ Len(back) = IF k <= Len(q) THEN Len(q) - k + 1 ELSE 0
        /\ \A i \in 1 .. Len(q) - k + 1 : back[i] = q[k + i - 1]
    BY <2>1, Piece
  <2> QED  BY <1>1, <2>2
<1> HIDE DEF front, back
<1>4. <<e>> \in Seq(T) /\ Len(<<e>>) = 1 /\ <<e>>[1] = e  OBVIOUS
<1>5. /\ most \in Seq(T) /\ Len(most) = k
      /\ \A i \in 1 .. k : most[i] = IF i < k THEN q[i] ELSE e
  <2>1. /\ most \in Seq(T) /\ Len(most) = Len(front) + Len(<<e>>)
        /\ \A i \in 1 .. Len(front) + Len(<<e>>) :
             most[i] = IF i <= Len(front) THEN front[i] ELSE <<e>>[i - Len(front)]
    BY <1>2, <1>4, ConcatProperties
  <2> QED  BY <1>1, <1>2, <1>4, <2>1
<1> HIDE DEF most
<1>6. /\ most \o back \in Seq(T)
      /\ Len(most \o back) = Len(most) + Len(back)
      /\ \A i \in 1 .. Len(most) + Len(back) :
           (most \o back)[i] = IF i <= Len(most) THEN most[i]
                               ELSE back[i - Len(most)]
  BY <1>3, <1>5, ConcatProperties
<1>7. InsertAt(q, k, e) = most \o back  BY DEF InsertAt, most, front, back
<1>8. \A i \in 1 .. Len(q) + 1 :
        (most \o back)[i] = IF i < k THEN q[i] ELSE IF i = k THEN e ELSE q[i - 1]
  <2> SUFFICES ASSUME NEW i \in 1 .. Len(q) + 1
               PROVE  (most \o back)[i] =
                        IF i < k THEN q[i] ELSE IF i = k THEN e ELSE q[i - 1]
    OBVIOUS
  <2>1. CASE i <= k
    <3>1. i \in 1 .. k  BY <1>1, <2>1
    <3>2. (most \o back)[i] = most[i]  BY <1>1, <1>3, <1>5, <1>6, <3>1
    <3> QED  BY <1>1, <1>5, <3>1, <3>2
  <2>2. CASE k < i
    <3>1. i - k \in 1 .. Len(q) - k + 1 /\ k + (i - k) - 1 = i - 1
      BY <1>1, <2>2
    <3>2. (most \o back)[i] = back[i - k]  BY <1>1, <1>3, <1>5, <1>6, <2>2
    <3> QED  BY <1>3, <2>2, <3>1, <3>2
  <2>3. i <= k \/ k < i  BY <1>1
  <2> QED  BY <2>1, <2>2, <2>3, Zenon
<1> QED  BY <1>1, <1>3, <1>5, <1>6, <1>7, <1>8

-----------------------------------------------------------------------------
(* queue_ordered_push inserts at a position of the queue or at its end.    *)
LEMMA InsertIndexPosition ==
  ASSUME NEW T, NEW q \in Seq(T), NEW s, NEW waited, NEW size
  PROVE  InsertIndex(q, s, waited, size) \in 1 .. Len(q) + 1
<1> DEFINE wraps     == waited >= SeqSpace - size
           High(x)   == x >= SeqSpace - size
           lowest    == FirstOf(q, {i \in 1 .. Len(q) : ~ High(q[i].seqNum)})
           start     == IF wraps /\ s < size - 1 THEN lowest ELSE 1
           Before(i) == /\ q[i].seqNum < s
                        /\ wraps /\ High(s) => High(q[i].seqNum)
           S         == {i \in start .. Len(q) : ~ Before(i)}
<1>1. Len(q) \in Nat  BY LenProperties
<1>2. lowest \in 1 .. Len(q) + 1
  <2>1. {i \in 1 .. Len(q) : ~ High(q[i].seqNum)} \in SUBSET (1 .. Len(q))
    OBVIOUS
  <2> QED  BY <2>1, FirstOfPosition
<1>3. start \in 1 .. Len(q) + 1  BY <1>1, <1>2
<1>4. S \in SUBSET (1 .. Len(q))
  <2> HIDE DEF start, Before
  <2> QED  BY <1>1, <1>3
<1>5. InsertIndex(q, s, waited, size) = FirstOf(q, S)  BY DEF InsertIndex
<1> HIDE DEF S
<1> QED  BY <1>4, <1>5, FirstOfPosition

(* queue_ordered_push returns a queue of what it was given. *)
LEMMA PushType ==
  ASSUME NEW T, NEW q \in Seq(T), NEW pkt \in T, NEW waited, NEW size
  PROVE  LET push == queue_ordered_push(q, pkt, waited, size)
         IN  /\ push.pushed \in BOOLEAN
             /\ push.queue \in Seq(T)
<1> DEFINE i == InsertIndex(q, pkt.seqNum, waited, size)
<1>1. i \in 1 .. Len(q) + 1  BY InsertIndexPosition
<1> HIDE DEF i
<1>2. InsertAt(q, i, pkt) \in Seq(T)  BY <1>1, Insertion
<1> QED  BY <1>2 DEF queue_ordered_push, i

(* queue_payload_write splits the queue in what it writes and what it keeps *)
LEMMA RunLengthBound ==
  ASSUME NEW T, NEW q \in Seq(T), NEW seqNum
  PROVE  RunLength(q, seqNum) \in 0 .. Len(q)
<1> DEFINE S == {i \in 1 .. Len(q) : q[i].seqNum # Plus(seqNum, i - 1)}
<1>1. Len(q) \in Nat  BY LenProperties
<1>2. S \in SUBSET (1 .. Len(q))  OBVIOUS
<1>3. RunLength(q, seqNum) = FirstOf(q, S) - 1  BY DEF RunLength
<1> HIDE DEF S
<1>4. FirstOf(q, S) \in 1 .. Len(q) + 1  BY <1>2, FirstOfPosition
<1> QED  BY <1>1, <1>3, <1>4

(* queue_payload_write divides a queue into two. *)
LEMMA PayloadWriteType ==
  ASSUME NEW T, NEW q \in Seq(T), NEW seqNum
  PROVE  LET out == queue_payload_write(q, seqNum)
         IN  out.written \in Seq(T) /\ out.queue \in Seq(T)
<1> DEFINE count == RunLength(q, seqNum)
<1>1. Len(q) \in Nat  BY LenProperties
<1>2. count \in 0 .. Len(q)  BY RunLengthBound
<1> HIDE DEF count
<1>3. SubSeq(q, 1, count) \in Seq(T)  BY <1>1, <1>2, Piece
<1>4. SubSeq(q, count + 1, Len(q)) \in Seq(T)
  <2>1. count + 1 \in Nat \ {0} /\ Len(q) \in 0 .. Len(q)  BY <1>1, <1>2
  <2> QED  BY <2>1, Piece
<1> QED  BY <1>3, <1>4 DEF queue_payload_write, count

-----------------------------------------------------------------------------
(* FindIndex is the position of the first packet with the number. *)
LEMMA FindIndexPosition ==
  ASSUME NEW T, NEW q \in Seq(T), NEW s
  PROVE  /\ FindIndex(q, s) \in 0 .. Len(q)
         /\ FindIndex(q, s) # 0 => q[FindIndex(q, s)].seqNum = s
         /\ \A i \in 1 .. Len(q) :
              q[i].seqNum = s => FindIndex(q, s) # 0 /\ FindIndex(q, s) <= i
<1> DEFINE hits == {i \in 1 .. Len(q) : q[i].seqNum = s}
<1>1. Len(q) \in Nat  BY LenProperties
<1>2. CASE hits = {}  BY <1>1, <1>2 DEF FindIndex
<1>3. CASE hits # {}
  <2>1. hits \subseteq Nat  BY <1>1
  <2>2. Min(hits) \in hits /\ \A x \in hits : Min(hits) <= x
    <3> HIDE DEF hits
    <3> QED  BY <1>3, <2>1, MinOf
  <2>3. FindIndex(q, s) \in hits /\ \A x \in hits : FindIndex(q, s) <= x
    BY <1>3, <2>2 DEF FindIndex
  <2>4. FindIndex(q, s) \in 1 .. Len(q) /\ q[FindIndex(q, s)].seqNum = s
    BY <2>3
  <2>5. \A i \in 1 .. Len(q) : q[i].seqNum = s => FindIndex(q, s) <= i
    BY <2>3
  <2> QED  BY <1>1, <2>4, <2>5
<1> QED  BY <1>2, <1>3

(* queue_delete returns a part of the queue. *)
LEMMA DeleteType ==
  ASSUME NEW T, NEW q \in Seq(T), NEW s
  PROVE  queue_delete(q, s) \in Seq(T)
<1>1. Len(q) \in Nat  BY LenProperties
<1>2. FindIndex(q, s) \in 0 .. Len(q)  BY FindIndexPosition
<1>3. FindIndex(q, s) + 1 \in Nat \ {0} /\ Len(q) \in 0 .. Len(q)
  BY <1>1, <1>2
<1>4. SubSeq(q, FindIndex(q, s) + 1, Len(q)) \in Seq(T)  BY <1>3, Piece
<1> QED  BY <1>4, EmptySeq DEF queue_delete

-----------------------------------------------------------------------------
(* A queue of packets of the window that starts at the absolute number a,  *)
(* in the order of their absolute numbers.                                 *)
Ordered(q) == \A i, j \in 1 .. Len(q) : i < j => q[i].n < q[j].n

InWindowOf(p, a, size) ==
  /\ p.n \in Int /\ a <= p.n /\ p.n < a + size
  /\ p.seqNum = ToUint8(p.n)

Ahead(q, a, size) ==
  Ordered(q) /\ \A i \in 1 .. Len(q) : InWindowOf(q[i], a, size)

(* The numbers of such a queue grow at least as fast as the positions. *)
LEMMA Spread ==
  ASSUME NEW T, NEW q \in Seq(T), NEW a \in Int, NEW size \in Nat,
         Ahead(q, a, size)
  PROVE  \A i \in 1 .. Len(q) : q[i].n >= a + i - 1
<1> DEFINE S == {i \in 1 .. Len(q) : q[i].n < a + i - 1}
<1>1. Len(q) \in Nat  BY LenProperties
<1>2. \A i \in 1 .. Len(q) : q[i].n \in Int /\ a <= q[i].n
  BY DEF Ahead, InWindowOf
<1>3. S = {}
  <2> SUFFICES ASSUME S # {}  PROVE FALSE  OBVIOUS
  <2>1. PICK m \in S : \A i \in S : m <= i
    <3>1. S \subseteq Nat  BY <1>1
    <3> HIDE DEF S
    <3> QED  BY <3>1, MinOf
  <2>2. m \in 1 .. Len(q) /\ q[m].n < a + m - 1  BY <2>1
  <2>3. m - 1 \in 1 .. Len(q)  BY <1>1, <1>2, <2>2
  <2>4. m - 1 \notin S  BY <2>1, <2>2
  <2>5. q[m - 1].n >= a + (m - 1) - 1
    <3>1. ~ (q[m - 1].n < a + (m - 1) - 1)  BY <2>3, <2>4
    <3>2. q[m - 1].n \in Int /\ m \in Int /\ a \in Int
      BY <1>1, <1>2, <2>2, <2>3
    <3> QED  BY ONLY <3>1, <3>2
  <2>6. m \in Int /\ m - 1 < m  BY <1>1, <2>2
  <2>7. q[m - 1].n < q[m].n
    <3>1. Ordered(q)  BY DEF Ahead
    <3> HIDE DEF S
    <3> QED  BY <2>2, <2>3, <2>6, <3>1 DEF Ordered
  <2>8. q[m - 1].n \in Int /\ q[m].n \in Int  BY <1>2, <2>2, <2>3
  <2> HIDE DEF S
  <2> QED  BY <2>2, <2>5, <2>6, <2>7, <2>8
<1>4. \A i \in 1 .. Len(q) : ~ (q[i].n < a + i - 1)  BY <1>3
<1> SUFFICES ASSUME NEW i \in 1 .. Len(q)  PROVE q[i].n >= a + i - 1
  OBVIOUS
<1>5. i \in Int /\ q[i].n \in Int /\ ~ (q[i].n < a + i - 1)
  BY <1>1, <1>2, <1>4
<1> QED  BY <1>5

(* The position of queue_ordered_push is the one where the absolute number *)
(* belongs, also where the sequence numbers of the window wrap.            *)
LEMMA InsertIndexOrder ==
  ASSUME NEW T, NEW q \in Seq(T), NEW a \in Int, NEW size \in Nat \ {0},
         2 * size <= SeqSpace, Ahead(q, a, size),
         NEW n \in Int, a <= n, n < a + size
  PROVE  LET k == InsertIndex(q, ToUint8(n), ToUint8(a), size)
         IN  /\ k \in 1 .. Len(q) + 1
             /\ \A i \in 1 .. Len(q) : i < k => q[i].n < n
             /\ \A i \in 1 .. Len(q) : k <= i => n <= q[i].n
<1> DEFINE s         == ToUint8(n)
           wraps     == ToUint8(a) >= SeqSpace - size
           High(x)   == x >= SeqSpace - size
           Lows      == {i \in 1 .. Len(q) : ~ High(q[i].seqNum)}
           lowest    == FirstOf(q, Lows)
           start     == IF wraps /\ s < size - 1 THEN lowest ELSE 1
           Before(i) == /\ q[i].seqNum < s
                        /\ wraps /\ High(s) => High(q[i].seqNum)
           S         == {i \in start .. Len(q) : ~ Before(i)}
           k         == InsertIndex(q, s, ToUint8(a), size)
<1>1. Len(q) \in Nat  BY LenProperties
<1>2. \A i \in 1 .. Len(q) : InWindowOf(q[i], a, size)  BY DEF Ahead
<1>3. \A i, j \in 1 .. Len(q) : i < j => q[i].n < q[j].n
  BY DEF Ahead, Ordered
<1>4. ASSUME NEW i \in 1 .. Len(q)
      PROVE  /\ ~ wraps => (q[i].seqNum < s <=> q[i].n < n)
             /\ wraps /\ (High(q[i].seqNum) <=> High(s))
                  => (q[i].seqNum < s <=> q[i].n < n)
             /\ wraps /\ High(q[i].seqNum) /\ ~ High(s) => q[i].n < n
             /\ wraps /\ High(s) /\ ~ High(q[i].seqNum) => n < q[i].n
             /\ wraps => (s < size - 1 <=> ~ High(s))
  <2> DEFINE x == q[i].n
  <2>1. x \in Int /\ a <= x /\ x < a + size /\ q[i].seqNum = ToUint8(x)
    BY <1>2 DEF InWindowOf
  <2> HIDE DEF x
  <2>2. /\ ~ wraps => (ToUint8(x) < ToUint8(n) <=> x < n)
        /\ wraps /\ (High(ToUint8(x)) <=> High(ToUint8(n)))
             => (ToUint8(x) < ToUint8(n) <=> x < n)
        /\ wraps /\ High(ToUint8(x)) /\ ~ High(ToUint8(n)) => x < n
    BY <2>1, WindowOrder
  <2>3. /\ wraps /\ High(ToUint8(n)) /\ ~ High(ToUint8(x)) => n < x
        /\ wraps => (ToUint8(n) < size - 1 <=> ~ High(ToUint8(n)))
    BY <2>1, WindowOrder
  <2> QED  BY <2>1, <2>2, <2>3 DEF x
<1>5. /\ lowest \in 1 .. Len(q) + 1
      /\ Lows # {} => lowest \in Lows
      /\ Lows = {} => lowest = Len(q) + 1
      /\ \A i \in Lows : lowest <= i
  <2>1. Lows \in SUBSET (1 .. Len(q))  OBVIOUS
  <2> HIDE DEF Lows
  <2> QED  BY <2>1, FirstOfPosition
<1>6. ASSUME NEW i \in 1 .. Len(q), NEW j \in 1 .. Len(q), wraps,
             High(q[i].seqNum), ~ High(q[j].seqNum)
      PROVE  q[i].n < q[j].n
  <2> DEFINE x == q[i].n
             y == q[j].n
  <2>1. /\ x \in Int /\ a <= x /\ x < a + size /\ q[i].seqNum = ToUint8(x)
        /\ y \in Int /\ a <= y /\ y < a + size /\ q[j].seqNum = ToUint8(y)
    BY <1>2 DEF InWindowOf
  <2> HIDE DEF x, y
  <2>2. wraps /\ High(ToUint8(x)) /\ ~ High(ToUint8(y)) => x < y
    BY <2>1, WindowOrder
  <2> QED  BY <1>6, <2>1, <2>2 DEF x, y
<1> HIDE DEF Lows, lowest
<1>7. start \in 1 .. Len(q) + 1  BY <1>1, <1>5
(* Before the start of the search every number is smaller, and from there  *)
(* on Before decides as the absolute numbers do.                           *)
<1>8. /\ \A i \in 1 .. Len(q) : i < start => q[i].n < n
      /\ \A i \in start .. Len(q) : Before(i) <=> q[i].n < n
  <2>1. CASE wraps /\ s < size - 1
    <3>1. start = lowest  BY <2>1
    <3>2. ASSUME NEW i \in 1 .. Len(q), i < start  PROVE q[i].n < n
      <4>1. i \notin Lows  BY <1>1, <1>5, <3>1, <3>2
      <4>2. High(q[i].seqNum)  BY <4>1 DEF Lows
      <4> QED  BY <1>4, <2>1, <4>2
    <3>3. ASSUME NEW i \in start .. Len(q)
          PROVE  Before(i) <=> q[i].n < n
      <4>1. i \in 1 .. Len(q) /\ lowest \in 1 .. Len(q) /\ lowest <= i
        BY <1>1, <1>5, <3>1
      <4>2. lowest \in Lows  BY <1>1, <1>5, <4>1
      <4>3. ~ High(q[lowest].seqNum)  BY <4>2 DEF Lows
      <4>4. ~ High(q[i].seqNum)
        <5> SUFFICES ASSUME High(q[i].seqNum)  PROVE FALSE  OBVIOUS
        <5>1. q[i].n < q[lowest].n  BY <1>6, <2>1, <4>1, <4>3
        <5>2. q[lowest].n <= q[i].n
          <6>1. CASE lowest = i  BY <1>2, <4>1, <6>1 DEF InWindowOf
          <6>2. CASE lowest < i
            BY <1>2, <1>3, <4>1, <6>2 DEF InWindowOf
          <6> QED  BY <1>1, <4>1, <6>1, <6>2
        <5>3. q[i].n \in Int /\ q[lowest].n \in Int
          BY <1>2, <4>1 DEF InWindowOf
        <5> QED  BY <5>1, <5>2, <5>3
      <4> QED  BY <1>4, <2>1, <4>1, <4>4
    <3> QED  BY <3>2, <3>3
  <2>2. CASE ~ (wraps /\ s < size - 1)
    <3>1. start = 1  BY <2>2
    <3>2. ASSUME NEW i \in 1 .. Len(q)  PROVE Before(i) <=> q[i].n < n
      <4>1. q[i].n \in Int  BY <1>2 DEF InWindowOf
      <4> QED  BY <1>4, <2>2, <4>1
    <3>3. \A i \in 1 .. Len(q) : ~ (i < start)  BY <1>1, <3>1
    <3> QED  BY <3>1, <3>2, <3>3
  <2> QED  BY <2>1, <2>2
<1>9. S \in SUBSET (1 .. Len(q))
  <2> HIDE DEF start, Before
  <2> QED  BY <1>1, <1>7
<1>10. k = FirstOf(q, S)  BY DEF InsertIndex, lowest, Lows
<1> HIDE DEF start, Before
<1>11. /\ k \in 1 .. Len(q) + 1
       /\ S # {} => k \in S
       /\ S = {} => k = Len(q) + 1
       /\ \A i \in S : k <= i
  <2> HIDE DEF S
  <2> QED  BY <1>9, <1>10, FirstOfPosition
<1> HIDE DEF k
<1>12. ASSUME NEW i \in 1 .. Len(q), i < k  PROVE q[i].n < n
  <2>1. i \notin S  BY <1>1, <1>11, <1>12
  <2>2. CASE i < start  BY <1>8, <2>2
  <2>3. CASE start <= i
    <3>1. i \in start .. Len(q)  BY <1>1, <1>7, <2>3
    <3> QED  BY <1>8, <2>1, <3>1
  <2> QED  BY <1>1, <1>7, <2>2, <2>3
<1>13. ASSUME NEW i \in 1 .. Len(q), k <= i  PROVE n <= q[i].n
  <2>1. k \in 1 .. Len(q)  BY <1>1, <1>11, <1>13
  <2>2. k \in S  BY <1>1, <1>11, <2>1
  <2>3. ~ (q[k].n < n)  BY <1>8, <2>2
  <2>4. q[k].n \in Int /\ q[i].n \in Int  BY <1>2, <2>1 DEF InWindowOf
  <2>5. k = i \/ k < i  BY <1>1, <1>13, <2>1
  <2> QED  BY <1>3, <2>1, <2>3, <2>4, <2>5
<1> QED  BY <1>11, <1>12, <1>13 DEF k

(* queue_ordered_push keeps the queue in order, and what it holds          *)
(* afterwards is what it held before and, if pushed, the new packet.       *)
LEMMA PushOrder ==
  ASSUME NEW T, NEW q \in Seq(T), NEW a \in Int, NEW size \in Nat \ {0},
         2 * size <= SeqSpace, Ahead(q, a, size),
         NEW pkt \in T, InWindowOf(pkt, a, size)
  PROVE  LET push == queue_ordered_push(q, pkt, ToUint8(a), size)
         IN  /\ push.queue \in Seq(T)
             /\ Ahead(push.queue, a, size)
             /\ \A i \in 1 .. Len(push.queue) :
                  \/ push.queue[i] = pkt
                  \/ \E j \in 1 .. Len(q) : push.queue[i] = q[j]
             /\ ~ push.pushed => push.queue = q
<1> DEFINE push == queue_ordered_push(q, pkt, ToUint8(a), size)
           k    == InsertIndex(q, pkt.seqNum, ToUint8(a), size)
           new  == InsertAt(q, k, pkt)
<1>1. Len(q) \in Nat  BY LenProperties
<1>2. /\ pkt.n \in Int /\ a <= pkt.n /\ pkt.n < a + size
      /\ pkt.seqNum = ToUint8(pkt.n)
  BY DEF InWindowOf
<1>3. /\ k \in 1 .. Len(q) + 1
      /\ \A i \in 1 .. Len(q) : i < k => q[i].n < pkt.n
      /\ \A i \in 1 .. Len(q) : k <= i => pkt.n <= q[i].n
  BY <1>2, InsertIndexOrder
<1>4. /\ new \in Seq(T) /\ Len(new) = Len(q) + 1
      /\ \A i \in 1 .. Len(q) + 1 :
           new[i] = IF i < k THEN q[i] ELSE IF i = k THEN pkt ELSE q[i - 1]
  <2>1. k \in 1 .. Len(q) + 1  BY <1>3
  <2> HIDE DEF k
  <2>2. /\ InsertAt(q, k, pkt) \in Seq(T)
        /\ Len(InsertAt(q, k, pkt)) = Len(q) + 1
        /\ \A i \in 1 .. Len(q) + 1 :
             InsertAt(q, k, pkt)[i] = IF i < k THEN q[i]
                                      ELSE IF i = k THEN pkt ELSE q[i - 1]
    BY ONLY <2>1, Insertion, q \in Seq(T), pkt \in T
  <2> QED  BY <2>2
<1> DEFINE Result(r) ==
             /\ r.queue \in Seq(T)
             /\ Ahead(r.queue, a, size)
             /\ \A i \in 1 .. Len(r.queue) :
                  \/ r.queue[i] = pkt
                  \/ \E j \in 1 .. Len(q) : r.queue[i] = q[j]
             /\ ~ r.pushed => r.queue = q
<1>5. ASSUME k <= Len(q) /\ q[k].seqNum = pkt.seqNum
      PROVE  Result(push)
  <2>1. push = [pushed |-> FALSE, queue |-> q]
    BY <1>5 DEF queue_ordered_push
  <2>2. push.queue = q /\ push.pushed = FALSE  BY <2>1
  <2> HIDE DEF push
  <2> QED  BY <2>2
<1>6. ASSUME ~ (k <= Len(q) /\ q[k].seqNum = pkt.seqNum)
      PROVE  Result(push)
  <2>1. push = [pushed |-> TRUE, queue |-> new]
    BY <1>6 DEF queue_ordered_push
  <2>2. push.queue = new /\ push.pushed = TRUE  BY <2>1
  <2> HIDE DEF push, new, k
  <2>3. \A i \in 1 .. Len(q) : InWindowOf(q[i], a, size)  BY DEF Ahead
  <2>4. \A i, j \in 1 .. Len(q) : i < j => q[i].n < q[j].n
    BY DEF Ahead, Ordered
  <2>5. \A i \in 1 .. Len(q) : q[i].n \in Int  BY <2>3 DEF InWindowOf
  <2>6. \A i \in 1 .. Len(q) : k <= i => pkt.n < q[i].n
    <3> SUFFICES ASSUME NEW i \in 1 .. Len(q), k <= i
                 PROVE  pkt.n < q[i].n
      OBVIOUS
    <3>1. k \in 1 .. Len(q)  BY <1>1, <1>3
    <3>2. q[k].n # pkt.n  BY <1>2, <1>6, <2>3, <3>1 DEF InWindowOf
    <3>3. pkt.n < q[k].n
      <4>1. k <= k /\ pkt.n <= q[k].n  BY ONLY <1>1, <1>3, <3>1
      <4> QED  BY ONLY <1>2, <2>5, <3>1, <3>2, <4>1
    <3>4. k = i \/ q[k].n < q[i].n  BY <2>4, <3>1
    <3> QED  BY <1>2, <2>5, <3>1, <3>3, <3>4
  <2>7. ASSUME NEW i \in 1 .. Len(q) + 1
        PROVE  \/ i < k /\ i \in 1 .. Len(q) /\ new[i] = q[i]
               \/ i = k /\ new[i] = pkt
               \/ k < i /\ i - 1 \in 1 .. Len(q) /\ new[i] = q[i - 1]
    BY <1>1, <1>3, <1>4
  <2>8. \A i \in 1 .. Len(new) :
          \/ new[i] = pkt
          \/ \E j \in 1 .. Len(q) : new[i] = q[j]
    BY <1>4, <2>7
  <2>9. \A i \in 1 .. Len(new) : InWindowOf(new[i], a, size)
    BY <2>3, <2>8
  <2>10. ASSUME NEW i \in 1 .. Len(new), NEW j \in 1 .. Len(new), i < j
         PROVE  new[i].n < new[j].n
    <3>1. i \in 1 .. Len(q) + 1 /\ j \in 1 .. Len(q) + 1  BY <1>4
    <3>2. CASE i < k /\ i \in 1 .. Len(q) /\ new[i] = q[i]
      <4>1. CASE j < k /\ j \in 1 .. Len(q) /\ new[j] = q[j]
        BY <2>4, <2>10, <3>2, <4>1
      <4>2. CASE j = k /\ new[j] = pkt  BY <1>3, <3>2, <4>2
      <4>3. CASE k < j /\ j - 1 \in 1 .. Len(q) /\ new[j] = q[j - 1]
        <5>1. i < j - 1  BY <1>1, <1>3, <3>1, <3>2, <4>3
        <5> QED  BY <2>4, <3>2, <4>3, <5>1
      <4> QED  BY <2>7, <3>1, <4>1, <4>2, <4>3
    <3>3. CASE i = k /\ new[i] = pkt
      <4>1. k < j  BY <2>10, <3>3
      <4>2. j - 1 \in 1 .. Len(q) /\ new[j] = q[j - 1]
        BY <1>1, <1>3, <2>7, <3>1, <4>1
      <4>3. k <= j - 1  BY <1>1, <1>3, <3>1, <4>1
      <4> QED  BY <2>6, <3>3, <4>2, <4>3
    <3>4. CASE k < i /\ i - 1 \in 1 .. Len(q) /\ new[i] = q[i - 1]
      <4>1. k < j  BY <1>1, <1>3, <2>10, <3>1, <3>4
      <4>2. j - 1 \in 1 .. Len(q) /\ new[j] = q[j - 1]
        BY <1>1, <1>3, <2>7, <3>1, <4>1
      <4>3. i - 1 < j - 1  BY <1>1, <2>10, <3>1
      <4> QED  BY <2>4, <3>4, <4>2, <4>3
    <3> QED  BY <2>7, <3>1, <3>2, <3>3, <3>4
  <2>11. Ahead(new, a, size)  BY <2>9, <2>10 DEF Ahead, Ordered
  <2> QED  BY <1>4, <2>2, <2>8, <2>11
<1> QED  BY <1>5, <1>6

(* The packets of q numbered a, a + 1, ... and the ones after a gap. *)
Splits(q, a, run, rest) ==
  /\ \A i \in 1 .. Len(run) : run[i].n = a + i - 1
  /\ \A i \in 1 .. Len(rest) : a + Len(run) < rest[i].n
  /\ Ordered(rest)
  /\ \A i \in 1 .. Len(run) : \E j \in 1 .. Len(q) : run[i] = q[j]
  /\ \A i \in 1 .. Len(rest) : \E j \in 1 .. Len(q) : rest[i] = q[j]

(* queue_payload_write writes the packets a, a + 1, ... that are at the    *)
(* head of the queue, and keeps those that come after a gap.               *)
LEMMA PayloadWriteOrder ==
  ASSUME NEW T, NEW q \in Seq(T), NEW a \in Int, NEW size \in Nat \ {0},
         size <= SeqSpace, Ahead(q, a, size)
  PROVE  Splits(q, a, queue_payload_write(q, ToUint8(a)).written,
                      queue_payload_write(q, ToUint8(a)).queue)
<1> DEFINE S    == {i \in 1 .. Len(q) : q[i].seqNum # Plus(ToUint8(a), i - 1)}
           c    == RunLength(q, ToUint8(a))
           run  == SubSeq(q, 1, c)
           rest == SubSeq(q, c + 1, Len(q))
<1>1. Len(q) \in Nat  BY LenProperties
<1>2. \A i \in 1 .. Len(q) : InWindowOf(q[i], a, size)  BY DEF Ahead
<1>3. \A i, j \in 1 .. Len(q) : i < j => q[i].n < q[j].n
  BY DEF Ahead, Ordered
<1>4. /\ FirstOf(q, S) \in 1 .. Len(q) + 1
      /\ S # {} => FirstOf(q, S) \in S
      /\ S = {} => FirstOf(q, S) = Len(q) + 1
      /\ \A i \in S : FirstOf(q, S) <= i
  <2>1. S \in SUBSET (1 .. Len(q))  OBVIOUS
  <2> HIDE DEF S
  <2> QED  BY <2>1, FirstOfPosition
<1>5. c = FirstOf(q, S) - 1  BY DEF RunLength
(* A packet is in its place exactly when its absolute number is.           *)
<1>6. ASSUME NEW i \in 1 .. Len(q)
      PROVE  i \in S <=> q[i].n # a + i - 1
  <2>1. /\ q[i].n \in Int /\ a <= q[i].n /\ q[i].n < a + size
        /\ q[i].seqNum = ToUint8(q[i].n)
    BY <1>2 DEF InWindowOf
  <2>2. q[i].n >= a + i - 1  BY Spread
  <2>3. i - 1 \in Int /\ a + (i - 1) \in Int /\ i \in Int /\ i >= 1
    BY <1>1
  <2>4. Plus(ToUint8(a), i - 1) = ToUint8(a + (i - 1))
    BY <2>3, PlusRemainder
  <2> DEFINE x == q[i].n
             y == a + (i - 1)
  <2>5. x - y < SeqSpace /\ y - x < SeqSpace
    BY <2>1, <2>2, <2>3, SeqSpaceAssumption
  <2>6. y = a + i - 1  BY <2>3
  <2>7. x \in Int /\ y \in Int  BY <2>1, <2>3
  <2>8. i \in S <=> ToUint8(x) # ToUint8(y)  BY <2>1, <2>4
  <2>9. x # y => ToUint8(x) # ToUint8(y)
    <3> HIDE DEF x, y
    <3> QED  BY <2>5, <2>7, SameRemainder
  <2> HIDE DEF S
  <2> QED  BY <2>6, <2>8, <2>9
<1> HIDE DEF S, c
<1>7. c \in 0 .. Len(q)  BY <1>1, <1>4, <1>5
<1>8. /\ run \in Seq(T) /\ Len(run) = c
      /\ \A i \in 1 .. c : run[i] = q[i]
  <2>1. /\ run \in Seq(T)
        /\ Len(run) = IF 1 <= c THEN c - 1 + 1 ELSE 0
        /\ \A i \in 1 .. c - 1 + 1 : run[i] = q[1 + i - 1]
    BY <1>7, Piece
  <2> QED  BY <1>1, <1>7, <2>1
<1>9. /\ rest \in Seq(T) /\ Len(rest) = Len(q) - c
      /\ \A i \in 1 .. Len(q) - c : rest[i] = q[c + i]
  <2>1. c + 1 \in Nat \ {0} /\ Len(q) \in 0 .. Len(q)  BY <1>1, <1>7
  <2>2. /\ rest \in Seq(T)
        /\ Len(rest) = IF c + 1 <= Len(q) THEN Len(q) - (c + 1) + 1 ELSE 0
        /\ \A i \in 1 .. Len(q) - (c + 1) + 1 : rest[i] = q[(c + 1) + i - 1]
    BY <2>1, Piece
  <2> QED  BY <1>1, <1>7, <2>2
<1> HIDE DEF run, rest
<1>10. \A i \in 1 .. c : i \in 1 .. Len(q) /\ q[i].n = a + i - 1
  <2> SUFFICES ASSUME NEW i \in 1 .. c
               PROVE  i \in 1 .. Len(q) /\ q[i].n = a + i - 1
    OBVIOUS
  <2>1. i \in 1 .. Len(q) /\ i < FirstOf(q, S)  BY <1>1, <1>4, <1>5, <1>7
  <2>2. i \notin S  BY <1>4, <2>1
  <2> QED  BY <1>6, <2>1, <2>2
<1>11. \A i \in 1 .. Len(q) : c < i => a + c < q[i].n
  <2> SUFFICES ASSUME NEW i \in 1 .. Len(q), c < i  PROVE a + c < q[i].n
    OBVIOUS
  <2>1. c + 1 \in 1 .. Len(q) /\ FirstOf(q, S) = c + 1
    BY <1>1, <1>4, <1>5, <1>7
  <2>2. c + 1 \in S  BY <1>1, <1>4, <2>1
  <2>3. q[c + 1].n # a + (c + 1) - 1  BY <1>6, <2>1, <2>2
  <2>4. q[c + 1].n >= a + (c + 1) - 1  BY <2>1, Spread
  <2>5. q[c + 1].n \in Int /\ q[i].n \in Int
    BY <1>2, <2>1 DEF InWindowOf
  <2>6. a + c < q[c + 1].n  BY <1>7, <2>3, <2>4, <2>5
  <2>7. i = c + 1 \/ q[c + 1].n < q[i].n  BY <1>1, <1>3, <1>7, <2>1
  <2> QED  BY <1>7, <2>5, <2>6, <2>7
<1>12. \A i \in 1 .. Len(rest) : c + i \in 1 .. Len(q) /\ rest[i] = q[c + i]
  BY <1>1, <1>7, <1>9
<1>13. \A i \in 1 .. Len(rest) : a + c < rest[i].n
  <2> SUFFICES ASSUME NEW i \in 1 .. Len(rest)  PROVE a + c < rest[i].n
    OBVIOUS
  <2>1. c < c + i  BY <1>1, <1>7, <1>9
  <2> QED  BY <1>11, <1>12, <2>1
<1>14. Ordered(rest)
  <2> SUFFICES ASSUME NEW i \in 1 .. Len(rest), NEW j \in 1 .. Len(rest),
                      i < j
               PROVE  rest[i].n < rest[j].n
    BY DEF Ordered
  <2>1. c + i < c + j  BY <1>1, <1>7, <1>9
  <2> QED  BY <1>3, <1>12, <2>1
<1> DEFINE out == queue_payload_write(q, ToUint8(a))
<1>15. out.written = run /\ out.queue = rest
  BY DEF queue_payload_write, run, rest, c
<1>16. /\ \A i \in 1 .. c : run[i].n = a + i - 1
       /\ \A i \in 1 .. c : \E j \in 1 .. Len(q) : run[i] = q[j]
       /\ \A i \in 1 .. Len(rest) : \E j \in 1 .. Len(q) : rest[i] = q[j]
  BY <1>8, <1>10, <1>12
<1>17. Splits(q, a, run, rest)
  BY <1>8, <1>13, <1>14, <1>16 DEF Splits
<1> QED  BY <1>15, <1>17
=============================================================================
