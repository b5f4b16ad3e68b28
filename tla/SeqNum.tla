------------------------------- MODULE SeqNum -------------------------------
(***************************************************************************)
(* Sequence numbers.  Every sequence number of the program, and every      *)
(* distance between two of them, is a uint8_t: the C expressions are       *)
(* computed as int and cut back to 8 bits by the assignment.  SeqSpace is    *)
(* the number of values of that type (256); the model checker uses smaller *)
(* moduli, the proofs any modulus.                                         *)
(***************************************************************************)
EXTENDS Integers

CONSTANT SeqSpace

ASSUME SeqSpaceAssumption == SeqSpace \in Nat \ {0}

Uint8 == 0 .. SeqSpace - 1

(* The value that is stored when the int x is assigned to a uint8_t. *)
ToUint8(x) == x % SeqSpace

\* A mistaken sum, kept in an int.
PlusWide(a, b) == a + b

Plus(a, b)  == ToUint8(a + b)
Minus(a, b) == ToUint8(a - b)

(***************************************************************************)
(* The window test both loops make: s lies at most size - 1 above `first'  *)
(* (distInf), and at most size - 1 below the last number of the window     *)
(* (distSup).                                                              *)
(***************************************************************************)
\* A mistaken test, without the distance to the beginning of the window.
InWindowSupOnly(s, first, size) == Minus(first + size - 1, s) <= size

InWindow(s, first, size) ==
  LET distInf == Minus(s, first)
      distSup == Minus(first + size - 1, s)
  IN  distInf < size /\ distSup < size
=============================================================================
