----------------------------- MODULE ReorderSet -----------------------------
(***************************************************************************)
(* What the receiver's queue is for: a set of numbers that arrived before  *)
(* their turn, from which those that follow on the next one are released.  *)
(***************************************************************************)
EXTENDS SeqNum

CONSTANT MAX_BUFFER_SIZE

VARIABLES
  next,  \* the number whose turn it is
  held   \* the numbers that arrived before their turn

Window == {Plus(next, i) : i \in 0 .. MAX_BUFFER_SIZE - 1}

(* How many numbers of S follow on `next' without a gap. *)
Following(S) ==
  CHOOSE k \in 0 .. MAX_BUFFER_SIZE :
    /\ \A i \in 0 .. k - 1 : Plus(next, i) \in S
    /\ k = MAX_BUFFER_SIZE \/ Plus(next, k) \notin S

Init == next \in Uint8 /\ held = {}

Arrive(s) ==
  LET all == held \cup {s}
      k   == Following(all)
  IN  /\ held' = all \ {Plus(next, i) : i \in 0 .. k - 1}
      /\ next' = Plus(next, k)

Spec == Init /\ [][\E s \in Window : Arrive(s)]_<<next, held>>
=============================================================================
