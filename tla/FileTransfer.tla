---------------------------- MODULE FileTransfer ----------------------------
(***************************************************************************)
(* What the two programs promise together, without packets, windows or     *)
(* acknowledgements: a file is copied piece after piece, and each side may *)
(* end in one of two ways, of which the successful one says that the copy  *)
(* is complete.  The sender and the receiver may also give up, at any      *)
(* moment, and one may succeed where the other gives up; the promise is    *)
(* what success means.                                                     *)
(***************************************************************************)
EXTENDS Naturals, Sequences

CONSTANTS
  Chunks,   \* the length of the file, in payloads
  MaxBurst  \* the most payloads written to the copy in one step

VARIABLES
  copy,            \* the pieces written so far
  senderStatus,    \* "running", "acked" or "gaveup"
  receiverStatus   \* "running", "final" or "gaveup"

File == [i \in 1 .. Chunks |-> i - 1]

Complete == copy = File

Init == /\ copy = << >>
        /\ senderStatus = "running" /\ receiverStatus = "running"

Write ==
  /\ receiverStatus = "running"
  /\ \E k \in 1 .. MaxBurst :
       /\ Len(copy) + k <= Chunks
       /\ copy' = SubSeq(File, 1, Len(copy) + k)
  /\ UNCHANGED <<senderStatus, receiverStatus>>

SenderEnds ==
  /\ senderStatus = "running"
  /\ senderStatus' \in {"gaveup"} \cup (IF Complete THEN {"acked"} ELSE {})
  /\ UNCHANGED <<copy, receiverStatus>>

ReceiverEnds ==
  /\ receiverStatus = "running"
  /\ receiverStatus' \in {"gaveup"} \cup (IF Complete THEN {"final"} ELSE {})
  /\ UNCHANGED <<copy, senderStatus>>

Next == Write \/ SenderEnds \/ ReceiverEnds

Spec == Init /\ [][Next]_<<copy, senderStatus, receiverStatus>>
=============================================================================
