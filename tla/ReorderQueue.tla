---------------------------- MODULE ReorderQueue ----------------------------
(***************************************************************************)
(* queue_ordered_push and queue_payload_write as the receiver calls them,  *)
(* for whatever packet of the window arrives next.  They implement a set   *)
(* of numbers (ReorderSet), wherever in the uint8_t range the window lies. *)
(***************************************************************************)
EXTENDS QueueReceiver

CONSTANT MAX_BUFFER_SIZE

ASSUME ReorderQueueAssumption ==
  MAX_BUFFER_SIZE \in Nat \ {0} /\ MAX_BUFFER_SIZE < SeqSpace

VARIABLES
  waited,   \* the number waited for
  q         \* the queue

vars == <<waited, q>>

Distance(s) == Minus(s, waited)

Init == waited \in Uint8 /\ q = << >>

Arrive(s) ==
  LET push == queue_ordered_push(q, [seqNum |-> s], waited, MAX_BUFFER_SIZE)
      out  == queue_payload_write(push.queue, waited)
  IN  /\ push.pushed
      /\ q' = out.queue
      /\ waited' = Plus(waited, Len(out.written))

(* A number that is queued already is refused: nothing is written. *)
ArriveTwice(s) ==
  /\ ~ queue_ordered_push(q, [seqNum |-> s], waited, MAX_BUFFER_SIZE).pushed
  /\ UNCHANGED vars

Next == \E s \in {x \in Uint8 : InWindow(x, waited, MAX_BUFFER_SIZE)} :
           Arrive(s) \/ ArriveTwice(s)

Spec == Init /\ [][Next]_vars

(* The queue is in the order of the distance to the number waited for,     *)
(* without duplicates: it cannot stop queue_payload_write short of a       *)
(* number it holds (queue_receiver.c:74-154, 217).                         *)
QueueSorted ==
  \A i, j \in 1 .. Len(q) :
     i < j => Distance(q[i].seqNum) < Distance(q[j].seqNum)

RS == INSTANCE ReorderSet WITH
        next <- waited, held <- {q[i].seqNum : i \in 1 .. Len(q)}

(* Whatever arrives in whatever order, the number waited for moves past    *)
(* every number that has arrived without a gap, also from 255 to 0, never  *)
(* past a missing one, and the queue forgets no number it did not write    *)
(* (queue_receiver.c:54-155, 212-243).                                     *)
ImplementsReorderSet == RS!Spec
=============================================================================
