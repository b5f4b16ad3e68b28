----------------------------- MODULE SendQueue ------------------------------
(***************************************************************************)
(* What the sender's queue is for: the packets that are not acknowledged,  *)
(* in the order they were numbered, as the model of the sender uses it.    *)
(* The last operation is part of the state, so that an implementation has  *)
(* to do just what it was asked to.                                        *)
(***************************************************************************)
EXTENDS QueueSender

VARIABLES
  q,   \* the packets
  op   \* the last operation, and what it returned

Init == q = << >> /\ op = [name |-> "init"]

Push(s) ==
  /\ \/ /\ op' = [name |-> "push", arg |-> s, ret |-> 0]
        /\ q' = queue_push(q, [seqNum |-> s, age |-> 0])
     \/ op' = [name |-> "push", arg |-> s, ret |-> -1] /\ q' = q

Delete(s) ==
  /\ op' = [name |-> "delete", arg |-> s, ret |-> Len(q) - Len(q')]
  /\ q' = queue_delete(q, s)

Found(s) == IF queue_find_ack(q, s) THEN 1 ELSE 0

FindNack(s) ==
  /\ op' = [name |-> "nack", arg |-> s, ret |-> Found(s)]
  /\ q' = queue_find_nack(q, s)

FindAck(s) ==
  /\ op' = [name |-> "ack", arg |-> s, ret |-> Found(s)]
  /\ q' = q

IsEmpty ==
  /\ q' = q
  /\ op' = [name |-> "isempty", ret |-> IF q = << >> THEN 0 ELSE 1]

Free == op' = [name |-> "free"] /\ q' = << >>

Next == IsEmpty \/ Free
        \/ \E s \in Uint8 : Push(s) \/ Delete(s) \/ FindNack(s) \/ FindAck(s)

Spec == Init /\ [][Next]_<<q, op>>
=============================================================================
