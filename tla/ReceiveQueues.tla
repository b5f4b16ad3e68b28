--------------------------- MODULE ReceiveQueues ----------------------------
(***************************************************************************)
(* What the receiver's two queues are for, as the model of the receiver    *)
(* uses them: the packets that arrived ahead of the one waited for, and    *)
(* the replies that are not sent yet.  The last operation is part of the   *)
(* state, so that an implementation has to do just what it was asked to.   *)
(***************************************************************************)
EXTENDS QueueReceiver

CONSTANT realWindowSize

VARIABLES
  waited,   \* the number waited for
  early,    \* the packets that arrived ahead of it
  replies,  \* the replies
  op        \* the last operation, and what it returned

Packet(s) == [seqNum |-> s]

Init == /\ waited \in Uint8 /\ early = << >> /\ replies = << >>
        /\ op = [name |-> "init"]

(* A packet is queued, and those whose turn it is are written. *)
Arrive(s) ==
  LET push == queue_ordered_push(early, Packet(s), waited, realWindowSize)
      out  == queue_payload_write(push.queue, waited)
  IN  /\ op' = [name |-> "arrive", arg |-> s, ret |->
                  IF push.pushed THEN ToUint8(Len(out.written)) ELSE -1]
      /\ push.pushed => /\ early' = out.queue
                        /\ waited' = Plus(waited, Len(out.written))
      /\ ~ push.pushed => UNCHANGED <<early, waited>>
      /\ UNCHANGED replies

(* There is no memory for it. *)
Refuse(s) ==
  /\ op' = [name |-> "arrive", arg |-> s, ret |-> -1]
  /\ UNCHANGED <<early, waited, replies>>

Reply(s) ==
  /\ op' \in [name : {"reply"}, arg : {s}, ret : {0, -1}]
  /\ replies' = IF op'.ret = 0 THEN Append(replies, Packet(s)) ELSE replies
  /\ UNCHANGED <<early, waited>>

Send ==
  /\ replies # << >> /\ replies' = Tail(replies)
  /\ op' = [name |-> "send", ret |-> Head(replies).seqNum]
  /\ UNCHANGED <<early, waited>>

Free == /\ early' = << >> /\ replies' = << >>
        /\ op' = [name |-> "free"] /\ UNCHANGED waited

Next == Send \/ Free \/ \E s \in Uint8 : Arrive(s) \/ Refuse(s) \/ Reply(s)

Spec == Init /\ [][Next]_<<waited, early, replies, op>>
=============================================================================
