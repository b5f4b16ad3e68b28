-------------------------------- MODULE Link --------------------------------
(***************************************************************************)
(* The UDP path between the two programs, with the link simulator the      *)
(* tests put on it.  None of it is code under src/: it is what read, write *)
(* and poll on the two connected sockets may do.  A datagram in transit    *)
(* may be lost, delayed, reordered, duplicated, corrupted or truncated.    *)
(*                                                                         *)
(* A packet carries, next to the fields of the protocol, the absolute      *)
(* number n of its sequence number (the count of packets numbered before   *)
(* it), which the programs never see: it stands for the payload, and says  *)
(* what a sequence number meant when it was written.                       *)
(***************************************************************************)
EXTENDS SeqNum

CONSTANTS
  MAX_BUFFER_SIZE,  \* the window the receiver announces (31 in receiver.c)
  LinkFaults,       \* what this link may do to a datagram
  MaxLag            \* how far behind the newest packet a number may arrive

ASSUME LinkAssumption ==
  /\ MAX_BUFFER_SIZE \in Nat \ {0}
  /\ MaxLag \in Nat
  /\ LinkFaults \subseteq {"loss", "dup", "corrupt", "truncate"}

VARIABLES
  data,     \* the DATA datagrams on their way to the receiver
  acks,     \* the ACK and NACK datagrams on their way to the sender
  rIn,      \* the datagram at the head of the receiver's socket buffer
  sIn,      \* the datagram at the head of the sender's socket buffer
  created   \* how many packets were given a sequence number so far

linkVars == <<data, acks, rIn, sIn, created>>

EOF_LENGTH == 0  \* the length of the packet that marks the end of the file
GARBAGE    == 2  \* bytes that no decoder accepts

DataPacket == [seqNum : Uint8, length : {EOF_LENGTH, 1, GARBAGE}, n : Nat]
AckPacket  == [type : {"ACK", "NACK"}, seqNum : Uint8,
               window : {MAX_BUFFER_SIZE}, n : Nat]

ReadablePacket == {d \in DataPacket : d.length # GARBAGE}

NoInput == [status |-> "none"]
Garbled == [status |-> "bad"]
Intact(d)    == [status |-> "ok", pkt |-> d]
Truncated(d) == [status |-> "tr", pkt |-> d]

LinkTypeOK ==
  /\ data \subseteq DataPacket
  /\ acks \subseteq AckPacket
  /\ rIn \in {NoInput, Garbled}
       \cup [status : {"ok", "tr"}, pkt : ReadablePacket]
  /\ sIn \in {NoInput, Garbled} \cup [status : {"ok"}, pkt : AckPacket]
  /\ created \in Nat

LinkInit ==
  /\ data = {} /\ acks = {}
  /\ rIn = NoInput /\ sIn = NoInput
  /\ created = 0

If(fault, S) == IF fault \in LinkFaults THEN S ELSE {}

(* What net may be after d was written to the socket. *)
Sent(net, d) == {net \cup {d}} \cup If("loss", {net})

(* The datagrams that can still arrive when count packets are numbered:    *)
(* none arrives once more than MaxLag packets were numbered after its own. *)
Alive(net, count) == {d \in net : count - d.n <= MaxLag}

(* What net may be after d was taken out of it by its receiver's socket. *)
Taken(net, d) == {net \ {d}} \cup If("dup", {net})

(* The kernel puts a datagram in the empty head of a socket buffer. *)
ArriveAtReceiver ==
  \/ UNCHANGED <<data, rIn>>
  \/ /\ rIn = NoInput
     /\ \E d \in Alive(data, created) :
          /\ data' \in Taken(data, d)
          /\ rIn' \in (IF d.length = GARBAGE THEN {Garbled}
                       ELSE {Intact(d)} \cup If("corrupt", {Garbled})
                              \cup If("truncate", {Truncated(d)}))

ArriveAtSender ==
  \/ UNCHANGED <<acks, sIn>>
  \/ /\ sIn = NoInput
     /\ \E a \in Alive(acks, created) :
          /\ acks' \in Taken(acks, a)
          /\ sIn' \in {Intact(a)} \cup If("corrupt", {Garbled})
=============================================================================
