# A TLA+ verification of a selective-repeat file transfer over UDP

The repository holds two C programs: `sender` reads a file and sends it in
packets over UDP, `receiver` writes what arrives to a file.  The protocol is
selective repeat with cumulative acknowledgements, negative acknowledgements for
truncated packets, 8-bit sequence numbers and a window of at most 31 packets.
This directory models both programs and the path between them in TLA+, checks
small instances with TLC and proves theorems for every instance with TLAPS.

- [The system](#the-system): its parts, their state and how they interact
- [The modules](#the-modules): which module models what, and how
- [The runs](#the-runs): what each model-checking run shows, with its bounds
- [Fairness](#fairness)
- [The proofs](#the-proofs)
- [What the code does differently from what it says](#what-the-code-does-differently-from-what-it-says)
- [What is not modelled](#what-is-not-modelled)
- [Plan](#plan)

## The system

| Part | Source | State | Operations |
|---|---|---|---|
| sender loop | `src/src/sender.c` 41-341 | `seqNum`, `size_buffer` (the window), `timer`, `tpGlobal`, `firstAck`, `isLastAckNum`, the position in the file | send the next packet, send the end, retransmit one packet, read one ACK or NACK, give up after 10 s |
| sender queue | `queue_sender.c` | linked list of the packets that are not acknowledged | push, pop, delete up to a number, look up, reset a timestamp |
| receiver loop | `receiver.c` 19-250 | `waitedSeqNum`, `finalSeqNum`, `isFinalSeqNum`, `tpGlobal`, the file written | write the queued ACKs, read one packet (invalid, truncated, outside the window, end of file, payload), give up after 10 s |
| receiver queues | `queue_receiver.c` | linked lists of early packets and of ACKs to send | ordered push, push, pop, write what is in order |
| connection | `wait_for_client.c` | none | wait for the first datagram and connect to its address |
| packet format | `packet_implem.c` | none | encode, decode |
| addresses, sockets, command lines | `real_address.c`, `create_socket.c`, both `main`s | none | system calls, once |

The two programs share nothing.  They exchange datagrams that the network may
lose, duplicate, delay, reorder, corrupt or truncate; `tests/test.sh` puts a link
simulator between them that does all of this.  Each is one thread that polls its
socket and then takes some of the following steps, each of which is one action
of the models:

```
 sender    poll --> send a new packet --> retransmit one --> read one reply --.
            ^------------------------------------------------------------------'
 receiver  wait for the first datagram;
           poll --> write every queued ACK --> read one packet --.
            ^----------------------------------------------------'
```

What is hard in it:

- **Reused numbers.**  A sequence number is a `uint8_t`.  An old packet or ACK
  names, with the same number, a packet 256 later.  Both loops compare 8-bit
  distances (`distInf`, `distSup`) to keep them apart.
- **The wrap in the receiver's queue.**  Packets of one window may lie on both
  sides of 255/0; `queue_ordered_push` treats three cases by comparing numbers.
- **The end.**  The packet of length 0 may arrive before, among or after the last
  payloads; the last ACK is recognised on two paths of the receiver, is sent
  once, and may be lost.  The sender recognises it by its number alone.
- **Two outdated views.**  The window size, the age of a packet and the head of
  the queue are used by the sender when an ACK arrives that was written at any
  earlier moment.
- **Partial failure.**  A failed read of the file, a failed write, a socket
  error, a `malloc` without memory: most are reported and followed by the code
  for success, with what is there -- the reply that was read before, the `revents`
  of an earlier poll, a packet that was sent and not kept.
- **Pointers.**  Both queues are linked lists written by hand; `queue_ordered_push`
  has three searches in one function, the sender's list keeps a pointer to its
  last node that dangles when the list is empty, and the functions differ in
  who frees a packet that could not be queued.
- **Buffers that are reused.**  A packet is encoded again and again from one
  structure, and every reply is decoded from the same twelve bytes, whatever
  read stored in them.

For each part, what makes it correct: the receiver's queue yields every number
once and in order (`ReorderQueue`); what is written is a prefix of the file
(`DeliveredPrefix`); the sender forgets only what has been delivered
(`NoPrematureDelete`, `DeletesWhatWasMeant`) and never outruns the receiver's
room (`WithinReceiverWindow`); success on either side means a complete copy
(`AckedMeansDelivered`, `FinalMeansComplete`, `ImplementsFileTransfer`); the
transfer completes on a fair link and both programs end (`Completes`,
`BothEnd`); calls that fail cost no more than what they were to carry
(`SafeIfKept`, `WrittenOnce`, `EndMeansReached`,
`LossIsCounted`); a decoder accepts what was encoded
and nothing else (`RoundTrip`, `NothingForged`); the lists are well formed and
implement the sequences (`WellFormed`, `ImplementsSendQueue`,
`ImplementsReceiveQueues`); each loop starts with a socket of its own and the right
peer (`PeerIsFirst`, `FileIsNotSocket`).  `PROJECT.json` lists every hazard with its line and the properties
that would catch it.  Some of what it says it does not keep
([below](#what-the-code-does-differently-from-what-it-says)).

## The modules

```
 SeqNum            uint8_t arithmetic, the window test
  |-- QueueSender      the sender's queue
  |-- QueueReceiver    the receiver's queue
  |     '-- ReorderQueue   a driver of the queue alone;  implements ReorderSet
  '-- Link             the network and the two socket buffers
        |-- Sender         sender.c      (with QueueSender)
        |-- Receiver       receiver.c    (with QueueReceiver)
              '-- Transfer     both, and time;  implements FileTransfer
                    '-- TransferInvariant   why it is correct: SafetyInv
                          |-- MCTransfer          instances for TLC
                          '-- Faults              the same with failing calls

 LinkedList        nodes and packets in memory
  |-- SenderList       queue_sender.c, node by node;    implements SendQueue
  '-- ReceiverList     queue_receiver.c, node by node;  implements ReceiveQueues
 SendQueue         a client of QueueSender
 ReceiveQueues     a client of QueueReceiver

 Codec             packet_implem.c
  '-- PacketPath       the buffers a packet passes through
 Setup             both mains, real_address.c, create_socket.c, wait_for_client.c
  '-- MCSetup          its command lines

 proofs:  QueueTheorems --> TransferTheorems    (with the theorems about Faults)
            '-- ReorderQueueTheorems
          LinkedListTheorems --> SenderListTheorems
            '-- ReceiverListTheorems
          PacketTheorems, SetupTheorems
```

**SeqNum.**  `Plus` and `Minus` are the C sums and differences that are assigned
to a `uint8_t`; `InWindow` is the test of receiver.c:153-158 and
sender.c:309-314.  The number of values, 256 in C, is the constant `SeqSpace`, so
that TLC can reach the wrap with few packets.

**QueueSender, QueueReceiver.**  The linked lists are sequences.  Each operator
has the name of its C function and returns the new list and, where the caller
looks at it, the result.  `queue_delete` also models that a number that is not
in the queue empties it, which the C loop does.  `InsertIndex` is the position
the three searches of `queue_ordered_push` arrive at.

**Link.**  `data` and `acks` are the datagrams under way, `rIn` and `sIn` the
datagram at the head of each socket buffer.  A datagram arrives when a program
polls.  What it may become is chosen by `LinkFaults`: "loss" (dropped when
sent), "dup" (stays under way when it arrives), "corrupt" (arrives as bytes the
decoder refuses) and "truncate" (a DATA packet arrives as a header with the TR
bit).  Reordering is always possible.  Sets merge identical datagrams, and "dup"
also stands for the two copies of a packet that was sent twice.

Each packet carries its absolute number `n`, the count of packets numbered
before it.  The programs never look at it.  It stands for the payload, and it
says what a sequence number meant when it was written, so that the properties
can speak about the packet that is meant and not the one that happens to have
the same number.

`MaxLag` bounds how late a datagram may be: when more than `MaxLag` packets were
numbered after the one it is about, it is gone (`Alive`).  Some bound of this kind
is an assumption every protocol with finite sequence numbers needs; the authors
discuss it in `Todolist.txt`:5.  The sound runs keep
`MAX_BUFFER_SIZE <= MaxLag < SeqSpace - MAX_BUFFER_SIZE`.  The lower bound lets every
packet of the window arrive as late as it can be retransmitted.  The upper one is
exact: with the next value TLC finds a wrong deletion (see Defects).  For the C
program it reads: no datagram is overtaken by 256 - 31 = 225 or more packets.

**Sender.**  `spc` is the stage of the loop.  `SPoll` is sender.c:87-109,
`SSendData`, `SSendEof` and `SReadFails` the three results of `read` on the file
(116-190), `SResend` and `SNoResend` the scan (192-256), and `SReadBad`,
`SReadFinal`, `SReadAck` and `SReadNack` the four ways to handle a reply
(260-335).  A queued packet has an `age` in place of its timestamp; `Nacked`
stands for the timestamp 0 that a NACK leaves.  After the packet of length 0 the
code `continue`s, so `SSendEof` returns to the poll without a scan.  Line 311 reads
the head of the queue before line 314 tests the size: with an empty queue
`SReadAck` ends in the stage "crashed".

**Receiver.**  `rpc` is the stage.  `RConnect` is `wait_for_client`, which peeks at
the first datagram; `RWrite` is one turn of the inner loop of receiver.c:59-95;
`RReadInvalid`, `RReadTruncated`, `RReadOutside`, `RReadEof` and `RReadPayload` are the
branches of 122-228.  `written` holds the numbers `n` of the payloads written to
the file and `nWaited` what `waitedSeqNum` stands for.

**Transfer** interleaves the two programs and `Tick`, the passing of a second.
A counter that measures time stops at its bound (`AgeCap`, `IdleCap`,
`RIdleCap`).  With `AgeCap = 1` and `DefaultTimer = 0` a packet becomes due at any
time after it was sent, so that the runs cover every ratio between the timer and
the delays of the link; with `IdleCap <= IdleLimit` nobody gives up, with
`IdleCap > IdleLimit` anybody may give up after any silence.  `Terminated` lets TLC
tell the end of a run from a deadlock.

**Faults** is the transfer when calls fail.  `Failing` names the calls that may, one
per outcome; each action is what the code does after the error.

| Call | Action | What happens |
|---|---|---|
| sender: `read` of the socket | `SSocketReadFails` | `buf_ack`, the reply before, is decoded and acted upon again; the datagram stays |
| sender: `poll`, memory for a queue or the clock | `SGivesUp` | the loop is left, or a null pointer used |
| sender: memory for the last packet | `SNoEofPacket` | tried again in the next turn |
| sender: `create_packet`, before it numbers | `SNotNumbered` | the payload is dropped |
| sender: `create_packet`, after it numbered | `SNoPayload` | a number is never sent |
| sender: memory for a node | `SNotKept` | the packet is sent once and cannot be repeated |
| receiver: `poll` | `RPollFails` | `revents` is what the poll before found (`pollin`); a read of an empty socket blocks (`Blocked`, `RUnblocks`) |
| receiver: `read` of the socket | `RSocketReadFails` | the clock is reset, the datagram stays |
| receiver: memory for a packet or a reply | `RNoPacket`, `RNoReply` | the loop is left, in the second case after the file was written |
| receiver: memory for a node | `RReplyNotQueued`, `RNotQueued` | the reply, or the packet, is dropped |
| receiver: `write` to the file | `RFileWriteFails` | the packet counts as written |
| receiver: memory for the queues or the clock | `RGivesUp` | the loop is left |

`Sender` and `Receiver` are written so that these actions share their parts: `OnAck`,
`OnNack`, `OnFinal` and `OnBad` take the reply they act upon, `PayloadArrives` the
outcome of the push.  A `write` to the socket that fails is a datagram lost (`Link`), a
packet that no memory is found for in `pkt_decode` is one that is refused.

**LinkedList, SenderList, ReceiverList.**  A list is a record of `head`, `size` (and `last`,
for the sender), of the nodes and packets that are allocated, and of `corrupt`, set
by a second free.  `malloc` returns any free address, or none.  `Chain` is what a loop meets that
follows the links from `head` to `NULL`, as those of `queue_push` and `queue_free` do.  `SenderList` pushes at
`last`, which is left on a freed node when the list becomes empty.  Its `queue_delete` is the
call (`DeleteCalled`), one action for each turn of the loop (`DeleteNext`) and the end of the
loop (`DeleteEnds`); `gone`, a history variable, is what it has freed so far, which counts
as queued in the refinement until it returns.  `ReceiverList` has
the three searches of `queue_ordered_push` with the conditions under which each is
taken (`Arrive`), and the loop of `queue_payload_write`, one action for each node that is
written and freed (`WriteNext`) and one for its end (`WriteEnds`), at which `head` moves at last;
until then the list begins at `runner` (`Left`), and in the refinement the packet has not
arrived yet (`Ahead`).  The status "writing" keeps every other operation out, as the C loop does.
Each function returns what C returns, kept in `op` with the operation's name, and so **SendQueue** and **ReceiveQueues**, which
are driven by the same operators as `Sender` and `Receiver`, are implemented with their
results, not only with their contents.  `PushLast` is the push of the packet that ends
the file, whose caller frees it once more when there is no node.

**Codec, PacketPath.**  A datagram is the fields it is read as.  A checksum is the
tuple of the values it is computed from, so that it matches those and no others;
`Junk` is a checksum that matches nothing.  `htons` swaps two bytes.  `Checks` lists the
tests of `pkt_decode` in their order with the code each returns.  `PacketPath` sends DATA
one way and replies the other: `kept`, the sender's packet, which is encoded again with
a new time; `reply`, with the mark of the last ACK in its `trFlag` until it is written;
`buf_ack`, the sender's twelve bytes, of which a short read replaces only the first.  What
becomes of a datagram is of three kinds: refused; accepted with its payload; or accepted as its
header alone.  `Link`, in the model of the transfer, knows the header alone only with TR set, as
the link simulator sends it; one that was cut without TR is in `PacketPath` only, where it
is accepted (`LengthIsCoherent` under Defects).

**Setup** is the two mains up to their loops: descriptors (the lowest free one, as `open` and
`socket` return it), the option `-f`, the operands, the address, `bind` and `connect`, and
`wait_for_client`, with every error return and with those that are only reported.  `getopt` is
the one of POSIX: the Makefile builds with `-std=c99` and `-D_POSIX_C_SOURCE=201112L`
(src/src/Makefile:2 and 9), with which `unistd.h` gives the programs a `getopt` that moves no word and
stops at the first that is not an option (`AtOption`).  On `host port -f file` it reads nothing, and
the file is ignored.  `optind` is where it has got to; `FirstOperand` is where main looks for the
host, which depends on `f_option` alone.

**FileTransfer** is what the two programs promise together: pieces are appended
in order, at most a window at a time, and a side that reports success is right.
**ReorderSet** is what the receiver's queue promises: a set of early numbers,
released as soon as no number is missing before them.  `ImplementsFileTransfer` and
`ImplementsReorderSet` are the refinements, with the mappings next to them.

Operators marked "A mistaken ..." are not part of the system: each is a plausible
error in the definition that follows it, and shows that the property named with
it in `PROJECT.json` can tell the two apart.

## The runs

| Run | Module | Checks | Bounds |
|---|---|---|---|
| `reorder_queue` | ReorderQueue | `QueueSorted`, `ImplementsReorderSet` | 256 numbers, window 8, all 256 positions |
| `wrap` | MCTransfer | `TypeOK`, `SafetyInv`, `DeliveredPrefix`, `AckedMeansDelivered`, `NeverCrashes`, `EndIsSignalled`, `FinalMeansComplete` | 6 payloads, window 2 of 5 numbers, `MaxLag` 2; loss, duplication, corruption; a receiver's socket that refuses writes, up to 2 queued ACKs |
| `nacks` | MCTransfer | `NoPrematureDelete`, `FinalMeansComplete` | 4 payloads, window 2 of 5 numbers, `MaxLag` 2; duplication, truncation |
| `window` | MCTransfer | `QueueOrdered`, `WithinReceiverWindow`, `LastAckMeansComplete`, `DeletesWhatWasMeant`, `ImplementsFileTransfer` | 8 payloads, window 3 of 7 numbers, `MaxLag` 3; loss |
| `completes` | Faults | `Completes` | 3 payloads, window 2 of 5; loss; one failure that costs no more than time; fair |
| `faults` | Faults | `FaultsTypeOK`, `SafeIfKept`, `RereadInv`, `WrittenOnce`, `EndMeansReached`, `LossIsCounted`, `GapsInv` | 2 payloads, window 2 of 5; loss; two failures of any calls and one of the file's `read`; a sender's socket that refuses writes |
| `faults_end` | Faults | `BothEnd` | 2 payloads, window 2 of 5; loss; one failure; both idle timers; fair |
| `packets` | PacketPath | `PacketInv`, `RoundTrip`, `NothingForged`, `TruncationIsSeen` | lengths 0, 2 and 512; 2 times; 3 datagrams, 2 damages |
| `sender_list` | SenderList | `WellFormed`, `ImplementsSendQueue` | 3 nodes, 3 packets, 4 numbers |
| `receiver_list` | ReceiverList | `WellFormed`, `ImplementsReceiveQueues` | 3 nodes, 3 packets, window 3 of 6 numbers, 2 replies |
| `setup` | MCSetup | `SetupTypeOK`, `SocketNotLeft`, `FileIsNotSocket`, `PeerIsFirst`, `UsesOperands` | 13 command lines, 3 ports, 2 clients, 2 datagrams |
| `empty_queue` | MCTransfer | `NeverCrashes`, violated | 2 payloads, window 2 of 5; loss; a sender's socket that refuses writes |

**What they show.**

- `wrap` has a file longer than the numbers: seven packets with five numbers, so
  that some are used again, and `MaxLag` is the largest that `Timely` admits.  The
  file is written in order; old, repeated and overtaking ACKs never cost a packet;
  the sender that ends successfully was right to; the inductive invariant of the
  proofs holds.  `NeverCrashes` holds because poll reports in every turn that the
  sender's socket can be written (`MayBlock = FALSE`): the sender then sends before
  it reads, unless the last packet is out.  `empty_queue` drops that.  The receiver's
  socket may refuse writes (`RMayBlock = TRUE`), so that replies are queued behind
  the last ACK and dropped when it is sent: it is sent all the same
  (`EndIsSignalled`), and nothing was missing (`FinalMeansComplete`).
- `nacks` has truncated packets and the NACKs they cause, which overtake and repeat
  ACKs: no packet is forgotten that was not received, and the receiver that ends
  successfully has the whole file.
- `window` has gaps of two in the receiver's queue and ACKs of reused numbers.  That a
  queue on both sides of the wrap is in order, and that an ACK deletes what it was
  written about, needs three packets outstanding.  Every behaviour is one of the
  abstract file transfer.
- `faults`: as long as no packet and no payload was dropped (`Kept`), the invariant of
  the transfer still holds after any two failures, and a reply that is acted upon
  twice does no harm.  When one was dropped, the file may lack payloads, but none is
  repeated or out of place, and success still means that the receiver has moved
  past every number: `GapsInv`, from which this is proved, holds there, too.  What is then
missing is at most one payload for each call that failed (`LossIsCounted`): the packet that
was not made, not kept or not written is lost, and none with it.  The
  instance is smaller than the theorem: its five numbers do not satisfy `FewGaps`, and
  its three packets use none of them twice.
- `completes` and `faults_end` are the liveness of the transfer with one failure:
  `completes` of a call after which the loop goes on (the sender's or receiver's read,
  memory for the last packet or for an early one) with nobody giving up; `faults_end` of
  any but the receiver's `poll`, after which it may block in `read` for ever (receiver.c:54
  under Defects), and of those after which a number is missing for ever (`payload`, `keep`; sender.c:117
  under Defects).
- `packets`: what a program accepts is one packet that was written, TR aside: with its
  own payload, or, when only twelve bytes have arrived, its header alone.  Anything
  else is refused, also the beginning of one reply with the end of another.  A packet
  the link has cut and marked is recognised, by its number.  `PacketInv` is why.
- `sender_list`, `receiver_list`: nothing is leaked, used after it was freed, or freed
  twice (but for the defect named below, at which the list stops), and each
  function does what the sequence operators do that the models of the loops use.
- `setup`: no way out leaves the socket open; a file that an option has opened is not
  the socket, nor is a standard stream that was open at the start; the loop of a
  receiver whose socket is not descriptor 0 begins with the datagram that told it its
  peer; main uses the words that `getopt` has left, where that stops at the first or at
  the third.
- `empty_queue` is a counterexample
  ([below](#what-the-code-does-differently-from-what-it-says)).

**Why the bounds are enough.**  All comparisons are between 8-bit distances, so what
matters is that the window is at most half of the numbers and that numbers are
used more than once.  The queue alone is small
enough to be checked at the true modulus.  In the list modules the addresses are a
symmetry set; three nodes have a first, a middle and a last, and every search can
stop before, in and after each.  Lengths 2 and 512 have the same two bytes in the
opposite order; three datagrams are a packet and two replies, or a packet, its reply and
a retransmission.  `MaxWrites` counts them, `MaxDamage` the changes made to them, `MaxReplies`
the replies that are queued, `MaxFailures` the calls that fail, `MaxInbox` the datagrams
that wait in the receiver's socket, `AckBound` the ACKs that wait to be written.  With two failures each may
happen on what the other left behind.  Deadlock is checked in every run but those of `MCSetup`, in
which both programs end.

## Fairness

`Completes` and `BothEnd` are checked under `FairFaultsSpec`.  Weak fairness is assumed of each
program (`SenderStep`, `ReceiverStep`) and of time (`Second`): both loops poll with a
time-out (500 ms, 5 ms), and the only other calls in which one may wait are two reads.
A receiver that reads an empty socket, after a failed poll, has no step that is enabled
(`Blocked`).  The sender's `read` of the file (sender.c:116) returns at once if that is a regular
file, as in `test.sh`; if it is a pipe or a terminal it waits for whoever writes to it, and the
fairness of `SenderStep` assumes that they do.  Nothing makes a call fail or not
fail: the actions of failures have no fairness.  `LinkFairness` is strong fairness of two
exchanges: when the oldest unacknowledged packet is retransmitted again and
again, it arrives in the end, and so does the latest ACK.  This is what any
protocol with retransmissions must assume of a link that loses packets.  No
fairness is assumed of a single send, of an arrival in a certain order, or of an
action of the sender against another one of the sender.

`BothEnd` allows a receiver to wait for ever for a first datagram: the code has no
time limit there, and says so (`Todolist.txt`:34).

## The proofs

The theorems hold for every value of the constants that the named assumptions of
the modules allow.

**QueueTheorems.**  First sequence numbers as remainders of absolute numbers:
`PlusRemainder` and `MinusRemainder` say that 8-bit sums and distances are the
remainders of the true ones, `SameRemainder` that nearby numbers with the same
remainder are equal.  `WindowTest` is the result: the test of `distInf` and `distSup`
accepts exactly the numbers `first` to `first + size - 1`, as long as none lies
`SeqSpace - size` or more below `first`, or `SeqSpace` or more above it.  This is where
the assumption `MaxLag < SeqSpace - MAX_BUFFER_SIZE` comes from.

Then what the queue operators return, for every queue: that every operation returns a
queue, and where `InsertIndex`, `FindIndex` and
`RunLength` stop; these rest on `MinOf`, the least-number principle, which comes
from the library's theorem that < is well-founded on the natural numbers.  `InsertIndexOrder`
and `PushOrder` say that an insertion keeps
the absolute numbers in order although the search compares reused ones, and
`PayloadWriteOrder` that what is written is the run of consecutive numbers at the
head of the queue and what stays is still in order.

**ReorderQueueTheorems.**  The receiver's queue alone, for any order of arrival.
`Sorted == ASSUME HalfWindow PROVE Spec => []QueueSorted`, and `QueueImplements`, with the
same assumption, that it implements `ReorderSet`: each arrival is one of the abstract
set, with the packets released that the set releases.  `HalfWindow`, a window of at most
half of the numbers, is what the code has (62 <= 256), and it cannot be weakened: with
8 numbers TLC finds the queue in order at a window of 4, and out of order at 5.

**TransferInvariant, TransferTheorems.**  `Safety == ASSUME Timely PROVE Spec => [](TypeOK /\ SafetyInv)`,
and before it `TypeCorrect == Spec => []TypeOK`.  `TypeOK` is an inductive
invariant by itself because it contains two facts that are not types: a receiver
at its "write" stage has an ACK to write, without which `Head(ackQueue)` is
meaningless, and a datagram the receiver decodes has one of the lengths 0 and 1.
`Timely` says three things:

- `MaxReadErrors = 0`: reading the file does not fail.  With a failed read the
  numbers of the packets no longer are the positions in the file, and the sender
  may never end (Defects);
- `2 * MAX_BUFFER_SIZE <= SeqSpace`: 62 <= 256;
- `MaxLag + MAX_BUFFER_SIZE < SeqSpace`: no datagram is overtaken by 225 packets.
  At the next value the theorem fails (Defects, sender.c:314).

`DeliveredPrefix` or `NoPrematureDelete` alone are not inductive: whether a payload is
written in its place depends on which packet a reused number means, which depends
on how old the datagrams under way are, which depends on what each program knew
when it sent them.  `SafetyInv` says all of it:

| Part | What it says | What needs it |
|---|---|---|
| `SenderInv` | the sender's queue is the packets `base` to `created - 1`, and no longer than a window | that an ACK deletes by number what it means by position; `isLastAckNum` is set only by the last packet |
| `ReceiverInv` | `base <= nWaited <= created`; early packets are genuine, later than `nWaited`, in order; `finalSeqNum` is that of the end | that the two windows overlap, so that `WindowTest` applies on both sides |
| `WrittenInv` | what is written is the file up to `nWaited` | `DeliveredPrefix` |
| `DataInv` | every packet under way carries the payload of its number; the one that has arrived is at most `MaxLag` behind | the receiver's window test |
| `ReplyInv` | an ACK speaks of no more than was received, a NACK only of a packet that was sent; an ACK marked last was written at the end | `NoPrematureDelete`, and the end of the sender by number alone (sender.c:274) |

The argument turns on one inequality.  A datagram that arrives is at most
`MaxLag` older than the packet its reader compares it with, and nothing is newer than
`created <= base + MAX_BUFFER_SIZE`; so all numbers that can meet lie within fewer
than `SeqSpace` of each other, equal sequence numbers mean equal packets
(`SameRemainder`), and the 8-bit distances compare as the true ones (`WindowTest`).
TransferTheorems has one lemma for each action or group of actions and in it one
step for each part that the action can disturb.  The difficult ones are
`RReadPayload` (insertion and a run that is written), `SReadAck` (deletion) and
`SReadFinal`.

Its last part draws the conclusions, all under `Timely`:

| Theorem | Property |
|---|---|
| `Delivered` | `DeliveredPrefix` |
| `Remembered` | `NoPrematureDelete` |
| `Windowed` | `WithinReceiverWindow` |
| `Ordering` | `QueueOrdered` |
| `SenderSuccess` | `AckedMeansDelivered` |
| `ReceiverSuccess` | `FinalMeansComplete` |
| `LastAck` | `LastAckMeansComplete` |
| `Meant` | `DeletesWhatWasMeant` |
| `Signalled` | `EndIsSignalled`, by a second, small induction |
| `NoCrash` | `NeverCrashes`, when the socket can always be written (`MayBlock = FALSE`) |
| `Implements` | `ImplementsFileTransfer`: initial states are mapped to initial states, each action to a step of `FileTransfer` or to none |

`NoCrash` has an invariant of its own, `QueueFilled`: a sender at its "scan" or "read"
stage, or past its last packet, keeps a packet.  It holds because a turn that can
write fills an empty queue before it reads, and because an ACK that leaves the
program running after the last packet is not about all of them.  Without
`MayBlock = FALSE` the first reason is gone, and the run `empty_queue` shows the crash.

**TransferTheorems, second half,** is about failing calls (`Faults`), for every set `Failing` of them and every
number `MaxFailures` of failures.

- `FaultsTypeCorrect == FaultsSpec => []FaultsTypeOK`, whatever is lost and without
  `Timely`.
- `RereadSafe == ASSUME Timely PROVE FaultsSpec => []RereadInv`, and
  `FaultsSafety == ASSUME Timely PROVE FaultsSpec => [](FaultsTypeOK /\ SafeIfKept /\ RereadInv)`.
  `SafeIfKept` says that `SafetyInv` holds as long as no packet or payload was
  dropped.  It is inductive only together with `RereadInv`: a sender whose `read`
  fails acts upon the reply before once more, and what makes that harmless is that
  the reply was acted upon when it was read.  `AckMoves` is the lemma behind it: an
  ACK that says something new moves `base` to the number it names, so that none in
  `buf_ack` is ahead of `base`.  A packet that is refused by `queue_ordered_push`
  delivers nothing (`RefusedSafety`), and a payload whose reply finds no memory is
  delivered all the same (`WrittenSafety`); both reuse the lemma of `RReadPayload`.

The second part is about what holds when packets, payloads and numbers are dropped.  Then
`SafetyInv` fails: the sender's queue is no longer the last numbers without a break, and
an ACK may name a packet that is not in it, upon which `queue_delete` empties the queue.
`GapsSafety == ASSUME FewGaps PROVE FaultsSpec => [](FaultsTypeOK /\ GapsInv)`, and from it
`NeverTwice` (`WrittenOnce`) and `EndIsTrue` (`EndMeansReached`).

`FewGaps` is `MaxLag + 2 * (MAX_BUFFER_SIZE + MaxReadErrors + MaxFailures) < SeqSpace`: the lag,
and on each side of the number waited for a window and the gaps.  For the C program it reads
`MaxLag + 2 * failures < 194`.  Three parts of `GapsInv` carry the argument:

| Part | What it says | What needs it |
|---|---|---|
| `SenderGaps` | the queue's numbers rise, and from a packet to the last one numbered there are no more than the packets behind it and one per failure | that the numbers in the queue are distinct |
| `ReceiverGaps` | the head of the sender's queue is at most a window and the gaps ahead of `nWaited`, also when the receiver waits for a number that is never sent | that a reply cannot name a packet of the window that was not sent yet |
| `ReplyGaps` | a reply that has arrived is at most `MaxLag` behind, plus the packet that may be numbered before it is read, plus one for each `read` of the socket that failed and left it there (`Overtaking`) | that a number stands for one packet only when the reply is acted upon, once or twice |

`FewGaps` is enough and not exact: with a window of 1, `MaxLag = 2` and one failure TLC finds
`EndMeansReached` violated with 3 numbers and holding with 4.  The failures are counted
once for each side, although one failure seldom costs both.  That some bound is needed is
not a weakness of the proof: with enough dropped numbers the oldest packet
and the newest one have the same.

**PacketTheorems** is about every packet and every datagram: any payload, number and time,
any length up to `MAX_PAYLOAD_SIZE`.

- `Decoding` says of the ten checks of `pkt_decode`, which the code makes in an order with a
  code each, that together they are the conditions `Fits`.  `SwapTwice` is `ntohs(htons(x)) = x`.
  `ImageDecoded` follows: what `pkt_encode` gives for a packet the programs make (`Sound`),
  `pkt_decode` takes back to that packet.
- `TraceDecoded` is the converse: of a datagram whose checksums are those of a packet `p`, or
  nothing, whatever its other fields are, only `p` can be decoded, with or without TR, with its
  payload, or with none if there are twelve bytes.  These have one checksum only, which is why the
  beginning of a short reply cannot be taken together with the end of an older one.
- `PacketInv` is the inductive invariant: what is written is `Sound`, also after a new time, a
  NACK, or the erasure of the mark of the last ACK; a datagram under way, however damaged, has the
  checksums of the packet it was or none (`Remains`); the sender's buffer holds the checksum of one
  packet that was written or none.  `PacketInvariant` is that it holds always; from it `DecodesEncoded`,
  `OnlyWritten` and `CutIsSeen` draw `RoundTrip`, `NothingForged` and `TruncationIsSeen`.

The assumptions are that the largest packet fits the buffer (12 + 512 + 4 <= 528) and that `NULL`
and `Junk` are none of the values they are told apart from.

**SetupTheorems** is about every command line, every set of open descriptors, any number of clients
and any failing calls: `SetupTypes`, `SocketClosed`, `FileApart`, `FirstPeer` and `OperandsUsed`.  The
inductive invariant `Descriptors` says what is open until a main returns, and that the socket is
apart from the file; the lowest free descriptor exists because only finitely many are open
(`LowestFree`).  `Counted`, the invariant behind `OperandsUsed`, says that until the operands are taken
no option was read exactly if `getopt` is still at the first word: so `f_option`, by which main chooses
the places, tells at least whether there was an option at all.

**LinkedListTheorems, SenderListTheorems.**  The sender's queue, pointer by pointer, for any number
of nodes and packets, every modulus, and any allocation failing.  Its `WellFormed` counts, as the receiver's does: it compares
the length of the chain with `size` and sets of addresses with one another.  That is not
inductive in a form one can reason with, because it does not say where a link leads.  `IsList`
says, of a sequence of nodes, that each points to the next and has a packet of its own and that
nothing else is allocated.  `ChainIs` is the link between the two: the walk from `head` on meets
just the nodes of that sequence, and at most as many as there are addresses (`Short`), so that
`Chain` finds it.  `ListInsert`, `ListTail`, `ListFreed` and `ListEmpty` are what an insertion at
any place, a removal of the first node, `queue_free` and `queue_init` do to it; nothing in this module
belongs to one of the two programs.

`SLInv` is the inductive invariant: `IsList`, `last` the last node of a list that is not empty, and,
while `queue_delete` runs, `run` the head, as many packets freed as counted, and none of them the
one looked for.  `Corrupted`, a second one, says that nothing is freed twice before the program ends.
`PushAppends`, `PushFails`, `PopIs`, `FreeIs`, `FindIs` and `NackIs` say what each
function does to the nodes and to the packets they stand for, `DeleteHit` and `DeleteMiss` that the
loop, wherever it stops, has taken off what `queue_delete` takes off the sequence.
The results are `ListIsWellFormed` (`WellFormed`) and `ListImplementsSendQueue` (`ImplementsSendQueue`).
With it the sequence in `Sender`, which the theorems of the transfer are about, is no
abstraction taken on trust.  Both have the assumption `AsksWhenFull = FALSE`: nothing calls
`queue_isempty` on a queue that holds packets, which it would empty without freeing them (Defects,
queue_sender.c:190).

**ReceiverListTheorems.**  The receiver's two queues, pointer by pointer, for any number of nodes and
packets, every modulus and window, any order of arrival, and any allocation failing; nothing else is
assumed.  `RLInv` is the inductive invariant: the replies are a list; the packets are one
from `head` on, or, while `queue_payload_write` runs and `head` is the first node it has freed, from `runner`
on.  `WritingInv` says what makes the end of that loop right: the packets it has freed have the
numbers from `waitedSeqNum` on, `count` and `newSeqNum` are 8-bit counts of them, and they and those
left are together what the push made of the queue before the arrival.

`LinkIs` is the insertion at any place, `HeadIs` and `TailIs` its two ends.  `FirstInIs` says where a loop
that passes the nodes with some property stops; from it `PlaceIs` and `OrderedPushIs` show that
whichever of the three loops is taken, in one or two stages, the node is placed where `InsertIndex` says, or
refused when its number is there already.  This holds for every queue, also for one that is not
in order: the loops and the definition agree node for node.  `Wraps`, `PlusPlus` and `WrittenIs` take
the run that the turns have freed to the one `queue_payload_write` takes off the sequence.  The
results are `RLInvariant`, `ListsAreWellFormed` (`WellFormed`) and `ListsImplementReceiveQueues`
(`ImplementsReceiveQueues`), so that the receiver's sequences, too, are no abstraction taken on trust.

**What is model-checked only.**

- `Completes` and `BothEnd`: liveness under fairness is out of the prover's reach.
- `LossIsCounted`.
- The counterexample, `empty_queue`.

## What the code does differently from what it says

The run `empty_queue` checks a property that the repository states and that TLC
finds violated: `NeverCrashes`.  sender.c:311 reads the head of the queue before line 314
tests whether it is empty.  A repeated ACK that is read while the queue is empty, in a
turn in which poll reported input but no room for output, dereferences NULL.

The properties in the following table are stated beside the others, and no run checks
them, because the code does not keep them: each is violated with the constants of
the run that the table names.

| Property | Run | What is said | What happens |
|---|---|---|---|
| `LengthIsCoherent` | `packets` | packet_interface.h:63-64: an accepted packet's length and TR agree with the bytes received | packet_implem.c:74-76 accepts any twelve bytes with a good checksum.  With TR the receiver answers with a NACK; without, it takes the packet for one with a payload, which is `NULL`.  No link of the transfer's model does this: the simulator sets TR. |
| `NothingFreedTwice` | `sender_list` | packet_interface.h:49: `pkt_del` frees a packet | sender.c:152 frees the packet that `queue_push` has freed when it found no node. |
| `BothEnd` | `faults_end`, with `Failing = {"receiver poll"}` | receiver.c:42: without any exchange the receiver ends | After a failed poll the receiver uses the old `revents`, reads an empty socket and waits there; the timer of lines 42-51 is not looked at again. |
| `FinalMeansComplete` | `faults`, with `Failing = {"number"}` | test.sh:53: a copy that differs is a corrupted file | `create_packet` finds no memory before it has taken a number, the sender goes on, and both programs end as after success with a payload missing. |
| `FinalMeansComplete` | `faults`, with `Failing = {"file write"}` | queue_receiver.h:72: `queue_payload_write` returns the number of written packets | It counts those whose `write` failed, or was short, as well, and they are acknowledged. |
| `EnoughArguments` | `setup` | sender.c:360, receiver.c:248: "check if there is enough arguments" | `argc` is compared with 2, and up to `argv[4]` is used; `atoi(NULL)` ends the program. |
| `PortIsKept` | `setup` | create_socket.c:9-12: the ports are those used | `htons` keeps 16 bits of them. |
| `Connected` | `setup` | receiver.c:298: "Connected" | Descriptor 0 is taken for no socket, and the receiver enters its loop without a client. |

### Defects

These are in the models as the code has them; the passing runs hold in spite of
them.

| Line | What the code does |
|---|---|
| sender.c:117 | After a failed read of the file a packet is numbered that is never sent (`SReadFails`).  The receiver waits for it, acknowledges every retransmission, and each ACK keeps the sender's idle timer from expiring: neither program ends. |
| sender.c:302 | The first ACK for a packet that a NACK has marked computes the timer from the timestamp 0; twice the seconds since 1970 overflow an `int` and the timer is negative (`Overflowed`): every packet is then due at once. |
| sender.c:314 | Nothing limits the rate of the sender to what `Todolist.txt`:5 derives: with `MaxLag = SeqSpace - MAX_BUFFER_SIZE`, one more than `Timely` admits, an ACK deletes a packet the receiver never got. |
| receiver.c:87-89 | "at least one of the queue is not empty" happens: a repeated packet read after the last ACK was queued, and before it could be written, queues another. |
| packet_implem.c:74 | Twelve bytes are accepted although their length field announces a payload (`LengthIsCoherent`).  The receiver then calls `write` with a `NULL` payload, which fails, and counts the packet as written. |
| queue_sender.c:190, queue_receiver.c:198 | `queue_isempty` is `return queue->size = 0;`.  Nothing calls it.  `AsksWhenFull = TRUE` lets `SenderList` call it on a queue that holds packets. |
| sender.c:151-152 | When there is no node for the packet that ends the file, `queue_push` has freed it and the caller frees it again (`PushLast`, status "aborted"; `NothingFreedTwice`). |
| sender.c:31-35, 175-181 | A payload whose packet could not be allocated is dropped; the transfer ends successfully without it. |
| sender.c:179-183 | A packet that was sent but not kept cannot be sent again, and its ACK finds no packet at which `queue_delete` stops: later packets are deleted too. |
| queue_receiver.c:219-222 | A failed write to the file is reported and the packet counted as written. |
| receiver.c:54 | After a failed poll the old `revents` is used: `read` may block where the idle timer is not looked at (`Blocked`). |
| sender.c:361, receiver.c:248 | `argc < 2` is tested, and up to `argv[4]` used (`EnoughArguments`). |
| sender.c:384-393, receiver.c:273-281 | The operands are taken at fixed places.  After `-ffile`, or after two options, these are not the words `getopt` has left; an option behind the operands is not read at all. |
| sender.c:346, receiver.c:242 | Started without its standard input (output), a program without `-f` gets that descriptor for its socket, and reads (writes) the file there. |
| sender.c:398, receiver.c:287 | An address that was not resolved is reported and used. |
| receiver.c:298 | Descriptor 0 is taken for a failed socket: the receiver does not wait for a client (`Connected`). |
| create_socket.c:41 | A port of more than 16 bits is cut (`PortIsKept`). |

## What is not modelled

- The tests.  They are scripts and drivers around the programs; `test.sh` shows
  which faults the link simulator injects, and `LinkFaults` follows it.
- A datagram of no bytes (`rd == 0`): neither program sends one.
- In `Faults`, the double free of the last packet (it is in `SenderList`), and two
  payloads of one run that both fail to be written.
- Failures of `write` on the socket, and of memory in `pkt_decode`, as actions of their
  own: a lost and a refused datagram have the same effect on both programs.
- Timestamps in ACKs, which no program reads.
- A second `pkt_set_payload` on one packet, in which the result of `realloc` is dropped
  (packet_implem.c:289): neither program makes one.
- A `read` of the file that waits for its writer (sender.c:116, see Fairness).
- The bytes of a payload and of a CRC: two different inputs of `crc32` are taken to
  have different checksums.
- Clock adjustments (`CLOCK_REALTIME` may jump); time only passes.

## Plan

Done: both loops with every branch and every failing call, the link, the queues
three times (sets, sequences, lists), packets, set-up, the abstract specifications
and their refinements, and the proofs of all safety properties of the transfer, with
failing calls as well, of both queues as sequences and down to their nodes,
of packets and of the set-up.

What is left: the two liveness properties stay with TLC, and so does `LossIsCounted`, whose proof would
relate `written` to the count of failures.  `FewGaps`, under which the theorems about dropped
packets hold, could be brought closer to what is necessary by counting each failure on the side it costs.
