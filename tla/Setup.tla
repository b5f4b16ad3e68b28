-------------------------------- MODULE Setup --------------------------------
(***************************************************************************)
(* What the two mains do before and after the transfer: the command line   *)
(* and its -f options, the file, the address, the socket (create_socket),  *)
(* the receiver's wait for its first datagram (wait_for_client), the       *)
(* descriptors they close.  Any call may fail.  A descriptor is the lowest *)
(* number that is not open, and a program may start with some of its       *)
(* standard ones closed.                                                   *)
(***************************************************************************)
EXTENDS Integers, Sequences, FiniteSets

CONSTANTS
  Commands,    \* the command lines, as sequences of words
  Ports,       \* what the word "port" may stand for
  Inherited,   \* the sets of descriptors that may be open at the start
  Clients,     \* the senders that may reach a receiver
  MaxInbox     \* bound: how many datagrams wait in the receiver's socket

Words == {"-f", "-ffile", "-x", "file", "host", "port"}
STDIN_FILENO == 0
STDOUT_FILENO == 1

ASSUME SetupAssumption ==
  /\ Commands \subseteq Seq(Words) /\ Ports \subseteq Int
  /\ \A d \in Inherited : d \subseteq Nat /\ IsFiniteSet(d)
  /\ MaxInbox \in Nat

VARIABLES
  program,     \* which of the two programs this is
  args,        \* argv without the name of the program
  port,        \* the number the word "port" stands for
  inherited,   \* the descriptors that were open at the start
  open,        \* the descriptors that are
  pc,          \* the stage of main, or how it ended
  optind,      \* the word getopt looks at next
  f_option,    \* 1 once there was an option -f
  fd, socket_fd, res_hostname, src_port,
  resolved,    \* has real_address stored an address?
  bound,       \* the port the socket is bound or connected to
  peer,        \* what the socket is connected to
  inbox        \* the sources of the datagrams in the socket, oldest first

vars == <<program, args, port, inherited, open, pc, optind, f_option, fd,
          socket_fd, res_hostname, src_port, resolved, bound, peer, inbox>>

(* What does not change once the program runs, and groups of the others.   *)
given == <<program, args, port, inherited>>
options == <<optind, f_option, fd>>
operands == <<res_hostname, src_port, resolved>>
network == <<bound, peer, inbox>>

None == "none"
NULL == "null"
PortNumbers == 0 .. 2^16 - 1
Ended == {"done", "failed", "crashed"}

SetupTypeOK ==
  /\ program \in {"sender", "receiver"} /\ args \in Commands /\ port \in Ports
  /\ inherited \in Inherited /\ open \subseteq Nat
  /\ pc \in {"start", "options", "operands", "resolve", "socket", "attach",
             "wait", "timer", "loop"} \cup Ended
  /\ optind \in 1 .. Len(args) + 1 /\ f_option \in {0, 1}
  /\ fd \in Nat /\ socket_fd \in Nat \cup {-1}
  /\ res_hostname \in Words \cup {None, NULL, "beyond"} /\ src_port \in Int
  /\ resolved \in BOOLEAN /\ bound \in PortNumbers \cup {-1}
  /\ peer \in Clients \cup {None, "receiver"} /\ inbox \in Seq(Clients)

Init ==
  /\ program \in {"sender", "receiver"} /\ args \in Commands /\ port \in Ports
  /\ inherited \in Inherited /\ open = inherited
  /\ pc = "start" /\ optind = 1 /\ f_option = 0
  /\ fd = IF program = "sender" THEN STDIN_FILENO ELSE STDOUT_FILENO
  /\ socket_fd = -1 /\ res_hostname = None /\ src_port = 0
  /\ resolved = FALSE /\ bound = -1 /\ peer = None /\ inbox = << >>

(* The descriptor that open or socket returns. *)
Lowest(descriptors) ==
  CHOOSE d \in 0 .. Cardinality(descriptors) :
    d \notin descriptors /\ \A e \in 0 .. d - 1 : e \in descriptors

-----------------------------------------------------------------------------
(* getopt is the one of POSIX, which the flags of the Makefile select: the *)
(* options end at the first word that is not one, and no word is moved.    *)
AtOption ==
  optind <= Len(args) /\ args[optind] \in {"-f", "-ffile", "-x"}

(* The file may be a word of its own, whatever that looks like. *)
HasFile ==
  args[optind] = "-ffile" \/ (args[optind] = "-f" /\ optind < Len(args))

(* argv[i], which ends with NULL, what comes after that being unknown. *)
Argv(i) ==
  IF i <= Len(args) THEN {args[i]}
  ELSE IF i = Len(args) + 1 THEN {NULL} ELSE {NULL, "beyond"}

atoi(word) == IF word = "port" THEN port ELSE 0

-----------------------------------------------------------------------------
(* The sender allocates tpGlobal first, and ends with status 0 if it       *)
(* cannot.  Then argc is looked at.                                        *)
Start ==
  /\ pc = "start"
  /\ \/ program = "sender" /\ pc' = "done"
     \/ pc' = IF args = << >> THEN "failed" ELSE "options"
  /\ UNCHANGED <<given, open, options, operands, socket_fd, network>>

\* A mistaken step, which closes the file it has opened.
OpensAndCloses ==
  /\ fd' = Lowest(open) /\ f_option' = 1
  /\ UNCHANGED <<open, pc>>

\* A mistaken step, which does not look whether open has failed.
OpensUnchecked ==
  /\ fd' \in {Lowest(open), -1} /\ open' = open \cup ({fd'} \ {-1})
  /\ f_option' = 1
  /\ UNCHANGED pc

Opens ==
  /\ fd' = Lowest(open) /\ open' = open \cup {fd'}
  /\ f_option' = 1
  /\ UNCHANGED pc

(* One turn of the loop around getopt: a file is opened, or main ends, with *)
(* an unknown option, a -f without a file, or a file that cannot be opened. *)
Option ==
  /\ pc = "options" /\ AtOption
  /\ optind' = optind + (IF args[optind] = "-f" /\ HasFile THEN 2 ELSE 1)
  /\ \/ HasFile /\ Opens
     \/ pc' = "failed" /\ UNCHANGED <<open, f_option, fd>>
  /\ UNCHANGED <<given, operands, socket_fd, network>>

NoMoreOptions ==
  /\ pc = "options" /\ ~ AtOption
  /\ pc' = "operands"
  /\ UNCHANGED <<given, open, options, operands, socket_fd, network>>

\* A mistaken index, of the word after the option.
AfterTheOption == IF f_option = 0 THEN 1 ELSE 2

FirstOperand == IF f_option = 0 THEN 1 ELSE 3

(* The words are taken at fixed places, whatever getopt has passed, and    *)
(* atoi(NULL) is the end of it.                                            *)
Operands ==
  /\ pc = "operands"
  /\ res_hostname' \in Argv(FirstOperand)
  /\ \E word \in Argv(FirstOperand + 1) :
       IF word = NULL THEN pc' = "crashed" /\ UNCHANGED src_port
       ELSE pc' = "resolve" /\ src_port' = atoi(word)
  /\ UNCHANGED <<given, open, options, resolved, socket_fd, network>>

(* A failure is reported, and the address stays as it was: uninitialised.  *)
Resolve ==
  /\ pc = "resolve"
  /\ resolved' \in IF res_hostname = NULL THEN {FALSE} ELSE BOOLEAN
  /\ pc' = "socket"
  /\ UNCHANGED <<given, open, options, res_hostname, src_port, socket_fd,
                 network>>

-----------------------------------------------------------------------------
(* create_socket, of which each program gives one address only. *)
Socket ==
  /\ pc = "socket"
  /\ \/ /\ socket_fd' = Lowest(open) /\ open' = open \cup {socket_fd'}
        /\ pc' = "attach"
     \/ pc' = "failed" /\ UNCHANGED <<open, socket_fd>>
  /\ UNCHANGED <<given, options, operands, network>>

\* A mistaken one, which leaves the socket open.
AttachFailsOpen ==
  /\ pc = "attach"
  /\ pc' = "failed"
  /\ UNCHANGED <<given, open, options, operands, socket_fd, network>>

(* bind or connect fails, or the port is not positive.  (For an address    *)
(* that is not initialised they may fail or not.)                          *)
AttachFails ==
  /\ pc = "attach"
  /\ open' = open \ {socket_fd} /\ pc' = "failed"
  /\ UNCHANGED <<given, options, operands, socket_fd, network>>

(* htons keeps 16 bits of the port. *)
Attach ==
  /\ pc = "attach" /\ src_port > 0
  /\ bound' = src_port % 2^16
  /\ peer' = IF program = "sender" THEN "receiver" ELSE None
  /\ pc' = IF program = "sender" THEN "loop"
           ELSE IF socket_fd > 0 THEN "wait" ELSE "timer"
  /\ UNCHANGED <<given, open, options, operands, socket_fd, inbox>>

(* A datagram reaches the receiver's socket: from anywhere until that is   *)
(* connected.                                                              *)
Arrive ==
  /\ program = "receiver" /\ pc \in {"wait", "timer", "loop"}
  /\ Len(inbox) < MaxInbox
  /\ \E c \in Clients : peer \in {None, c} /\ inbox' = Append(inbox, c)
  /\ UNCHANGED <<given, open, pc, options, operands, socket_fd, bound, peer>>

\* A mistaken wait, which takes the datagram out of the socket.
TakeFirst ==
  /\ pc = "wait" /\ inbox # << >>
  /\ peer' = Head(inbox) /\ inbox' = Tail(inbox) /\ pc' = "timer"
  /\ UNCHANGED <<given, open, options, operands, socket_fd, bound>>

(* wait_for_client peeks at the first datagram and connects to its source. *)
PeekFirst ==
  /\ pc = "wait" /\ inbox # << >>
  /\ peer' = Head(inbox) /\ pc' = "timer"
  /\ UNCHANGED <<given, open, options, operands, socket_fd, bound, inbox>>

(* Its recvfrom or its connect fails. *)
WaitFails ==
  /\ pc = "wait"
  /\ open' = open \ {socket_fd} /\ pc' = "failed"
  /\ UNCHANGED <<given, options, operands, socket_fd, network>>

(* The receiver allocates tpGlobal, and uses it without a look. *)
Timer ==
  /\ pc = "timer"
  /\ pc' \in {"loop", "crashed"}
  /\ UNCHANGED <<given, open, options, operands, socket_fd, network>>

(* read_write_loop returns, whatever it has achieved. *)
Return ==
  /\ pc = "loop"
  /\ open' = open \ {socket_fd, fd} /\ pc' = "done"
  /\ UNCHANGED <<given, options, operands, socket_fd, network>>

Next ==
  \/ Start \/ Option \/ NoMoreOptions \/ Operands \/ Resolve
  \/ Socket \/ AttachFails \/ Attach
  \/ Arrive \/ PeekFirst \/ WaitFails \/ Timer \/ Return

Spec == Init /\ [][Next]_vars

-----------------------------------------------------------------------------
(* No way out of main leaves the socket open: create_socket closes it on   *)
(* each of its error returns, main on those of wait_for_client and of the  *)
(* loop (create_socket.c:46-62, receiver.c:300).                           *)
SocketNotLeft == pc \in {"done", "failed"} => socket_fd \notin open

(* The payloads are not read from, or written to, the socket: the file has *)
(* a descriptor of its own (sender.c:346, receiver.c:242).  Nothing is said *)
(* of a program that takes its standard input or output and was started    *)
(* with that closed: its socket may get that very descriptor.              *)
FileIsNotSocket ==
  pc = "loop" /\ (f_option = 1 \/ fd \in inherited) => fd # socket_fd

(* A receiver whose socket is not descriptor 0 enters its loop connected   *)
(* to the source of its first datagram, and with that datagram still to be *)
(* read (wait_for_client.c:9).  For descriptor 0, see Connected.           *)
PeerIsFirst ==
  program = "receiver" /\ pc \in {"timer", "loop"} /\ socket_fd > 0 =>
    inbox # << >> /\ peer = Head(inbox)

(* The places at which main looks for the host and the port, known when it *)
(* was written, are those of the words that getopt has left, if getopt     *)
(* stops where a "-f file", two "-ffile" or no option ends and two more    *)
(* words follow (sender.c:384-393, receiver.c:273-281).                    *)
UsesOperands ==
  res_hostname # None /\ optind \in {1, 3} /\ optind < Len(args) =>
    res_hostname = args[optind] /\ src_port = atoi(args[optind + 1])

-----------------------------------------------------------------------------
(* What comments of the source say and the code does not keep. *)

(* sender.c:360 and receiver.c:248, "check if there is enough arguments to *)
(* continue": the words taken as host and port are on the command line.    *)
EnoughArguments == res_hostname # None => FirstOperand < Len(args)

(* create_socket.c:9 and 11, "the port on which the socket is listening"   *)
(* and "to which the socket should be connected" is the one main gives.    *)
PortIsKept == bound # -1 => bound = src_port

(* receiver.c:298, "Connected": a receiver in its loop has a peer.         *)
Connected == program = "receiver" /\ pc = "loop" => peer # None
=============================================================================
