---------------------------- MODULE SetupTheorems ----------------------------
(***************************************************************************)
(* What the two mains promise, for every command line, every port and      *)
(* every set of descriptors that may be open when a program starts.        *)
(***************************************************************************)
EXTENDS Setup, FiniteSetTheorems, SequenceTheorems, WellFoundedInduction,
        TLAPS

(* A nonempty set of natural numbers has a smallest element. *)
LEMMA Smallest ==
  ASSUME NEW S, S \subseteq Nat, S # {}
  PROVE  \E x \in S : \A y \in S : x <= y
<1> DEFINE R == {ss \in Nat \X Nat : ss[1] < ss[2]}
<1>1. IsWellFoundedOn(R, Nat)
  BY NatLessThanWellFounded, Zenon DEF OpToRel
<1>2. \E x \in S : \A y \in S : ~ (<<y, x>> \in R)
  <2> HIDE DEF R
  <2> QED  BY <1>1, WFMin
<1>3. PICK x \in S : \A y \in S : ~ (<<y, x>> \in R)  BY <1>2
<1>4. ASSUME NEW y \in S  PROVE x <= y
  <2>1. ~ (y < x)  BY <1>3
  <2> QED  BY <2>1
<1> QED  BY <1>4

(* There is a lowest descriptor that is not open, and it is a number. *)
LEMMA LowestFree ==
  ASSUME NEW D, IsFiniteSet(D), D \subseteq Nat
  PROVE  Lowest(D) \in Nat /\ Lowest(D) \notin D
<1> DEFINE c == Cardinality(D)
           Free(d) == d \notin D /\ \A e \in 0 .. d - 1 : e \in D
<1>1. c \in Nat  BY FS_CardinalityType
<1>2. \E d \in 0 .. c : d \notin D
  <2> SUFFICES ASSUME 0 .. c \subseteq D  PROVE FALSE  OBVIOUS
  <2>1. Cardinality(0 .. c) <= c  BY FS_Subset
  <2>2. Cardinality(0 .. c) = c - 0 + 1
    <3>1. 0 \in Int /\ c \in Int /\ ~ (0 > c)  BY <1>1
    <3> QED  BY <3>1, FS_Interval
  <2> QED  BY <1>1, <2>1, <2>2
<1>3. \E d \in 0 .. c : Free(d)
  <2> DEFINE S == {d \in 0 .. c : d \notin D}
  <2>1. S \subseteq Nat /\ S # {}  BY <1>1, <1>2
  <2>2. PICK d \in S : \A y \in S : d <= y
    <3> HIDE DEF S
    <3> QED  BY <2>1, Smallest
  <2>3. ASSUME NEW e \in 0 .. d - 1  PROVE e \in D
    <3>1. d \in 0 .. c /\ e \in 0 .. c /\ ~ (d <= e)  BY <1>1, <2>2
    <3> QED  BY <2>2, <3>1
  <2> QED  BY <2>2, <2>3
<1>4. Lowest(D) \in 0 .. c /\ Free(Lowest(D))
  <2> QED  BY <1>3 DEF Lowest
<1> QED  BY <1>1, <1>4

-----------------------------------------------------------------------------
(* What is open until a main returns: what was at the start, the file of   *)
(* the last option, and, once it was created, a socket of its own.         *)
Unattached == {"start", "options", "operands", "resolve", "socket"}
Attached   == {"attach", "wait", "timer", "loop"}

Descriptors ==
  /\ IsFiniteSet(open)
  /\ pc \notin Ended =>
       inherited \subseteq open /\ (f_option = 1 => fd \in open)
  /\ pc \in Unattached => socket_fd = -1
  /\ pc \in Attached /\ (f_option = 1 \/ fd \in inherited) => fd # socket_fd
  /\ SocketNotLeft

(* The values of a command line. *)
LEMMA Words_Type ==
  ASSUME SetupTypeOK
  PROVE  /\ args \in Seq(Words) /\ Len(args) \in Nat /\ port \in Int
         /\ \A i \in 1 .. Len(args) : args[i] \in Words
         /\ \A i \in Nat \ {0} : Argv(i) \subseteq Words \cup {NULL, "beyond"}
<1>1. args \in Seq(Words) /\ port \in Int
  BY SetupAssumption DEF SetupTypeOK
<1>2. Len(args) \in Nat /\ \A i \in 1 .. Len(args) : args[i] \in Words
  BY <1>1
<1>3. ASSUME NEW i \in Nat \ {0}
      PROVE  Argv(i) \subseteq Words \cup {NULL, "beyond"}
  BY <1>2 DEF Argv
<1> QED  BY <1>1, <1>2, <1>3

(* htons gives the number of a port, whatever the int. *)
LEMMA PortNumber == \A x \in Int : x % 2^16 \in PortNumbers
<1>1. ASSUME NEW x \in Int, NEW n \in Nat \ {0}  PROVE x % n \in 0 .. n - 1
  OBVIOUS
<1>2. 2^16 \in Nat \ {0}  OBVIOUS
<1> QED  BY <1>1, <1>2 DEF PortNumbers

(* The steps that touch no descriptor. *)
LEMMA OtherSteps ==
  ASSUME SetupTypeOK, Descriptors,
         program' = program, args' = args, port' = port,
         inherited' = inherited, open' = open, f_option' = f_option, fd' = fd,
         socket_fd' = socket_fd, optind' \in 1 .. Len(args) + 1,
         \/ pc' = pc
         \/ pc \in Unattached /\ pc' \in Unattached \cup Ended
         \/ pc \in Attached /\ pc' \in Attached \cup {"crashed"},
         res_hostname' \in Words \cup {None, NULL, "beyond"},
         src_port' \in Int, resolved' \in BOOLEAN,
         bound' \in PortNumbers \cup {-1},
         peer' \in Clients \cup {None, "receiver"}, inbox' \in Seq(Clients)
  PROVE  SetupTypeOK' /\ Descriptors'
<1>1. SetupTypeOK'
  <2>1. pc' \in {"start", "options", "operands", "resolve", "socket", "attach",
                 "wait", "timer", "loop"} \cup Ended
    BY DEF SetupTypeOK, Unattached, Attached, Ended
  <2> QED  BY <2>1 DEF SetupTypeOK
<1>2. SocketNotLeft'
  BY DEF SetupTypeOK, Descriptors, SocketNotLeft, Unattached, Attached, Ended
<1>3. Descriptors'
  BY <1>2 DEF Descriptors, Unattached, Attached, Ended
<1> QED  BY <1>1, <1>3

(* Every step keeps the types and the descriptors in order. *)
LEMMA OptionStep ==
  ASSUME SetupTypeOK, Descriptors, Option
  PROVE  SetupTypeOK' /\ Descriptors'
<1>1. /\ pc = "options" /\ program' = program /\ args' = args /\ port' = port
      /\ inherited' = inherited /\ bound' = bound /\ peer' = peer
      /\ inbox' = inbox /\ res_hostname' = res_hostname
      /\ src_port' = src_port /\ resolved' = resolved /\ socket_fd' = socket_fd
  BY DEF Option, given, operands, network
<1>2. optind' \in 1 .. Len(args) + 1
  <2>1. /\ optind \in 1 .. Len(args) /\ Len(args) \in Nat
        /\ (args[optind] = "-f" /\ HasFile) => optind < Len(args)
    BY Words_Type DEF Option, AtOption, HasFile, SetupTypeOK
  <2>2. \/ optind' = optind + 1
        \/ optind' = optind + 2 /\ args[optind] = "-f" /\ HasFile
    BY DEF Option
  <2> QED  BY <2>1, <2>2
<1>3. CASE pc' = "failed" /\ UNCHANGED <<open, f_option, fd>>
  <2>1. open' = open /\ f_option' = f_option /\ fd' = fd
        /\ pc \in Unattached /\ pc' \in Unattached \cup Ended
    BY <1>1, <1>3 DEF Unattached, Ended
  <2> QED  BY <1>1, <1>2, <2>1, OtherSteps DEF SetupTypeOK
<1>4. CASE Opens
  <2>1. /\ fd' \in Nat /\ open' = open \cup {fd'} /\ f_option' = 1
        /\ pc' = "options"
    <3>1. Lowest(open) \in Nat
      BY LowestFree DEF Descriptors, SetupTypeOK
    <3> QED  BY <1>1, <1>4, <3>1 DEF Opens
  <2>3. SetupTypeOK'
    BY <1>1, <1>2, <2>1 DEF SetupTypeOK
  <2>4. IsFiniteSet(open')  BY <2>1, FS_AddElement DEF Descriptors
  <2>5. socket_fd' = -1 /\ inherited' \subseteq open' /\ fd' \in open'
    BY <1>1, <2>1 DEF Descriptors, Unattached, Ended
  <2>6. Descriptors'
    BY <2>1, <2>4, <2>5
    DEF Descriptors, SocketNotLeft, Unattached, Attached, Ended
  <2> QED  BY <2>3, <2>6
<1> QED  BY <1>3, <1>4 DEF Option

LEMMA SocketStep ==
  ASSUME SetupTypeOK, Descriptors, Socket
  PROVE  SetupTypeOK' /\ Descriptors'
<1>1. /\ pc = "socket" /\ program' = program /\ args' = args /\ port' = port
      /\ inherited' = inherited /\ bound' = bound /\ peer' = peer
      /\ inbox' = inbox /\ res_hostname' = res_hostname
      /\ src_port' = src_port /\ resolved' = resolved
      /\ optind' = optind /\ f_option' = f_option /\ fd' = fd
  BY DEF Socket, given, options, operands, network
<1>2. CASE pc' = "failed" /\ UNCHANGED <<open, socket_fd>>
  <2>1. open' = open /\ socket_fd' = socket_fd
        /\ pc \in Unattached /\ pc' \in Unattached \cup Ended
    BY <1>1, <1>2 DEF Unattached, Ended
  <2> QED  BY <1>1, <2>1, OtherSteps DEF SetupTypeOK
<1>3. CASE /\ socket_fd' = Lowest(open) /\ open' = open \cup {socket_fd'}
           /\ pc' = "attach"
  <2>1. socket_fd' \in Nat /\ socket_fd' \notin open
    BY <1>3, LowestFree DEF Descriptors, SetupTypeOK
  <2>2. SetupTypeOK'  BY <1>1, <1>3, <2>1 DEF SetupTypeOK
  <2>3. IsFiniteSet(open')  BY <1>3, FS_AddElement DEF Descriptors
  <2>4. /\ inherited' \subseteq open' /\ (f_option' = 1 => fd' \in open')
        /\ (f_option' = 1 \/ fd' \in inherited' => fd' # socket_fd')
    BY <1>1, <1>3, <2>1 DEF Descriptors, Ended
  <2>5. Descriptors'
    BY <1>3, <2>3, <2>4
    DEF Descriptors, SocketNotLeft, Unattached, Attached, Ended
  <2> QED  BY <2>2, <2>5
<1> QED  BY <1>2, <1>3 DEF Socket

(* A way out: the socket is closed. *)
LEMMA CloseStep ==
  ASSUME SetupTypeOK, Descriptors, AttachFails \/ WaitFails \/ Return
  PROVE  SetupTypeOK' /\ Descriptors'
<1>1. /\ program' = program /\ args' = args /\ port' = port
      /\ inherited' = inherited /\ bound' = bound /\ peer' = peer
      /\ inbox' = inbox /\ res_hostname' = res_hostname
      /\ src_port' = src_port /\ resolved' = resolved
      /\ optind' = optind /\ f_option' = f_option /\ fd' = fd
                   /\ socket_fd' = socket_fd
      /\ pc' \in {"failed", "done"}
      /\ open' = open \ {socket_fd} \/ open' = open \ {socket_fd, fd}
  BY DEF AttachFails, WaitFails, Return, given, options, operands, network
<1>2. open' \subseteq open /\ socket_fd' \notin open'  BY <1>1
<1>3. IsFiniteSet(open')  BY <1>2, FS_Subset DEF Descriptors
<1>4. SetupTypeOK'  BY <1>1, <1>2 DEF SetupTypeOK, Ended
<1>5. Descriptors'
  BY <1>1, <1>2, <1>3
  DEF Descriptors, SocketNotLeft, Unattached, Attached, Ended
<1> QED  BY <1>4, <1>5

LEMMA SetupStep ==
  ASSUME SetupTypeOK, Descriptors, [Next]_vars
  PROVE  SetupTypeOK' /\ Descriptors'
<1> DEFINE Same == /\ program' = program /\ args' = args /\ port' = port
                   /\ inherited' = inherited /\ open' = open
                   /\ optind' = optind /\ f_option' = f_option /\ fd' = fd
                   /\ socket_fd' = socket_fd
           Operand == /\ res_hostname' = res_hostname /\ src_port' = src_port
                      /\ resolved' = resolved
           Net == bound' = bound /\ peer' = peer /\ inbox' = inbox
<1>0. /\ res_hostname \in Words \cup {None, NULL, "beyond"}
      /\ src_port \in Int /\ resolved \in BOOLEAN
      /\ bound \in PortNumbers \cup {-1}
      /\ peer \in Clients \cup {None, "receiver"} /\ inbox \in Seq(Clients)
      /\ optind \in 1 .. Len(args) + 1
  BY DEF SetupTypeOK
<1>1. CASE Start \/ NoMoreOptions
  <2>1. /\ Same /\ Operand /\ Net
        /\ pc \in Unattached /\ pc' \in Unattached \cup Ended
    BY <1>1
    DEF Start, NoMoreOptions, given, options, operands, network,
        Unattached, Ended
  <2> QED  BY <1>0, <2>1, OtherSteps
<1>2. CASE Operands
  <2>1. /\ Same /\ Net /\ resolved' = resolved
        /\ pc \in Unattached /\ pc' \in Unattached \cup Ended
    BY <1>2 DEF Operands, given, options, network, Unattached, Ended
  <2>2. res_hostname' \in Words \cup {NULL, "beyond"}
    BY <1>2, Words_Type DEF Operands, FirstOperand
  <2>3. src_port' \in Int
    <3>1. \A word : atoi(word) \in Int  BY Words_Type DEF atoi
    <3> QED  BY <1>0, <1>2, <3>1 DEF Operands
  <2> QED  BY <1>0, <2>1, <2>2, <2>3, OtherSteps
<1>3. CASE Resolve
  <2>1. /\ Same /\ Net /\ res_hostname' = res_hostname /\ src_port' = src_port
        /\ pc \in Unattached /\ pc' \in Unattached \cup Ended
        /\ resolved' \in BOOLEAN
    BY <1>3 DEF Resolve, given, options, network, Unattached, Ended
  <2> QED  BY <1>0, <2>1, OtherSteps
<1>4. CASE Arrive
  <2>1. /\ Same /\ Operand /\ bound' = bound /\ peer' = peer /\ pc' = pc
    BY <1>4 DEF Arrive, given, options, operands
  <2>2. inbox' \in Seq(Clients)  BY <1>0, <1>4 DEF Arrive
  <2> QED  BY <1>0, <2>1, <2>2, OtherSteps
<1>5. CASE PeekFirst
  <2>1. /\ Same /\ Operand /\ bound' = bound /\ inbox' = inbox
        /\ pc \in Attached /\ pc' \in Attached
    BY <1>5 DEF PeekFirst, given, options, operands, Attached
  <2>2. peer' \in Clients  BY <1>0, <1>5 DEF PeekFirst
  <2> QED  BY <1>0, <2>1, <2>2, OtherSteps
<1>6. CASE Timer
  <2>1. /\ Same /\ Operand /\ Net
        /\ pc \in Attached /\ pc' \in Attached \cup {"crashed"}
    BY <1>6 DEF Timer, given, options, operands, network, Attached
  <2> QED  BY <1>0, <2>1, OtherSteps
<1>7. CASE Attach
  <2>1. /\ Same /\ Operand /\ inbox' = inbox /\ peer' \in {None, "receiver"}
        /\ pc \in Attached /\ pc' \in Attached
    BY <1>7 DEF Attach, given, options, operands, Attached
  <2>2. bound' \in PortNumbers  BY <1>0, <1>7, PortNumber DEF Attach
  <2> QED  BY <1>0, <2>1, <2>2, OtherSteps
<1>8. CASE UNCHANGED vars
  <2>1. Same /\ Operand /\ Net /\ pc' = pc  BY <1>8 DEF vars
  <2> QED  BY <1>0, <2>1, OtherSteps
<1> QED
  BY <1>1, <1>2, <1>3, <1>4, <1>5, <1>6, <1>7, <1>8, OptionStep, SocketStep,
     CloseStep
  DEF Next

-----------------------------------------------------------------------------
(* What is open is known throughout: the file of the last -f option and    *)
(* the standard descriptors that were open stay open until the end, and    *)
(* the socket gets a descriptor none of them has.                          *)
LEMMA DescriptorsKnown == Spec => [](SetupTypeOK /\ Descriptors)
<1>1. Init => SetupTypeOK /\ Descriptors
  <2> SUFFICES ASSUME Init  PROVE SetupTypeOK /\ Descriptors  OBVIOUS
  <2>1. inherited \subseteq Nat /\ IsFiniteSet(inherited) /\ open = inherited
    BY SetupAssumption DEF Init
  <2>2. /\ args \in Seq(Words) /\ Len(args) \in Nat /\ optind = 1
        /\ f_option = 0
    BY SetupAssumption DEF Init
  <2>3. inbox \in Seq(Clients)  BY EmptySeq DEF Init
  <2>4. fd \in Nat  BY DEF Init, STDIN_FILENO, STDOUT_FILENO
  <2>5. optind \in 1 .. Len(args) + 1 /\ f_option \in {0, 1}  BY <2>2
  <2>6. SetupTypeOK
    <3>1. /\ program \in {"sender", "receiver"} /\ args \in Commands
          /\ port \in Ports /\ inherited \in Inherited /\ open \subseteq Nat
      BY <2>1 DEF Init
    <3>2. pc = "start" /\ socket_fd = -1 /\ src_port = 0 /\ resolved = FALSE
      BY DEF Init
    <3>3. /\ bound \in PortNumbers \cup {-1}
          /\ res_hostname \in Words \cup {None, NULL, "beyond"}
          /\ peer \in Clients \cup {None, "receiver"}
      BY DEF Init
    <3>4. resolved \in BOOLEAN  BY <3>2
    <3>5. socket_fd \in Nat \cup {-1} /\ src_port \in Int  BY <3>2
    <3>6. pc \in {"start", "options", "operands", "resolve", "socket",
                  "attach", "wait", "timer", "loop"} \cup Ended
      BY <3>2
    <3> QED  BY <2>3, <2>4, <2>5, <3>1, <3>3, <3>4, <3>5, <3>6 DEF SetupTypeOK
  <2>7. Descriptors
    BY <2>1, <2>2
    DEF Init, Descriptors, SocketNotLeft, Unattached, Attached, Ended
  <2> QED  BY <2>6, <2>7
<1>2. SetupTypeOK /\ Descriptors /\ [Next]_vars
        => (SetupTypeOK /\ Descriptors)'
  BY SetupStep
<1> QED  BY <1>1, <1>2, PTL DEF Spec

(* Whatever is on the command line and whichever calls fail, the variables *)
(* of main and its callees keep their types: a file that was opened has a  *)
(* descriptor (sender.c:373), and getopt looks at no word after the last.  *)
THEOREM SetupTypes == Spec => []SetupTypeOK
<1> QED  BY DescriptorsKnown, PTL

(* Every way out of either main has closed the socket, also when bind,     *)
(* connect or recvfrom fails (create_socket.c:46-62, receiver.c:300).      *)
THEOREM SocketClosed == Spec => []SocketNotLeft
<1>1. Descriptors => SocketNotLeft  BY DEF Descriptors
<1> QED  BY <1>1, DescriptorsKnown, PTL

(* The payloads never go through the socket's descriptor, however many     *)
(* files the options open and whichever descriptors were open at the start *)
(* (sender.c:346-382, receiver.c:242-272).                                 *)
THEOREM FileApart == Spec => []FileIsNotSocket
<1>1. Descriptors => FileIsNotSocket
  BY DEF Descriptors, FileIsNotSocket, Attached
<1> QED  BY <1>1, DescriptorsKnown, PTL

(* The receiver talks to the sender of its first datagram, which is still  *)
(* in the socket when its loop begins (wait_for_client.c:16-33).           *)
THEOREM FirstPeer == Spec => []PeerIsFirst
<1>1. Init => PeerIsFirst  BY DEF Init, PeerIsFirst
<1>2. ASSUME SetupTypeOK, PeerIsFirst, [Next]_vars  PROVE PeerIsFirst'
  <2>1. CASE Arrive
    <3>1. /\ program' = program /\ pc' = pc /\ socket_fd' = socket_fd
          /\ peer' = peer /\ \E c \in Clients : inbox' = Append(inbox, c)
      BY <2>1 DEF Arrive, given
    <3>2. inbox \in Seq(Clients)  BY <1>2 DEF SetupTypeOK
    <3>3. inbox # << >> => inbox' # << >> /\ Head(inbox') = Head(inbox)
      BY <3>1, <3>2, AppendProperties, HeadTailProperties
    <3> QED  BY <1>2, <3>1, <3>3 DEF PeerIsFirst
  <2>2. CASE PeekFirst  BY <2>2 DEF PeekFirst, PeerIsFirst
  <2>3. CASE Timer
    <3>1. /\ program' = program /\ pc = "timer" /\ socket_fd' = socket_fd
          /\ peer' = peer /\ inbox' = inbox
      BY <2>3 DEF Timer, given, network
    <3> QED  BY <1>2, <3>1 DEF PeerIsFirst
  <2>4. CASE Attach
    <3>1. /\ program' = program /\ socket_fd' = socket_fd
          /\ pc' = IF program = "sender" THEN "loop"
                   ELSE IF socket_fd > 0 THEN "wait" ELSE "timer"
      BY <2>4 DEF Attach, given
    <3> QED  BY <3>1 DEF PeerIsFirst
  <2>5. CASE \/ Start \/ Option \/ NoMoreOptions \/ Operands \/ Resolve
             \/ Socket \/ AttachFails \/ WaitFails \/ Return
    <3>1. pc' \notin {"timer", "loop"}
      BY <2>5
      DEF Start, Option, Opens, NoMoreOptions, Operands, Resolve, Socket,
          AttachFails, WaitFails, Return
    <3> QED  BY <3>1 DEF PeerIsFirst
  <2>6. CASE UNCHANGED vars  BY <1>2, <2>6 DEF vars, PeerIsFirst
  <2> QED  BY <1>2, <2>1, <2>2, <2>3, <2>4, <2>5, <2>6 DEF Next
<1> QED  BY <1>1, <1>2, DescriptorsKnown, PTL DEF Spec

-----------------------------------------------------------------------------
(* What is known while the options are looked at: f_option tells whether   *)
(* getopt is still at the first word.                                      *)
Counted ==
  /\ pc \in {"start", "options", "operands"} =>
       /\ res_hostname = None /\ (f_option = 0 <=> optind = 1)
  /\ UsesOperands

(* For every command line: where getopt stops after two words of options,  *)
(* or at the first word, main uses the two words that come next, whatever  *)
(* they are (sender.c:384-393, receiver.c:273-281).                        *)
THEOREM OperandsUsed == Spec => []UsesOperands
<1>1. Init => Counted  BY DEF Init, Counted, UsesOperands
<1>2. ASSUME SetupTypeOK, Counted, [Next]_vars  PROVE Counted'
  <2>1. CASE Operands
    <3>1. /\ pc = "operands" /\ args' = args /\ port' = port
          /\ optind' = optind /\ pc' \in {"crashed", "resolve"}
          /\ res_hostname' \in Argv(FirstOperand)
          /\ \E word \in Argv(FirstOperand + 1) :
               word # NULL => src_port' = atoi(word)
      BY <2>1 DEF Operands, given, options
    <3>2. ASSUME optind \in {1, 3}, optind < Len(args)
          PROVE  res_hostname' = args[optind]
                 /\ src_port' = atoi(args[optind + 1])
      <4>1. FirstOperand = optind
        BY <1>2, <3>1, <3>2 DEF Counted, FirstOperand
      <4>2. /\ Argv(optind) = {args[optind]}
            /\ Argv(optind + 1) = {args[optind + 1]}
        BY <3>2, Words_Type, <1>2 DEF Argv
      <4>3. args[optind + 1] # NULL
        BY <1>2, <3>2, Words_Type DEF Words, NULL
      <4> QED  BY <3>1, <4>1, <4>2, <4>3
    <3>3. atoi(args[optind + 1])' = atoi(args[optind + 1])
      BY <3>1 DEF atoi
    <3> QED  BY <3>1, <3>2, <3>3 DEF Counted, UsesOperands
  <2>2. CASE Option
    <3>1. /\ pc = "options" /\ pc' \in {"options", "failed"}
          /\ res_hostname' = res_hostname
          /\ optind' \in {optind + 1, optind + 2}
          /\ pc' = "options" => f_option' = 1
      BY <2>2 DEF Option, Opens, operands
    <3>2. optind' # 1  BY <1>2, <3>1, Words_Type DEF SetupTypeOK
    <3> QED  BY <1>2, <3>1, <3>2 DEF Counted, UsesOperands
  <2>3. CASE \/ Start \/ NoMoreOptions \/ Resolve \/ Socket \/ AttachFails
             \/ Attach \/ Arrive \/ PeekFirst \/ WaitFails \/ Timer \/ Return
             \/ UNCHANGED vars
    <3>1. /\ args' = args /\ port' = port /\ res_hostname' = res_hostname
          /\ src_port' = src_port /\ optind' = optind /\ f_option' = f_option
      BY <2>3
      DEF Start, NoMoreOptions, Resolve, Socket, AttachFails, Attach, Arrive,
          PeekFirst, WaitFails, Timer, Return, given, options, operands, vars
    <3>2. pc' \in {"start", "options", "operands"} =>
            pc \in {"start", "options", "operands"}
      BY <2>3
      DEF Start, NoMoreOptions, Resolve, Socket, AttachFails, Attach, Arrive,
          PeekFirst, WaitFails, Timer, Return, vars
    <3>3. atoi(args[optind + 1])' = atoi(args[optind + 1])
      BY <3>1 DEF atoi
    <3> QED  BY <1>2, <3>1, <3>2, <3>3 DEF Counted, UsesOperands
  <2> QED  BY <1>2, <2>1, <2>2, <2>3 DEF Next
<1>3. Counted => UsesOperands  BY DEF Counted
<1> QED  BY <1>1, <1>2, <1>3, DescriptorsKnown, PTL DEF Spec
=============================================================================
