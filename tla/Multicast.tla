------------------------------ MODULE Multicast ------------------------------
(***************************************************************************)
(* The programs of multicast/: multicast_send sends its arguments to a     *)
(* group, multicast_recv and multicast_group (mgroup) run on one host.     *)
(* Which groups the host takes datagrams of is decided by the kernel, for  *)
(* all its sockets together.                                               *)
(***************************************************************************)
EXTENDS Integers, Sequences, FiniteSets

CONSTANTS
  Groups4, Groups6,  \* multicast addresses; a name outside is none
  Sends,         \* [group, words]: runs of multicast_send, by the lengths of
                 \* the words
  MgroupRuns,    \* [args, typed]: runs of mgroup; its options, [opt, group]
                 \* with opt "j" or "l", and what its terminal or pipe gives,
                 \* in reads that are sequences of characters
  EXIT,          \* the word that ends mgroup
  MAX_MSG_SIZE,  \* bytes that multicast_recv takes of a datagram, 1023
  MaxUnicast     \* bound: datagrams that others send to the host itself

NewLine == 0
ASSUME MulticastOK ==
  /\ EXIT \in Seq(Nat) /\ Len(EXIT) > 0 /\ \A k \in DOMAIN EXIT : EXIT[k] # NewLine
  /\ Groups4 \cup Groups6 \subseteq STRING /\ MAX_MSG_SIZE \in Nat /\ MaxUnicast \in Nat
  /\ Sends \subseteq [group : STRING, words : Seq(Nat)]
  /\ MgroupRuns \subseteq [args : Seq([opt : {"j", "l"}, group : STRING]), typed : Seq(Seq(Nat))]

VARIABLES
  (* multicast_recv *)
  mrPc, mrGroup, fd_sock, mrInbox, mrShown,
  (* multicast_send *)
  msRun, msAt,
  (* mgroup: its options, the descriptors that are members of a group, the  *)
  (* groups it has said to have joined, and its terminal or pipe *)
  mgPc, mgArgs, mgAt, mgHeld, mgSaid, mgSock, mgInput, mgRead, mgBuffer,
  (* the network and others *)
  air, unicasts

mrVars  == <<mrPc, mrGroup, fd_sock, mrInbox, mrShown>>
msVars  == <<msRun, msAt>>
mgVars  == <<mgPc, mgArgs, mgAt, mgHeld, mgSaid, mgSock, mgInput, mgRead, mgBuffer>>
mcVars  == <<mrVars, msVars, mgVars, air, unicasts>>

(* A buffer that nobody has filled holds anything, bytes of the word too.  *)
Unset == [1..Len(EXIT) -> {EXIT[k] : k \in DOMAIN EXIT}]

MulticastInit ==
  /\ mrPc = "socket" /\ mrGroup \in Groups4 \cup Groups6
  /\ fd_sock = "none" /\ mrInbox = <<>> /\ mrShown = <<>>
  /\ msRun \in Sends /\ msAt = 0
  /\ \E r \in MgroupRuns : mgArgs = r.args /\ mgInput = r.typed
  /\ mgPc = "options" /\ mgAt = 1 /\ mgHeld = {} /\ mgSaid = {} /\ mgSock = -1
  /\ mgRead = 0 /\ mgBuffer \in Unset
  /\ air = {} /\ unicasts = 0
-----------------------------------------------------------------------------
(* multicast_recv. *)

(* Whatever fails ends the program; what it has opened is closed.          *)
McGiveUp == /\ mrPc \in {"socket", "bind", "join"} /\ mrPc' = "exit"
            /\ fd_sock' = "closed" /\ mrInbox' = <<>>
            /\ UNCHANGED <<mrGroup, mrShown, msVars, mgVars, air, unicasts>>

McSocket == /\ mrPc = "socket" /\ mrPc' = "bind"
            /\ UNCHANGED <<mrGroup, fd_sock, mrInbox, mrShown, msVars, mgVars, air, unicasts>>

(* From here on, before the group is joined, datagrams may arrive.         *)
McBind == /\ mrPc = "bind" /\ mrPc' = "join" /\ fd_sock' = "bound"
          /\ UNCHANGED <<mrGroup, mrInbox, mrShown, msVars, mgVars, air, unicasts>>

McJoin == /\ mrPc = "join" /\ mrPc' = "recv" /\ fd_sock' = "member"
          /\ UNCHANGED <<mrGroup, mrInbox, mrShown, msVars, mgVars, air, unicasts>>

(* remoteAddr has room for half of an IPv6 address.  The length that comes *)
(* back is that of a whole one, so that the next datagram's is whole and   *)
(* covers the variables behind it: if fd_sock is among them it is lost.    *)
AddressOf(d) == IF mrGroup \in Groups6 /\ mrShown = <<>> THEN "half" ELSE d.from
MayLose == IF mrGroup \in Groups6 /\ mrShown # <<>> THEN {fd_sock, "lost"} ELSE {fd_sock}

(* What does not fit is cut off; all of it is said to be of the group.     *)
AllOfIt(size) == size                                              \* mutant
McCut(size) == IF size > MAX_MSG_SIZE THEN MAX_MSG_SIZE ELSE size
McRecv ==
  /\ mrPc = "recv" /\ fd_sock = "member" /\ mrInbox # <<>>
  /\ LET d == Head(mrInbox) IN
       mrShown' = Append(mrShown, [dgram |-> d, size |-> McCut(d.size), from |-> AddressOf(d)])
  /\ fd_sock' \in MayLose /\ mrInbox' = Tail(mrInbox)
  /\ UNCHANGED <<mrPc, mrGroup, msVars, mgVars, air, unicasts>>
-----------------------------------------------------------------------------
(* multicast_send. *)

(* It ends without a word when its setup fails.                            *)
SetupSend == /\ msAt = 0 /\ msAt' \in {1, Len(msRun.words) + 1}
             /\ UNCHANGED <<mrVars, msRun, mgVars, air, unicasts>>

(* A word that cannot be sent is passed over.                              *)
SendWord ==
  /\ msAt \in DOMAIN msRun.words /\ msAt' = msAt + 1
  /\ \/ air' = air \cup {[to |-> msRun.group, from |-> "sender", id |-> msAt,
                          size |-> msRun.words[msAt] + 1]}
     \/ UNCHANGED air
  /\ UNCHANGED <<mrVars, msRun, mgVars, unicasts>>
-----------------------------------------------------------------------------
(* mgroup. *)

(* A new socket for each option.  It is in no group, so that no group can  *)
(* be left; the one of the option before is never closed.                  *)
LeftByName(group) == {s \in mgHeld : s.group # group}                  \* mutant
LeftBy(group) == mgHeld
McOption ==
  /\ mgPc = "options" /\ mgAt \in DOMAIN mgArgs /\ mgAt' = mgAt + 1
  /\ LET o == mgArgs[mgAt] IN
       \/ /\ o.opt = "j" /\ o.group \in Groups4
          /\ mgHeld' = mgHeld \cup {[fd |-> mgAt, group |-> o.group]} /\ mgSock' = mgAt
          /\ mgSaid' = mgSaid \cup {o.group}
       \/ o.opt = "j" /\ mgSock' = -1 /\ UNCHANGED <<mgHeld, mgSaid>>
       \/ o.opt = "l" /\ mgSock' = -1 /\ mgHeld' = LeftBy(o.group) /\ UNCHANGED mgSaid
  /\ UNCHANGED <<mrVars, msVars, mgPc, mgArgs, mgInput, mgRead, mgBuffer, air, unicasts>>

McOptionsEnd ==
  /\ mgPc = "options" /\ mgAt \notin DOMAIN mgArgs /\ mgPc' = "read"
  /\ UNCHANGED <<mrVars, msVars, mgArgs, mgAt, mgHeld, mgSaid, mgSock, mgInput, mgRead, mgBuffer, air, unicasts>>

(* What is read stands in front of what was there.  At the end of the      *)
(* input, when read gives nothing, nothing is compared.                    *)
Over(chunk) == [k \in DOMAIN EXIT |-> IF k \in DOMAIN chunk THEN chunk[k] ELSE mgBuffer[k]]
McRead ==
  /\ mgPc = "read" /\ mgRead < Len(mgInput) /\ mgRead' = mgRead + 1
  /\ mgBuffer' = Over(mgInput[mgRead + 1])
  /\ IF mgInput[mgRead + 1] # <<>> /\ mgBuffer' = EXIT
       THEN mgPc' = "exit" /\ mgHeld' = {} ELSE UNCHANGED <<mgPc, mgHeld>>
  /\ UNCHANGED <<mrVars, msVars, mgArgs, mgAt, mgSaid, mgSock, mgInput, air, unicasts>>
-----------------------------------------------------------------------------
(* The kernel and others. *)

(* A socket that is bound to any address, even to any of IPv6, takes what  *)
(* the host takes.                                                         *)
HostTakes == (IF fd_sock \in {"member", "lost"} THEN {mrGroup} ELSE {})
             \cup {s.group : s \in mgHeld}
McArrive ==
  /\ fd_sock \in {"bound", "member"}
  /\ \E d \in air :
       /\ d.to \in HostTakes \cup {"host"}
       /\ mrInbox' = Append(mrInbox, d) /\ air' = air \ {d}
  /\ UNCHANGED <<mrPc, mrGroup, fd_sock, mrShown, msVars, mgVars, unicasts>>

McUnicast ==
  /\ unicasts < MaxUnicast /\ unicasts' = unicasts + 1
  /\ air' = air \cup {[to |-> "host", from |-> "other", id |-> unicasts + 1, size |-> 0]}
  /\ UNCHANGED <<mrVars, msVars, mgVars>>

McReceiver == McGiveUp \/ McSocket \/ McBind \/ McJoin \/ McRecv
McGroup    == McOption \/ McOptionsEnd \/ McRead
MulticastNext == McReceiver \/ SetupSend \/ SendWord \/ McGroup \/ McArrive \/ McUnicast

(* mgroup is scheduled, and what is typed is there to be read.             *)
MulticastFair == WF_mcVars(McGroup)
MulticastSpec == MulticastInit /\ [][MulticastNext]_mcVars
-----------------------------------------------------------------------------
(* Properties.                                                             *)

MulticastTypeOK ==
  /\ mrPc \in {"socket", "bind", "join", "recv", "exit"}
  /\ fd_sock \in {"none", "bound", "member", "lost", "closed"}
  /\ msAt \in 0 .. Len(msRun.words) + 1
  /\ mgPc \in {"options", "read", "exit"} /\ mgAt \in 1 .. Len(mgArgs) + 1
  /\ mgSock \in -1 .. Len(mgArgs) /\ mgRead \in 0 .. Len(mgInput) /\ unicasts \in 0 .. MaxUnicast

(* multicast_recv says of everything that it came on its group             *)
(* (multicast_recv.c:269-290).  It came on the group, or to the host       *)
(* itself, or, since the socket is bound to any address (90), on a group   *)
(* that another program of the host had joined by then; each datagram is   *)
(* shown once and whole up to the size of the buffer, and its sender is    *)
(* named, except half of the first one over IPv6.                          *)
JoinedByOthers == {mgArgs[k].group : k \in {l \in 1 .. mgAt - 1 : mgArgs[l].opt = "j"}}
ShownIsTrue ==
  \A k \in DOMAIN mrShown :
    LET d == mrShown[k].dgram IN
      /\ d.to \in {mrGroup, "host"} \cup JoinedByOthers
      /\ mrShown[k].size = IF d.size <= MAX_MSG_SIZE THEN d.size ELSE MAX_MSG_SIZE
      /\ d.from = "sender" => d.to = msRun.group /\ d.size = msRun.words[d.id] + 1
      /\ mrShown[k].from = d.from \/ (mrGroup \in Groups6 /\ k = 1)

(* A group that mgroup says it has joined is held until it ends, whatever  *)
(* it was told to leave (multicast_group.c:100-121) and however many       *)
(* options have failed since; on a terminal, whose reads are whole lines,  *)
(* it ends at the first line that begins with the word, although what is   *)
(* compared may be older than the read (185).                              *)
BeginsWithExit(chunk) == Len(chunk) >= Len(EXIT) /\ SubSeq(chunk, 1, Len(EXIT)) = EXIT
ByLine == \A k \in DOMAIN mgInput : mgInput[k] # <<>> /\ mgInput[k][Len(mgInput[k])] = NewLine
GroupsAreHeld ==
  /\ {s.group : s \in mgHeld} = (IF mgPc = "exit" THEN {} ELSE mgSaid)
  /\ ByLine => (mgPc = "exit" <=> \E k \in 1 .. mgRead : BeginsWithExit(mgInput[k]))
  /\ ByLine => \A k \in 1 .. mgRead - 1 : ~BeginsWithExit(mgInput[k])

(* The word ends mgroup; the end of its input never does                   *)
(* (multicast_group.c:180-187), and multicast_recv goes on for ever.       *)
ExitIsRead == (ByLine /\ \E k \in DOMAIN mgInput : BeginsWithExit(mgInput[k])) ~> mgPc = "exit"
=============================================================================
