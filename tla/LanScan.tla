------------------------------ MODULE LanScan -------------------------------
(***************************************************************************)
(* The ARP scanner of lan_scan/lan_scan.c: main opens a packet socket,     *)
(* starts recvTask, and only then fills the prefix _ipDst that recvTask    *)
(* compares senders with; it probes the addresses one after the other,     *)
(* waits for a key, closes the socket under the receiver and joins it.  A  *)
(* signal may end the process at any point.                                *)
(***************************************************************************)
EXTENDS Integers, Sequences, FiniteSets

CONSTANTS
  Prefix,      \* the first three octets of the address on the command line
  Target,      \* its last octet; 0 scans First .. Last
  First, Last, \* the defaults of start and end, 1 and 254
  Senders,     \* sender addresses in the ARP frames on the wire
  MACs,        \* sender MAC addresses
  MAC_SLOTS,   \* MACs stored per host, 8
  MaxFrames,   \* bound: frames that arrive
  MaxQueue     \* frames the socket buffers before it drops

ASSUME ConstantsOK ==
  /\ Prefix \in [1 .. 3 -> Nat] /\ Target \in Nat
  /\ First \in Nat /\ Last \in Nat /\ First <= Last
  /\ Senders \subseteq [prefix : [1 .. 3 -> Nat], host : Nat]
  /\ MAC_SLOTS \in Nat \ {0} /\ MaxFrames \in Nat /\ MaxQueue \in Nat \ {0}

VARIABLES
  mpc,      \* where main is
  rpc,      \* where recvTask is
  filled,   \* octets of _ipDst main has filled, the others are still 0
  next,     \* i of the scan loop, valid while mpc = "scan"
  probed,   \* history: last octets given to sendArp, in order
  sock,     \* is _sock a descriptor (or -1)?
  open,     \* is that descriptor open?
  queue,    \* frames in the socket's receive buffer
  arrived,  \* how many frames have arrived
  frame,    \* the frame in _rxBuf
  begun,    \* history: octets filled when recvTask began to compare it
  octet,    \* octets of the frame found equal to _ipDst
  hosts,    \* _hosts[h].mac[0 .. macNum-1]
  lines,    \* history: the lines printed about each host, in order
  taken     \* history: every frame that matched, with its begun

mainVars  == <<mpc, filled, next, probed>>
recvVars  == <<rpc, frame, begun, octet, hosts, lines, taken>>
sockVars  == <<sock, open>>
wireVars  == <<queue, arrived>>
vars      == <<mpc, rpc, filled, next, probed, sock, open, queue, arrived,
               frame, begun, octet, hosts, lines, taken>>

Frames   == [sender : Senders, mac : MACs]
HostIds  == {s.host : s \in Senders}
Marks    == {"plain", "!"}
NoFrame  == [sender |-> [prefix |-> Prefix, host |-> 0], mac |-> {}]

Init ==
  /\ mpc = "open" /\ rpc = "none"
  /\ filled = 0 /\ next = First /\ probed = <<>>
  /\ sock = FALSE /\ open = FALSE
  /\ queue = <<>> /\ arrived = 0
  /\ frame = NoFrame /\ begun = 0 /\ octet = 0
  /\ hosts = [h \in HostIds |-> <<>>]
  /\ lines = [h \in HostIds |-> <<>>] /\ taken = {}

IpDstFromTheEnd(i) == IF i > 3 - filled THEN Prefix[i] ELSE 0     \* mutant
IpDst(i) == IF i <= filled THEN Prefix[i] ELSE 0
-----------------------------------------------------------------------------
(* main *)

(* openSocket fails without privileges or for a wrong interface. *)
OpenSocket ==
  /\ mpc = "open"
  /\ \/ mpc' = "create" /\ sock' = TRUE /\ open' = TRUE
     \/ mpc' = "exit" /\ UNCHANGED sockVars
  /\ UNCHANGED <<filled, next, probed, recvVars, wireVars>>

(* The receiver runs from here on, before _ipDst is filled. *)
CreateThread ==
  /\ mpc = "create"
  /\ \/ mpc' = "fill" /\ rpc' = "recv" /\ UNCHANGED open
     \/ mpc' = "exit" /\ open' = FALSE /\ UNCHANGED rpc
  /\ UNCHANGED <<filled, next, probed, sock, wireVars, frame, begun, octet, hosts, lines, taken>>

FillOctet ==
  /\ mpc = "fill" /\ filled < 3
  /\ filled' = filled + 1
  /\ UNCHANGED <<mpc, next, probed, recvVars, sockVars, wireVars>>

(* The last octet selects one address or the whole range. *)
Start == IF Target # 0 THEN Target ELSE First
End   == IF Target # 0 THEN Target ELSE Last

StartScan ==
  /\ mpc = "fill" /\ filled = 3
  /\ mpc' = "scan" /\ next' = Start
  /\ UNCHANGED <<filled, probed, recvVars, sockVars, wireVars>>

(* sendArp only reports a failing sendto, so the loop goes on either way.  *)
ScanBeforeEnd == next < End                                        \* mutant
InScan == next <= End

SendArp ==
  /\ mpc = "scan" /\ InScan
  /\ probed' = Append(probed, next)
  /\ next' = next + 1
  /\ UNCHANGED <<mpc, filled, recvVars, sockVars, wireVars>>

EndScan ==
  /\ mpc = "scan" /\ ~InScan
  /\ mpc' = "key"
  /\ UNCHANGED <<filled, next, probed, recvVars, sockVars, wireVars>>

(* getchar returns.  Closing takes the descriptor away; a receiver already *)
(* waiting in recvfrom keeps the socket itself alive and goes on waiting.  *)
Waiting == rpc = "wait"

CloseSocket ==
  /\ mpc = "key"
  /\ mpc' = "closed" /\ open' = FALSE
  /\ queue' = IF Waiting THEN queue ELSE <<>>
  /\ UNCHANGED <<filled, next, probed, recvVars, sock, arrived>>

ClearSock ==
  /\ mpc = "closed"
  /\ mpc' = "join" /\ sock' = FALSE
  /\ UNCHANGED <<filled, next, probed, recvVars, open, wireVars>>

Join ==
  /\ mpc = "join" /\ rpc = "gone"
  /\ mpc' = "exit"
  /\ UNCHANGED <<filled, next, probed, recvVars, sockVars, wireVars>>

(* SIGINT or SIGTERM: the handler closes the socket and exits, which ends  *)
(* the receiver too.                                                       *)
Signal ==
  /\ mpc \notin {"open", "exit"}
  /\ mpc' = "exit" /\ rpc' = "gone"
  /\ sock' = FALSE /\ open' = FALSE
  /\ UNCHANGED <<filled, next, probed, wireVars, frame, begun, octet, hosts, lines, taken>>
-----------------------------------------------------------------------------
(* recvTask *)

(* recvfrom on a closed descriptor, or on -1, fails and ends the thread. *)
Retry == "recv"                                                   \* mutant
AfterFailure == "gone"

EnterRecv ==
  /\ rpc = "recv"
  /\ rpc' = IF sock /\ open THEN "wait" ELSE AfterFailure
  /\ UNCHANGED <<mainVars, sockVars, wireVars, frame, begun, octet, hosts, lines, taken>>

Received ==
  /\ rpc = "wait" /\ queue # <<>>
  /\ frame' = Head(queue) /\ queue' = Tail(queue)
  /\ octet' = 0 /\ begun' = filled
  /\ rpc' = "match"
  /\ UNCHANGED <<mainVars, sockVars, arrived, hosts, lines, taken>>

(* One octet of the sender against the octet main has or has not filled.   *)
SameOctet(i) == frame.sender.prefix[i] = IpDst(i)

MatchOctet ==
  /\ rpc = "match" /\ octet < 3
  /\ \/ /\ SameOctet(octet + 1)
        /\ octet' = octet + 1 /\ UNCHANGED rpc
     \/ /\ ~SameOctet(octet + 1)
        /\ rpc' = "recv" /\ UNCHANGED octet
  /\ UNCHANGED <<mainVars, sockVars, wireVars, frame, begun, hosts, lines, taken>>

SlotsOf(h) == {hosts[h][i] : i \in 1 .. Len(hosts[h])}
KnownFirst(h, mac) == hosts[h] # <<>> /\ mac = hosts[h][1]        \* mutant
Known(h, mac) == mac \in SlotsOf(h)
StoreAlways(h, mac) == Append(hosts[h], mac)                      \* mutant
Store(h, mac) ==
  IF Len(hosts[h]) < MAC_SLOTS THEN Append(hosts[h], mac) ELSE hosts[h]
PrintsStored(h, mac) == ~Known(h, mac) /\ Len(hosts[h]) < MAC_SLOTS \* mutant
Prints(h, mac) == ~Known(h, mac)
Mark(h) == IF hosts[h] = <<>> THEN "plain" ELSE "!"

Record ==
  LET h == frame.sender.host  mac == frame.mac IN
  /\ rpc = "match" /\ octet = 3
  /\ rpc' = "recv"
  /\ taken' = taken \cup {[sender |-> frame.sender, mac |-> mac, begun |-> begun]}
  /\ hosts' = IF Known(h, mac) THEN hosts ELSE [hosts EXCEPT ![h] = Store(h, mac)]
  /\ lines' = IF Prints(h, mac)
                THEN [lines EXCEPT ![h] = Append(@, [mac |-> mac, mark |-> Mark(h)])]
                ELSE lines
  /\ UNCHANGED <<mainVars, sockVars, wireVars, frame, begun, octet>>
-----------------------------------------------------------------------------
(* The wire: an ARP frame arrives while the socket exists; a full receive  *)
(* buffer drops it.  Past the bound, one frame may still come for the      *)
(* receiver that was left waiting.                                         *)
Arrive ==
  /\ open \/ Waiting
  /\ arrived < MaxFrames \/ (~open /\ queue = <<>>)
  /\ \E f \in Frames :
       queue' = IF Len(queue) < MaxQueue THEN Append(queue, f) ELSE queue
  /\ arrived' = IF arrived < MaxFrames THEN arrived + 1 ELSE arrived
  /\ UNCHANGED <<mainVars, sockVars, recvVars>>

Main == \/ OpenSocket \/ CreateThread \/ FillOctet \/ StartScan \/ SendArp
        \/ EndScan \/ CloseSocket \/ ClearSock \/ Join
Recv == EnterRecv \/ Received \/ MatchOctet \/ Record
Next == Main \/ Signal \/ Recv \/ Arrive

Spec == Init /\ [][Next]_vars

(* The scheduler runs both threads; nothing is said of the key, of signals *)
(* or of the wire.                                                         *)
Threads ==
  /\ WF_vars(OpenSocket \/ CreateThread \/ FillOctet \/ StartScan \/ SendArp \/ EndScan)
  /\ WF_vars(ClearSock \/ Join)
  /\ WF_vars(Recv)
ThreadSpec  == Spec /\ Threads
TrafficSpec == Spec /\ Threads /\ WF_vars(Arrive)
-----------------------------------------------------------------------------
(* Properties.                                                             *)

TypeOK ==
  /\ mpc \in {"open", "create", "fill", "scan", "key", "closed", "join", "exit"}
  /\ rpc \in {"none", "recv", "wait", "match", "gone"}
  /\ filled \in 0 .. 3 /\ next \in Nat /\ probed \in Seq(Nat)
  /\ sock \in BOOLEAN /\ open \in BOOLEAN
  /\ queue \in Seq(Frames) /\ arrived \in 0 .. MaxFrames
  /\ frame \in Frames \cup {NoFrame} /\ octet \in 0 .. 3 /\ begun \in 0 .. 3
  /\ hosts \in [HostIds -> Seq(MACs)]
  /\ \A h \in HostIds : Len(hosts[h]) <= MAC_SLOTS
  /\ lines \in [HostIds -> Seq([mac : MACs, mark : Marks])]
  /\ taken \subseteq [sender : Senders, mac : MACs, begun : 0 .. 3]

StoredOnce == \A h \in HostIds : \A i, j \in 1 .. Len(hosts[h]) :
                hosts[h][i] = hosts[h][j] => i = j

(* The table is what has been printed: the MACs stored for a host are      *)
(* those of its first lines, in order, each stored and printed once; only  *)
(* when all slots are in use do lines go on, for MACs that are not stored  *)
(* (lan_scan.c:279-331).                                                   *)
TableIsPrinted ==
  /\ StoredOnce
  /\ \A h \in HostIds :
       /\ Len(hosts[h]) <= Len(lines[h])
       /\ \A i \in 1 .. Len(hosts[h]) : lines[h][i].mac = hosts[h][i]
       /\ \A i \in Len(hosts[h]) + 1 .. Len(lines[h]) :
            Len(hosts[h]) = MAC_SLOTS /\ lines[h][i].mac \notin SlotsOf(h)

(* No claimant of a host is swallowed, not even beyond the last slot: each *)
(* MAC that was taken for a host has a line, and every line of the host    *)
(* but the first has the conflict mark.                                    *)
ClaimsReported ==
  /\ \A f \in taken : \E i \in 1 .. Len(lines[f.sender.host]) :
       lines[f.sender.host][i].mac = f.mac
  /\ \A h \in HostIds : \A i \in 1 .. Len(lines[h]) : (lines[h][i].mark = "!") <=> i > 1

(* The table, the lines and the frames agree, however hosts and claimants  *)
(* take turns and wherever the slots end (lan_scan.c:279-332).             *)
TableIsTrue == TableIsPrinted /\ ClaimsReported

(* The race of recvTask with the filling of _ipDst (lan_scan.c:393-408):   *)
(* of a frame that is taken every octet is that of the LAN, or it is zero  *)
(* and main had not got to this octet when the comparison began (275-277). *)
(* The octets may be compared at any distance behind the filling: a frame  *)
(* from 0.2.3 can be taken, its first octet compared before and the others *)
(* after main has filled them, but none from 0.2.3 once main has begun.    *)
TakenAsFilled ==
  \A f \in taken : \A i \in 1 .. 3 :
    f.sender.prefix[i] = Prefix[i] \/ (f.sender.prefix[i] = 0 /\ f.begun < i)

(* When main waits for the key, every address of the range has been probed *)
(* exactly once, in ascending order.                                       *)
ProbedAll ==
  mpc \in {"key", "closed", "join"} =>
    probed = [i \in 1 .. End - Start + 1 |-> Start + i - 1]

(* "EXIT: socket closed" (lan_scan.c:261): after main has closed the       *)
(* socket the receiver leaves and main can join it.  It needs one more     *)
(* frame when the receiver is waiting in recvfrom.                         *)
CloseEndsReceiver == mpc = "closed" ~> mpc = "exit"
=============================================================================
