---------------------------- MODULE LanScanProofs ---------------------------
(***************************************************************************)
(* Proofs about LanScan: its types, that every address is probed once,     *)
(* which frames are taken while the prefix is being filled, and that the   *)
(* table, the lines and the frames agree, for any        *)
(* stations, any range and any number of slots.                            *)
(***************************************************************************)
EXTENDS LanScan, SequenceTheorems, TLAPS

(* The types in three parts: the two threads' control, the wire, and what  *)
(* the receiver has recorded.  TypeOK alone is not inductive: what is      *)
(* matched and recorded must be a frame, not what _rxBuf held before.      *)
Control ==
  /\ mpc \in {"open", "create", "fill", "scan", "key", "closed", "join", "exit"}
  /\ rpc \in {"none", "recv", "wait", "match", "gone"}
  /\ filled \in 0 .. 3 /\ next \in Nat
  /\ sock \in BOOLEAN /\ open \in BOOLEAN
  /\ arrived \in 0 .. MaxFrames
  /\ octet \in 0 .. 3 /\ begun \in 0 .. 3

Traffic ==
  /\ probed \in Seq(Nat) /\ queue \in Seq(Frames)
  /\ frame \in Frames \cup {NoFrame}
  /\ rpc = "match" => frame \in Frames

Table ==
  /\ hosts \in [HostIds -> Seq(MACs)]
  /\ \A h \in HostIds : Len(hosts[h]) <= MAC_SLOTS
  /\ lines \in [HostIds -> Seq([mac : MACs, mark : Marks])]
  /\ taken \subseteq [sender : Senders, mac : MACs, begun : 0 .. 3]

Types == Control /\ Traffic /\ Table

LEMMA TypesSuffice == Types => TypeOK
  BY DEF TypeOK, Types, Control, Traffic, Table

(* The range lies between natural numbers. *)
LEMMA Addresses == Start \in Nat /\ End \in Nat /\ Start <= End
  BY ConstantsOK DEF ConstantsOK, Start, End

(* The initial state is well typed. *)
LEMMA InitTypes == Init => Types
<1> SUFFICES ASSUME Init PROVE Control /\ Traffic /\ Table
  BY DEF Types
<1>0. First \in Nat /\ MaxFrames \in Nat /\ MAC_SLOTS \in Nat
  BY ConstantsOK DEF ConstantsOK
<1>1. Control
  <2>1. /\ mpc = "open" /\ rpc = "none" /\ filled = 0 /\ next = First
        /\ sock = FALSE /\ open = FALSE /\ arrived = 0 /\ octet = 0 /\ begun = 0
    BY DEF Init
  <2>2. /\ next \in Nat /\ filled \in 0 .. 3 /\ arrived \in 0 .. MaxFrames
        /\ octet \in 0 .. 3 /\ begun \in 0 .. 3
    BY <1>0, <2>1
  <2>3. sock \in BOOLEAN /\ open \in BOOLEAN
    BY <2>1
  <2>4. /\ mpc \in {"open", "create", "fill", "scan", "key", "closed", "join", "exit"}
        /\ rpc \in {"none", "recv", "wait", "match", "gone"}
    BY <2>1
  <2> QED
    BY <2>2, <2>3, <2>4 DEF Control
<1>2. Traffic
  BY DEF Init, Traffic
<1>3. Table
  <2>1. /\ hosts = [h \in HostIds |-> <<>>]
        /\ lines = [h \in HostIds |-> <<>>] /\ taken = {}
    BY DEF Init
  <2>2. <<>> \in Seq(MACs) /\ <<>> \in Seq([mac : MACs, mark : Marks]) /\ Len(<<>>) = 0
    BY EmptySeq
  <2>3. hosts \in [HostIds -> Seq(MACs)] /\ lines \in [HostIds -> Seq([mac : MACs, mark : Marks])]
    BY <2>1, <2>2
  <2>4. \A h \in HostIds : Len(hosts[h]) <= MAC_SLOTS
    BY <1>0, <2>1, <2>2
  <2> QED
    BY <2>1, <2>3, <2>4 DEF Table
<1> QED
  BY <1>1, <1>2, <1>3

(* Only Record touches the table. *)
LEMMA OthersKeepTable ==
  [Next]_vars => Record \/ UNCHANGED <<hosts, lines, taken>>
  BY DEF Next, Main, Recv, vars, mainVars, recvVars, OpenSocket, CreateThread, FillOctet,
     StartScan, SendArp, EndScan, CloseSocket, ClearSock, Join, Signal, EnterRecv,
     Received, MatchOctet, Arrive

(* Recording keeps the types; a host never gets more MACs than it has      *)
(* slots.                                                                  *)
LEMMA RecordKeepsTable == Control /\ Traffic /\ Table /\ Record => Table'
<1> SUFFICES ASSUME Control, Traffic, Table, Record PROVE Table'
  OBVIOUS
<1> DEFINE h == frame.sender.host  mac == frame.mac
<1>1. frame \in Frames
  BY DEF Record, Traffic
<1>2. frame.sender \in Senders /\ mac \in MACs /\ h \in HostIds
  BY <1>1 DEF Frames, HostIds
<1>3. hosts[h] \in Seq(MACs) /\ lines[h] \in Seq([mac : MACs, mark : Marks])
  BY <1>2 DEF Table
<1>4. hosts' \in [HostIds -> Seq(MACs)]
  <2>1. Store(h, mac) \in Seq(MACs)
    BY <1>2, <1>3 DEF Store
  <2> QED
    BY <2>1, <1>2 DEF Record, Table
<1>5. ASSUME NEW k \in HostIds PROVE Len(hosts'[k]) <= MAC_SLOTS
  <2>1. Len(hosts[k]) <= MAC_SLOTS /\ hosts[h] \in Seq(MACs) /\ MAC_SLOTS \in Nat
    BY <1>3, ConstantsOK DEF Table, ConstantsOK
  <2>2. CASE Known(h, mac) \/ k # h
    BY <2>1, <2>2 DEF Record, Table
  <2>3. CASE ~Known(h, mac) /\ k = h
    <3>1. hosts'[k] = Store(h, mac)
      BY <2>3, <1>2 DEF Record, Table
    <3> QED
      BY <3>1, <2>1, <2>3, <1>2 DEF Store
  <2> QED
    BY <2>2, <2>3
<1>6. lines' \in [HostIds -> Seq([mac : MACs, mark : Marks])]
  <2>1. [mac |-> mac, mark |-> Mark(h)] \in [mac : MACs, mark : Marks]
    BY <1>2 DEF Mark, Marks
  <2>2. Append(lines[h], [mac |-> mac, mark |-> Mark(h)]) \in Seq([mac : MACs, mark : Marks])
    BY <1>3, <2>1
  <2> QED
    BY <2>2, <1>2 DEF Record, Table
<1>7. taken' \subseteq [sender : Senders, mac : MACs, begun : 0 .. 3]
  BY <1>2 DEF Record, Table, Control
<1> QED
  BY <1>4, <1>5, <1>6, <1>7 DEF Table

(* Every step keeps the control typed. *)
LEMMA NextControl == Control /\ [Next]_vars => Control'
<1> SUFFICES ASSUME Control, [Next]_vars PROVE Control'
  OBVIOUS
<1> USE DEF Control, mainVars, recvVars, sockVars, wireVars
<1>0. CASE OpenSocket
  BY <1>0 DEF OpenSocket
<1>1. CASE CreateThread
  BY <1>1 DEF CreateThread
<1>9. CASE FillOctet
  BY <1>9 DEF FillOctet
<1>2. CASE StartScan \/ SendArp \/ EndScan
  BY <1>2, Addresses DEF StartScan, SendArp, EndScan
<1>3. CASE CloseSocket \/ ClearSock \/ Join \/ Signal
  BY <1>3 DEF CloseSocket, ClearSock, Join, Signal
<1>4. CASE EnterRecv \/ Received
  BY <1>4 DEF EnterRecv, AfterFailure, Received
<1>5. CASE MatchOctet
  BY <1>5 DEF MatchOctet
<1>6. CASE Record
  BY <1>6 DEF Record
<1>7. CASE Arrive
  BY <1>7, ConstantsOK DEF Arrive, ConstantsOK
<1>8. CASE UNCHANGED vars
  BY <1>8 DEF vars
<1> QED
  BY <1>1, <1>2, <1>3, <1>4, <1>5, <1>6, <1>7, <1>8, <1>9, <1>0 DEF Next, Main, Recv

(* Every step keeps the frames typed. *)
LEMMA NextTraffic == Control /\ Traffic /\ [Next]_vars => Traffic'
<1> SUFFICES ASSUME Control, Traffic, [Next]_vars PROVE Traffic'
  OBVIOUS
<1> USE DEF Traffic, mainVars, recvVars, sockVars, wireVars
<1>1. CASE OpenSocket \/ CreateThread \/ FillOctet \/ StartScan \/ EndScan
  BY <1>1 DEF OpenSocket, CreateThread, FillOctet, StartScan, EndScan
<1>2. CASE SendArp
  BY <1>2 DEF SendArp, Control
<1>3. CASE CloseSocket
  BY <1>3 DEF CloseSocket
<1>4. CASE ClearSock \/ Join \/ Signal
  BY <1>4 DEF ClearSock, Join, Signal
<1>8. CASE EnterRecv
  BY <1>8 DEF EnterRecv, AfterFailure
<1>9. CASE MatchOctet
  BY <1>9 DEF MatchOctet
<1>10. CASE Record
  BY <1>10 DEF Record
<1>5. CASE Received
  BY <1>5 DEF Received
<1>6. CASE Arrive
  BY <1>6 DEF Arrive
<1>7. CASE UNCHANGED vars
  BY <1>7 DEF vars
<1> QED
  BY <1>1, <1>2, <1>3, <1>4, <1>5, <1>6, <1>7, <1>8, <1>9, <1>10 DEF Next, Main, Recv

(* Every step keeps the types. *)
LEMMA NextTypes == Types /\ [Next]_vars => Types'
<1> SUFFICES ASSUME Control, Traffic, Table, [Next]_vars
             PROVE  Control' /\ Traffic' /\ Table'
  BY DEF Types
<1>1. Control' /\ Traffic'
  BY NextControl, NextTraffic
<1>2. Table'
  <2>1. CASE Record
    BY <2>1, RecordKeepsTable
  <2>2. CASE UNCHANGED <<hosts, lines, taken>>
    BY <2>2 DEF Table
  <2> QED
    BY <2>1, <2>2, OthersKeepTable
<1> QED
  BY <1>1, <1>2

(* The types hold of every reachable state. *)
THEOREM Typing == Spec => []TypeOK
  BY InitTypes, NextTypes, TypesSuffice, PTL DEF Spec
-----------------------------------------------------------------------------
(* Probing: addresses before next have been given to sendArp, in order and *)
(* once each; the loop ends one past End.                                  *)

Upto(n) == [i \in 1 .. n - Start |-> Start + i - 1]

ProbedSoFar ==
  /\ mpc \in {"open", "create", "fill"} => probed = <<>>
  /\ mpc = "scan" => next \in Start .. End + 1 /\ probed = Upto(next)
  /\ mpc \in {"key", "closed", "join"} => next = End + 1 /\ probed = Upto(next)

(* One more number at the end of a run of k numbers from a. *)
LEMMA OneMore ==
  ASSUME NEW a \in Nat, NEW k \in Nat, NEW j \in Nat, j = k + 1
  PROVE  Append([i \in 1 .. k |-> a + i - 1], a + k) = [i \in 1 .. j |-> a + i - 1]
<1> DEFINE s == [i \in 1 .. k |-> a + i - 1]
           t == [i \in 1 .. j |-> a + i - 1]
<1>1. s \in Seq(Nat) /\ Len(s) = k
  OBVIOUS
<1>2. t \in Seq(Nat) /\ Len(t) = k + 1
  OBVIOUS
<1>3. Append(s, a + k) \in Seq(Nat) /\ Len(Append(s, a + k)) = k + 1
  BY <1>1
<1>4. ASSUME NEW i \in 1 .. k + 1 PROVE Append(s, a + k)[i] = t[i]
  <2>1. t[i] = a + i - 1
    OBVIOUS
  <2>2. CASE i = k + 1
    BY <1>1, <2>1, <2>2
  <2>3. CASE i # k + 1
    <3>1. i \in 1 .. k
      BY <2>3
    <3>2. s[i] = a + i - 1
      BY <3>1
    <3>3. Append(s, a + k)[i] = s[i]
      BY <1>1, <3>1, AppendProperties
    <3> QED
      BY <2>1, <3>2, <3>3
  <2> QED
    BY <2>2, <2>3
<1> HIDE DEF s, t
<1> QED
  BY <1>2, <1>3, <1>4, SeqEqual

(* One more address. *)
LEMMA AppendNext ==
  ASSUME NEW n \in Nat, n >= Start
  PROVE  Append(Upto(n), n) = Upto(n + 1)
<1>1. n - Start \in Nat /\ Start \in Nat /\ Start + (n - Start) = n /\ (n - Start) + 1 = n + 1 - Start
  BY Addresses
<1>2. PICK k \in Nat : k = n - Start
  BY <1>1
<1>3. PICK m \in Nat : m = n + 1
  OBVIOUS
<1>4. PICK j \in Nat : j = m - Start
  BY <1>1, <1>3
<1>5. j = k + 1 /\ Start + k = n
  BY <1>1, <1>2, <1>3, <1>4
<1>6. Append([i \in 1 .. k |-> Start + i - 1], Start + k) = [i \in 1 .. j |-> Start + i - 1]
  BY <1>1, <1>5, OneMore
<1>7. Upto(n) = [i \in 1 .. k |-> Start + i - 1]
  BY <1>2, Zenon DEF Upto
<1>8. Upto(m) = [i \in 1 .. j |-> Start + i - 1]
  BY <1>4, Zenon DEF Upto
<1> QED
  BY <1>3, <1>5, <1>6, <1>7, <1>8, Zenon

LEMMA InitProbed == Init => ProbedSoFar
  BY DEF Init, ProbedSoFar

LEMMA NextProbed == Types /\ ProbedSoFar /\ [Next]_vars => ProbedSoFar'
<1> SUFFICES ASSUME Types, ProbedSoFar, [Next]_vars PROVE ProbedSoFar'
  OBVIOUS
<1>t. next \in Nat /\ Start \in Nat /\ End \in Nat /\ Start <= End
  BY Addresses DEF Types, Control
<1>1. CASE StartScan
  <2>1. Upto(Start) = <<>>
    <3>1. 1 .. Start - Start = {}
      BY <1>t
    <3> QED
      BY <3>1 DEF Upto
  <2> QED
    BY <1>1, <2>1, <1>t DEF StartScan, ProbedSoFar
<1>2. CASE SendArp
  <2>1. next \in Start .. End /\ probed = Upto(next)
    BY <1>2, <1>t DEF SendArp, InScan, ProbedSoFar
  <2>3. Append(Upto(next), next) = Upto(next + 1)
    <3>1. next \in Nat /\ next >= Start
      BY <1>t, <2>1
    <3> QED
      BY <3>1, AppendNext, Zenon
  <2>2. probed' = Append(probed, next) /\ next' = next + 1 /\ mpc' = "scan"
    BY <1>2 DEF SendArp
  <2>4. next' \in Start .. End + 1
    BY <2>1, <2>2, <1>t
  <2>5. probed' = Upto(next')
    BY <2>1, <2>2, <2>3, Zenon
  <2> QED
    BY <2>2, <2>4, <2>5 DEF ProbedSoFar, Upto, Start, End
<1>3. CASE EndScan
  BY <1>3, <1>t DEF EndScan, InScan, ProbedSoFar
<1>4. CASE OpenSocket \/ CreateThread \/ FillOctet \/ CloseSocket \/ ClearSock \/ Join \/ Signal
  BY <1>4 DEF OpenSocket, CreateThread, FillOctet, CloseSocket, ClearSock, Join, Signal,
              ProbedSoFar, Upto
<1>5. CASE Recv \/ Arrive \/ UNCHANGED vars
  BY <1>5 DEF Recv, EnterRecv, Received, MatchOctet, Record, Arrive, vars, mainVars, ProbedSoFar
<1> QED
  BY <1>1, <1>2, <1>3, <1>4, <1>5 DEF Next, Main

(* When main waits for the key, every address of the range has been probed *)
(* exactly once, in ascending order, whatever the receiver did meanwhile   *)
(* (lan_scan.c, the loop over sendArp in main).                            *)
THEOREM AllProbed == Spec => []ProbedAll
<1>1. Types /\ ProbedSoFar => ProbedAll
  BY Addresses DEF ProbedSoFar, ProbedAll, Upto
<1> QED
  BY <1>1, InitTypes, NextTypes, InitProbed, NextProbed, PTL DEF Spec
-----------------------------------------------------------------------------
(* Matching: an octet that was filled when the comparison began is that of *)
(* the prefix since then, and any other is still zero or has become it.    *)
OctetTaken(p, b, i) == p[i] = Prefix[i] \/ (p[i] = 0 /\ b < i)
OctetsMatch ==
  rpc = "match" => \A i \in 1 .. octet : OctetTaken(frame.sender.prefix, begun, i)

Matching == begun <= filled /\ OctetsMatch /\ TakenAsFilled

LEMMA InitMatching == Init => Matching
  BY DEF Init, Matching, OctetsMatch, TakenAsFilled

(* Nothing but recvTask touches what Matching is about, and main never     *)
(* takes an octet of the prefix back.                                      *)
LEMMA OthersKeepMatching ==
  [Next]_vars => \/ Received \/ MatchOctet \/ Record
                 \/ FillOctet /\ UNCHANGED <<rpc, frame, begun, octet, taken>>
                 \/ /\ UNCHANGED <<frame, begun, octet, taken, filled>>
                    /\ rpc' # "match" \/ UNCHANGED rpc
<1> SUFFICES ASSUME [Next]_vars, ~Received, ~MatchOctet, ~Record, ~FillOctet
             PROVE  /\ UNCHANGED <<frame, begun, octet, taken, filled>>
                    /\ rpc' # "match" \/ UNCHANGED rpc
  BY DEF FillOctet, recvVars
<1> USE DEF mainVars, recvVars, sockVars, wireVars
<1>1. CASE EnterRecv
  BY <1>1 DEF EnterRecv, AfterFailure
<1>2. CASE OpenSocket \/ CreateThread \/ StartScan \/ SendArp \/ EndScan
  BY <1>2 DEF OpenSocket, CreateThread, StartScan, SendArp, EndScan
<1>3. CASE CloseSocket \/ ClearSock \/ Join \/ Signal \/ Arrive \/ UNCHANGED vars
  BY <1>3 DEF CloseSocket, ClearSock, Join, Signal, Arrive, vars
<1> QED
  BY <1>1, <1>2, <1>3 DEF Next, Main, Recv

LEMMA NextMatching == Types /\ Matching /\ [Next]_vars => Matching'
<1> SUFFICES ASSUME Types, Matching, [Next]_vars PROVE Matching'
  OBVIOUS
<1>t. /\ filled \in 0 .. 3 /\ octet \in 0 .. 3 /\ begun \in 0 .. 3 /\ begun <= filled
      /\ filled' \in 0 .. 3 /\ octet' \in 0 .. 3 /\ begun' \in 0 .. 3
  BY NextTypes DEF Types, Control, Matching
<1>i. OctetsMatch /\ TakenAsFilled
  BY DEF Matching
<1>1. CASE Received
  <2>1. begun' <= filled'
    BY <1>1, <1>t DEF Received, mainVars
  <2>2. OctetsMatch'
    <3>1. octet' = 0 /\ 1 .. 0 = {}
      BY <1>1 DEF Received
    <3> QED
      BY <3>1 DEF OctetsMatch
  <2>3. TakenAsFilled'
    BY <1>1, <1>i DEF Received, TakenAsFilled
  <2> QED
    BY <2>1, <2>2, <2>3 DEF Matching
<1>2. CASE MatchOctet
  <2>1. begun' <= filled' /\ TakenAsFilled'
    BY <1>2, <1>t, <1>i DEF MatchOctet, mainVars, TakenAsFilled
  <2>2. OctetsMatch'
    <3> SUFFICES ASSUME rpc' = "match", NEW i \in 1 .. octet'
                 PROVE  OctetTaken(frame'.sender.prefix, begun', i)
      BY DEF OctetsMatch, OctetTaken
    <3>1. /\ frame' = frame /\ begun' = begun /\ rpc = "match"
          /\ octet' = octet + 1 /\ SameOctet(octet + 1)
      BY <1>2 DEF MatchOctet
    <3>2. CASE i = octet + 1
      <4>1. IpDst(i) = Prefix[i] \/ (IpDst(i) = 0 /\ begun < i)
        BY <1>t, <3>2 DEF IpDst
      <4> QED
        BY <3>1, <3>2, <4>1 DEF SameOctet, OctetTaken
    <3>3. CASE i \in 1 .. octet
      BY <3>1, <3>3, <1>i DEF OctetsMatch
    <3> QED
      BY <3>1, <3>2, <3>3, <1>t
  <2> QED
    BY <2>1, <2>2 DEF Matching
<1>3. CASE Record
  <2>1. begun' <= filled' /\ OctetsMatch'
    BY <1>3, <1>t DEF Record, mainVars, OctetsMatch
  <2>2. TakenAsFilled'
    <3> SUFFICES ASSUME NEW f \in taken', NEW i \in 1 .. 3
                 PROVE  OctetTaken(f.sender.prefix, f.begun, i)
      BY DEF TakenAsFilled, OctetTaken
    <3>1. CASE f \in taken
      BY <3>1, <1>i DEF TakenAsFilled, OctetTaken
    <3>2. CASE f = [sender |-> frame.sender, mac |-> frame.mac, begun |-> begun]
      <4>1. octet = 3 /\ rpc = "match" /\ f.sender = frame.sender /\ f.begun = begun
        BY <3>2, <1>3 DEF Record
      <4> QED
        BY <4>1, <1>i DEF OctetsMatch
    <3> QED
      BY <3>1, <3>2, <1>3 DEF Record
  <2> QED
    BY <2>1, <2>2 DEF Matching
<1>4. CASE FillOctet /\ UNCHANGED <<rpc, frame, begun, octet, taken>>
  BY <1>4, <1>t, <1>i DEF FillOctet, Matching, OctetsMatch, TakenAsFilled
<1>5. CASE /\ UNCHANGED <<frame, begun, octet, taken, filled>>
           /\ rpc' # "match" \/ UNCHANGED rpc
  BY <1>5, <1>t, <1>i DEF Matching, OctetsMatch, TakenAsFilled
<1> QED
  BY <1>1, <1>2, <1>3, <1>4, <1>5, OthersKeepMatching

(* However the receiver's comparison and main's filling of _ipDst          *)
(* interleave, and whatever frames come, an octet of a frame that is taken *)
(* is the LAN's, or a zero that main had not got to when the comparison    *)
(* began (lan_scan.c:275-277, 393-408).                                    *)
THEOREM TakenWhileFilled == Spec => []TakenAsFilled
<1>1. Matching => TakenAsFilled
  BY DEF Matching
<1> QED
  BY <1>1, InitTypes, NextTypes, InitMatching, NextMatching, PTL DEF Spec
-----------------------------------------------------------------------------
(* The table of one host: s are the MACs stored, t the lines printed.      *)

Line == [mac : MACs, mark : Marks]

Once(s)      == \A i, j \in 1 .. Len(s) : s[i] = s[j] => i = j
Printed(s, t) == \A i \in 1 .. Len(s) : t[i].mac = s[i]
Beyond(s, t) == \A i \in Len(s) + 1 .. Len(t) :
                  Len(s) = MAC_SLOTS /\ \A j \in 1 .. Len(s) : t[i].mac # s[j]
Marked(t)    == \A i \in 1 .. Len(t) : (t[i].mark = "!") <=> i > 1
Agree(s, t)  == Len(s) <= Len(t) /\ Once(s) /\ Printed(s, t) /\ Beyond(s, t) /\ Marked(t)

Claimed(f) == \E i \in 1 .. Len(lines[f.sender.host]) : lines[f.sender.host][i].mac = f.mac

(* The property says this of every host and every frame taken. *)
TrueByHost ==
  /\ \A h \in HostIds : Agree(hosts[h], lines[h])
  /\ \A f \in taken : Claimed(f)

LEMMA TableByHost == TableIsTrue <=> TrueByHost
<1>1. ASSUME NEW h \in HostIds, NEW m
      PROVE  m \notin SlotsOf(h) <=> \A j \in 1 .. Len(hosts[h]) : m # hosts[h][j]
  BY DEF SlotsOf
<1> QED
  BY <1>1, SMTT(20) DEF TableIsTrue, TableIsPrinted, StoredOnce, ClaimsReported, Agree, Once, Printed,
              Beyond, Marked, Claimed, TrueByHost

(* A new claimant: stored while a slot is free, printed in any case.       *)
LEMMA NewClaimant ==
  ASSUME NEW s \in Seq(MACs), NEW t \in Seq(Line), NEW m \in MACs,
         Len(s) <= MAC_SLOTS, Agree(s, t), \A j \in 1 .. Len(s) : m # s[j],
         NEW l \in Line, l.mac = m, l.mark = IF s = <<>> THEN "plain" ELSE "!"
  PROVE  Agree(IF Len(s) < MAC_SLOTS THEN Append(s, m) ELSE s, Append(t, l))
<1> DEFINE v == Append(t, l)
<1>t. /\ Len(s) \in Nat /\ Len(t) \in Nat /\ MAC_SLOTS \in Nat /\ MAC_SLOTS >= 1
      /\ Len(s) <= Len(t)
  BY ConstantsOK DEF ConstantsOK, Agree
<1>v. /\ Len(v) = Len(t) + 1 /\ v[Len(t) + 1] = l
      /\ \A i \in 1 .. Len(t) : v[i] = t[i]
  BY AppendProperties
<1>m. Marked(v)
  <2>1. s = <<>> <=> Len(t) = 0
    <3>1. CASE s = <<>> /\ Len(t) # 0
      <4>1. 1 \in Len(s) + 1 .. Len(t) /\ Len(s) = 0
        BY <3>1, <1>t
      <4>2. Len(s) = MAC_SLOTS
        BY <4>1 DEF Agree, Beyond
      <4> QED
        BY <4>1, <4>2, <1>t
    <3>2. CASE s # <<>> /\ Len(t) = 0
      <4>1. Len(s) # 0
        BY <3>2, EmptySeq
      <4> QED
        BY <3>2, <4>1, <1>t
    <3> QED
      BY <3>1, <3>2
  <2> SUFFICES ASSUME NEW i \in 1 .. Len(v) PROVE (v[i].mark = "!") <=> i > 1
    BY DEF Marked
  <2>2. CASE i = Len(t) + 1
    BY <2>1, <2>2, <1>t, <1>v
  <2>3. CASE i \in 1 .. Len(t)
    BY <2>3, <1>v DEF Agree, Marked
  <2> QED
    BY <2>2, <2>3, <1>t, <1>v
<1>1. CASE Len(s) < MAC_SLOTS
  <2> DEFINE u == Append(s, m)
  <2>u. /\ Len(u) = Len(s) + 1 /\ u[Len(s) + 1] = m
        /\ \A i \in 1 .. Len(s) : u[i] = s[i]
    BY AppendProperties
  <2>1. Len(t) = Len(s)
    <3>1. CASE Len(s) + 1 \in Len(s) + 1 .. Len(t)
      BY <3>1, <1>1, <1>t DEF Agree, Beyond
    <3> QED
      BY <3>1, <1>t
  <2>2. Once(u)
    <3> SUFFICES ASSUME NEW i \in 1 .. Len(u), NEW j \in 1 .. Len(u), u[i] = u[j]
                 PROVE  i = j
      BY DEF Once
    <3>1. CASE i \in 1 .. Len(s) /\ j \in 1 .. Len(s)
      BY <3>1, <2>u DEF Agree, Once
    <3>2. CASE i = Len(s) + 1 /\ j \in 1 .. Len(s)
      BY <3>2, <2>u
    <3>3. CASE i \in 1 .. Len(s) /\ j = Len(s) + 1
      BY <3>3, <2>u
    <3> QED
      BY <3>1, <3>2, <3>3, <1>t, <2>u
  <2>3. Printed(u, v)
    <3> SUFFICES ASSUME NEW i \in 1 .. Len(u) PROVE v[i].mac = u[i]
      BY DEF Printed
    <3>1. CASE i \in 1 .. Len(s)
      BY <3>1, <2>u, <2>1, <1>v DEF Agree, Printed
    <3>2. CASE i = Len(s) + 1
      BY <3>2, <2>u, <2>1, <1>v
    <3> QED
      BY <3>1, <3>2, <1>t, <2>u
  <2>4. Beyond(u, v) /\ Len(u) <= Len(v)
    BY <2>u, <2>1, <1>v, <1>t DEF Beyond
  <2> QED
    BY <1>1, <1>m, <2>2, <2>3, <2>4 DEF Agree
<1>2. CASE ~(Len(s) < MAC_SLOTS)
  <2>1. Len(s) <= Len(v) /\ Once(s) /\ Len(s) = MAC_SLOTS
    BY <1>2, <1>t, <1>v DEF Agree
  <2>2. Printed(s, v)
    BY <1>t, <1>v DEF Agree, Printed
  <2>3. Beyond(s, v)
    <3> SUFFICES ASSUME NEW i \in Len(s) + 1 .. Len(v), NEW j \in 1 .. Len(s)
                 PROVE  v[i].mac # s[j]
      BY <2>1 DEF Beyond
    <3>1. CASE i \in Len(s) + 1 .. Len(t)
      BY <3>1, <1>t, <1>v DEF Agree, Beyond
    <3>2. CASE i = Len(t) + 1
      BY <3>2, <1>v
    <3> QED
      BY <3>1, <3>2, <1>t, <1>v, SMTT(20)
  <2> QED
    BY <1>2, <1>m, <2>1, <2>2, <2>3 DEF Agree
<1> QED
  BY <1>1, <1>2

LEMMA InitTable == Init => TableIsTrue
<1> SUFFICES ASSUME Init PROVE TableIsTrue
  OBVIOUS
<1>1. Len(<<>>) = 0 /\ 1 .. 0 = {}
  BY EmptySeq
<1>2. Agree(<<>>, <<>>)
  <2>1. Len(<<>>) + 1 .. Len(<<>>) = {}
    BY <1>1
  <2> QED
    BY <1>1, <2>1 DEF Agree, Once, Printed, Beyond, Marked
<1>3. ASSUME NEW h \in HostIds PROVE hosts[h] = <<>> /\ lines[h] = <<>>
  BY DEF Init
<1> QED
  BY <1>2, <1>3, TableByHost, Zenon DEF Init, TrueByHost

(* Every step keeps the table true: Record adds a claimant or finds it.    *)
LEMMA NextTable == Types /\ TableIsTrue /\ [Next]_vars => TableIsTrue'
<1> SUFFICES ASSUME Types, TableIsTrue, [Next]_vars PROVE TableIsTrue'
  OBVIOUS
<1>i. /\ \A h \in HostIds : Agree(hosts[h], lines[h])
      /\ \A f \in taken : Claimed(f)
  BY TableByHost DEF TrueByHost
<1>1. CASE UNCHANGED <<hosts, lines, taken>>
  BY <1>1 DEF TableIsTrue, TableIsPrinted, StoredOnce, ClaimsReported, SlotsOf
<1>2. CASE Record
  <2> DEFINE h == frame.sender.host  mac == frame.mac
             l == [mac |-> mac, mark |-> Mark(h)]
  <2>t. /\ frame \in Frames /\ h \in HostIds /\ mac \in MACs
        /\ hosts[h] \in Seq(MACs) /\ lines[h] \in Seq(Line) /\ Len(hosts[h]) <= MAC_SLOTS
    <3>1. frame \in Frames
      BY <1>2 DEF Record, Types, Traffic
    <3>2. h \in HostIds /\ mac \in MACs
      BY <3>1 DEF Frames, HostIds
    <3> QED
      BY <3>1, <3>2 DEF Types, Table, Line
  <2>h. hosts \in [HostIds -> Seq(MACs)] /\ lines \in [HostIds -> Seq(Line)]
    BY DEF Types, Table, Line
  <2>n. /\ taken' = taken \cup {[sender |-> frame.sender, mac |-> mac, begun |-> begun]}
        /\ Known(h, mac) => hosts' = hosts /\ lines' = lines
        /\ ~Known(h, mac) => /\ hosts' = [hosts EXCEPT ![h] = Store(h, mac)]
                             /\ lines' = [lines EXCEPT ![h] = Append(lines[h], l)]
    BY <1>2, <2>h, <2>t DEF Record, Prints
  <2>k. Known(h, mac) <=> \E j \in 1 .. Len(hosts[h]) : mac = hosts[h][j]
    BY DEF Known, SlotsOf
  <2>1. ASSUME NEW k \in HostIds PROVE Agree(hosts'[k], lines'[k])
    <3>1. CASE Known(h, mac) \/ k # h
      <4>1. hosts'[k] = hosts[k] /\ lines'[k] = lines[k]
        BY <3>1, <2>n, <2>h
      <4> QED
        BY <4>1, <1>i, Zenon
    <3>2. CASE ~Known(h, mac) /\ k = h
      <4>1. hosts'[k] = Store(h, mac) /\ lines'[k] = Append(lines[h], l)
        BY <3>2, <2>n, <2>h
      <4>2. l \in Line /\ l.mac = mac /\ l.mark = IF hosts[h] = <<>> THEN "plain" ELSE "!"
        BY <2>t DEF Line, Mark, Marks
      <4>3. \A j \in 1 .. Len(hosts[h]) : mac # hosts[h][j]
        BY <3>2, <2>k
      <4> HIDE DEF h, mac, l
      <4>4. Agree(IF Len(hosts[h]) < MAC_SLOTS THEN Append(hosts[h], mac) ELSE hosts[h],
                  Append(lines[h], l))
        BY <2>t, <4>2, <4>3, <1>i, NewClaimant
      <4> QED
        BY <4>1, <4>4, Zenon DEF Store
    <3> QED
      BY <3>1, <3>2
  <2>2. ASSUME NEW f \in taken'
        PROVE  \E i \in 1 .. Len(lines'[f.sender.host]) : lines'[f.sender.host][i].mac = f.mac
    <3>n. ~Known(h, mac) => /\ Len(lines'[h]) = Len(lines[h]) + 1
                            /\ lines'[h][Len(lines[h]) + 1].mac = mac
                            /\ \A i \in 1 .. Len(lines[h]) : lines'[h][i] = lines[h][i]
      <4>1. Append(lines[h], l) = IF ~Known(h, mac) THEN lines'[h] ELSE Append(lines[h], l)
        BY <2>n, <2>h, <2>t
      <4>2. l \in Line /\ l.mac = mac
        BY <2>t DEF Line, Mark, Marks
      <4> HIDE DEF l
      <4>3. /\ Len(Append(lines[h], l)) = Len(lines[h]) + 1
            /\ Append(lines[h], l)[Len(lines[h]) + 1] = l
            /\ \A i \in 1 .. Len(lines[h]) : Append(lines[h], l)[i] = lines[h][i]
        BY <2>t, <4>2, AppendProperties
      <4> QED
        BY <4>1, <4>2, <4>3
    <3>1. CASE f \in taken
      <4>1. PICK i \in 1 .. Len(lines[f.sender.host]) : lines[f.sender.host][i].mac = f.mac
        BY <3>1, <1>i DEF Claimed
      <4>2. f.sender.host \in HostIds
        BY <3>1 DEF Types, Table, HostIds
      <4>3. CASE Known(h, mac) \/ f.sender.host # h
        <5>1. lines'[f.sender.host] = lines[f.sender.host]
          BY <4>2, <4>3, <2>n, <2>h
        <5> QED
          BY <4>1, <5>1
      <4>4. CASE ~Known(h, mac) /\ f.sender.host = h
        <5>1. i \in 1 .. Len(lines'[h]) /\ lines'[h][i] = lines[h][i]
          BY <4>1, <4>4, <3>n, <2>t
        <5> QED
          BY <4>1, <4>4, <5>1
      <4> QED
        BY <4>3, <4>4
    <3>2. CASE f = [sender |-> frame.sender, mac |-> mac, begun |-> begun]
      <4>1. f.sender.host = h /\ f.mac = mac
        BY <3>2
      <4>2. CASE Known(h, mac)
        <5>1. PICK j \in 1 .. Len(hosts[h]) : mac = hosts[h][j]
          BY <4>2, <2>k
        <5>2. j \in 1 .. Len(lines[h]) /\ lines[h][j].mac = hosts[h][j]
          <6>1. Agree(hosts[h], lines[h]) /\ Len(hosts[h]) \in Nat /\ Len(lines[h]) \in Nat
            BY <2>t, <1>i
          <6>2. Len(hosts[h]) <= Len(lines[h]) /\ Printed(hosts[h], lines[h])
            BY <6>1 DEF Agree
          <6> QED
            BY <6>1, <6>2, <5>1 DEF Printed
        <5>3. lines'[f.sender.host] = lines[h]
          BY <4>1, <4>2, <2>n
        <5>4. lines[h][j].mac = f.mac
          BY <4>1, <5>1, <5>2
        <5>5. j \in 1 .. Len(lines'[f.sender.host])
          BY <5>2, <5>3
        <5>6. lines'[f.sender.host][j].mac = f.mac
          BY <5>3, <5>4
        <5> QED
          BY <5>5, <5>6
      <4>3. CASE ~Known(h, mac)
        <5>1. Len(lines[h]) + 1 \in 1 .. Len(lines'[h]) /\ lines'[h][Len(lines[h]) + 1].mac = mac
          BY <4>3, <3>n, <2>t
        <5> QED
          BY <4>1, <5>1
      <4> QED
        BY <4>2, <4>3
    <3> QED
      BY <3>1, <3>2, <2>n
  <2>3. TrueByHost'
    BY <2>1, <2>2 DEF TrueByHost, Claimed
  <2> QED
    BY <2>3, TableByHost, PTL
<1> QED
  BY <1>1, <1>2, OthersKeepTable

(* However hosts and claimants take turns and wherever the slots end, the  *)
(* table is what has been printed, every MAC taken for a host has a line,  *)
(* and every line of a host but the first has the conflict mark            *)
(* (lan_scan.c:279-332).                                                   *)
THEOREM TableTrue == Spec => []TableIsTrue
  BY InitTypes, NextTypes, InitTable, NextTable, PTL DEF Spec
=============================================================================
