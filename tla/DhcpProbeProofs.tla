--------------------------- MODULE DhcpProbeProofs --------------------------
(***************************************************************************)
(* Proofs about DhcpProbe: its types, that one DISCOVER with a transaction *)
(* ID is sent, and that the verdict is neither premature nor without a     *)
(* reason, for any count, any second and nap, and any traffic.             *)
(***************************************************************************)
EXTENDS DhcpProbe, SequenceTheorems, TLAPS

(* The loop has a verdict when it has ended, and only then. *)
EndsWithVerdict == pc = "exit" <=> outcome # "none yet"

(* The last DISCOVER carried xid, those before it the 0 that is no ID. *)
LastIsXid == xid # 0 => discovers # <<>> /\ discovers[Len(discovers)] = xid
OneDrawn  == \A i \in 1 .. Len(discovers) : discovers[i] # 0 => i = Len(discovers) /\ xid # 0

(* Only timeouts after a DISCOVER count, and the loop ends before it has   *)
(* counted below 0.                                                        *)
Counting == pc # "exit" => count >= 0 /\ (xid = 0 => count = COUNT)

(* Each timeout counted, and what has run of the present one, is time that *)
(* has passed since the DISCOVER.                                          *)
Clock == pc # "exit" /\ xid # 0 => elapsed >= (COUNT - count + 1) * SECOND - timeout

(* Offers answer DISCOVERs that were sent. *)
Answers == \A x \in offered \cap Xids : \E i \in 1 .. Len(discovers) : discovers[i] = x

(* An offer for the present xid is not lost: it is being handled or waits. *)
IsFor(p, x) == p.kind = "offer" /\ p.xid = x
OfferHeld ==
  pc # "exit" /\ xid # 0 /\ xid \in offered =>
    \/ pc = "handle" /\ IsFor(packet, xid)
    \/ \E i \in 1 .. Len(queue) : IsFor(queue[i], xid)
-----------------------------------------------------------------------------
(* The bound of elapsed is beyond every time the proof compares it with.   *)

Waited(c) == (COUNT - c + 1) * SECOND

LEMMA Numbers == COUNT \in Nat /\ SECOND \in Nat \ {0} /\ NAP \in Nat /\ MaxQueue \in Nat
  BY ConstantsOK DEF ConstantsOK

LEMMA Products ==
  ASSUME NEW a \in Nat, NEW b \in Nat
  PROVE  a * b \in Nat /\ (a + 1) * b = a * b + b
  OBVIOUS

LEMMA Order ==
  ASSUME NEW a \in Nat, NEW b \in Nat, NEW c \in Nat, a <= b
  PROVE  a * c <= b * c
  OBVIOUS

LEMMA Cap == ElapsedCap \in Nat /\ (COUNT + 1) * SECOND <= ElapsedCap
<1>1. (COUNT + 1) * SECOND \in Nat /\ (COUNT + 2) * SECOND \in Nat
  BY Numbers, Products
<1>2. (COUNT + 1) * SECOND <= (COUNT + 2) * SECOND
  BY Numbers, Order
<1> QED
  BY <1>1, <1>2 DEF ElapsedCap

(* What has been waited for after the timeouts down to c, and one more.    *)
LEMMA Waits ==
  ASSUME NEW c \in 0 .. COUNT
  PROVE  /\ Waited(c) \in Nat /\ Waited(c) <= ElapsedCap
         /\ Waited(c - 1) = Waited(c) + SECOND
         /\ Waited(COUNT) = SECOND
<1>1. COUNT - c + 1 \in Nat /\ COUNT + 1 \in Nat /\ COUNT - c + 1 <= COUNT + 1
  BY Numbers
<1>2. Waited(c) \in Nat /\ Waited(c) <= (COUNT + 1) * SECOND
  BY <1>1, Numbers, Products, Order DEF Waited
<1>3. COUNT - (c - 1) + 1 = (COUNT - c + 1) + 1
  BY Numbers
<1>4. Waited(c - 1) = Waited(c) + SECOND
  BY <1>1, <1>3, Numbers, Products DEF Waited
<1>5. Waited(COUNT) = SECOND
  <2>1. COUNT - COUNT + 1 = 1 /\ 1 * SECOND = SECOND
    BY Numbers
  <2> QED
    BY <2>1 DEF Waited
<1>6. Waited(c) <= ElapsedCap
  <2>1. (COUNT + 1) * SECOND \in Nat
    BY Numbers, Products
  <2> QED
    BY <1>2, <2>1, Cap
<1> QED
  BY <1>2, <1>4, <1>5, <1>6

(* The types in two parts.  The loop counts below 0 only as it ends:       *)
(* TypeOK alone is not inductive.                                          *)
Numeric ==
  /\ pc \in {"select", "handle", "exit"}
  /\ timeout \in 0 .. SECOND /\ count \in -1 .. COUNT
  /\ elapsed \in 0 .. ElapsedCap

Messages ==
  /\ xid \in Xids \cup {0} /\ discovers \in Seq(Xids \cup {0})
  /\ packet \in Packets /\ queue \in Seq(Packets) /\ Len(queue) <= MaxQueue
  /\ offered \subseteq Xids
  /\ outcome \in {"none yet", "server", "no server", "other xid", "no type", "select failed"}

Types == Numeric /\ Messages /\ Counting

LEMMA TypesSuffice == Types => TypeOK
  BY DEF Types, Numeric, Messages, TypeOK

LEMMA InitTypes == Init => Types
<1> SUFFICES ASSUME Init PROVE Types
  OBVIOUS
<1>1. /\ pc = "select" /\ xid = 0 /\ timeout = 0 /\ count = COUNT
      /\ elapsed = 0 /\ offered = {} /\ outcome = "none yet"
  BY DEF Init
<1>2. Messages
  <2>1. packet \in Packets
    BY DEF Init, NoPacket, Packets, Kinds, PacketIds
  <2>2. queue \in Seq(Packets) /\ discovers \in Seq(Xids \cup {0}) /\ Len(queue) = 0
    BY EmptySeq DEF Init
  <2>3. Len(queue) <= MaxQueue
    BY <2>2, Numbers
  <2> QED
    BY <1>1, <2>1, <2>2, <2>3 DEF Messages
<1>3. 0 \in 0 .. SECOND /\ COUNT \in -1 .. COUNT /\ 0 \in 0 .. ElapsedCap
  BY Numbers, Cap
<1>5. Numeric
  BY <1>1, <1>3, Zenon DEF Numeric
<1>6. Counting
  <2>1. COUNT >= 0
    BY Numbers
  <2> QED
    BY <1>1, <2>1, Zenon DEF Counting
<1> QED
  BY <1>2, <1>5, <1>6 DEF Types

LEMMA LaterTyped == ASSUME elapsed \in 0 .. ElapsedCap, NEW t \in Nat
                    PROVE  Later(t) \in 0 .. ElapsedCap
  BY Cap DEF Later

(* Every step keeps the numbers in range. *)
LEMMA NextNumeric == Types /\ [Next]_vars => Numeric' /\ Counting'
<1> SUFFICES ASSUME Types, [Next]_vars PROVE Numeric' /\ Counting'
  OBVIOUS
<1>t. /\ pc \in {"select", "handle", "exit"}
      /\ timeout \in 0 .. SECOND /\ count \in -1 .. COUNT
      /\ elapsed \in 0 .. ElapsedCap
  BY DEF Types, Numeric
<1>c. pc # "exit" => count >= 0 /\ (xid = 0 => count = COUNT)
  BY DEF Types, Counting
<1> USE DEF Numeric, Counting
<1>1. CASE SelectReady
  BY <1>1, <1>t, <1>c DEF SelectReady, Remaining
<1>2. CASE SendDiscover
  <2>1. pc = "select" /\ xid = 0 /\ timeout' = SECOND /\ elapsed' = 0
        /\ UNCHANGED <<pc, count>>
    BY <1>2 DEF SendDiscover, Rearm, Undiscovered
  <2>2. timeout' \in 0 .. SECOND /\ elapsed' \in 0 .. ElapsedCap
    BY <2>1, Numbers, Cap
  <2> QED
    BY <2>1, <2>2, <1>t, <1>c
<1>3. CASE CountTimeout
  <2>1. /\ pc = "select" /\ xid # 0 /\ timeout' = SECOND /\ count' = count - 1
        /\ UNCHANGED <<xid, elapsed>>
        /\ IF count <= 0 THEN pc' = "exit" ELSE pc' = pc
    BY <1>3 DEF CountTimeout, Rearm, CountDown, Expired, Undiscovered
  <2>2. timeout' \in 0 .. SECOND /\ count' \in -1 .. COUNT /\ (pc' # "exit" => count' >= 0)
    BY <2>1, <1>t, <1>c, Numbers
  <2> QED
    BY <2>1, <2>2, <1>t
<1>4. CASE Handle
  <2>1. elapsed' = elapsed \/ elapsed' = Later(NAP)
    BY <1>4 DEF Handle
  <2>2. elapsed' \in 0 .. ElapsedCap
    BY <2>1, <1>t, LaterTyped, Numbers
  <2>3. pc = "handle" /\ pc' \in {"select", "exit"} /\ UNCHANGED <<xid, timeout, count>>
    BY <1>4 DEF Handle, Leave, Stay
  <2> QED
    BY <2>2, <2>3, <1>t, <1>c
<1>5. CASE SelectFails
  BY <1>5, <1>t, <1>c DEF SelectFails
<1>6. CASE Elapse
  <2>1. pc = "select" /\ timeout' = timeout - 1 /\ timeout > 0 /\ elapsed' = Later(1)
        /\ UNCHANGED <<pc, xid, count>>
    BY <1>6 DEF Elapse
  <2>2. elapsed' \in 0 .. ElapsedCap /\ timeout' \in 0 .. SECOND
    BY <2>1, <1>t, LaterTyped, Numbers
  <2> QED
    BY <2>1, <2>2, <1>t, <1>c
<1>7. CASE Arrive
  BY <1>7, <1>t, <1>c DEF Arrive, loopVars
<1>8. CASE UNCHANGED vars
  BY <1>8, <1>t, <1>c DEF vars
<1> QED
  BY <1>1, <1>2, <1>3, <1>4, <1>5, <1>6, <1>7, <1>8 DEF Next, Loop

(* Every step keeps the messages typed. *)
LEMMA NextMessages == Messages /\ [Next]_vars => Messages'
<1> SUFFICES ASSUME Messages, [Next]_vars PROVE Messages'
  OBVIOUS
<1>t. /\ queue \in Seq(Packets) /\ discovers \in Seq(Xids \cup {0})
      /\ offered \subseteq Xids /\ Len(queue) <= MaxQueue /\ Len(queue) \in Nat
  BY LenProperties DEF Messages
<1>1. CASE SelectReady
  <2>1. queue # <<>> /\ packet' = Head(queue) /\ queue' = Tail(queue)
        /\ UNCHANGED <<xid, discovers, offered, outcome>>
    BY <1>1 DEF SelectReady
  <2>2. packet' \in Packets /\ queue' \in Seq(Packets) /\ Len(queue') <= MaxQueue
    <3>1. packet' \in Packets /\ queue' \in Seq(Packets) /\ Len(queue') = Len(queue) - 1
      BY <2>1, <1>t, HeadTailProperties
    <3> QED
      BY <3>1, <1>t, Numbers
  <2> QED
    BY <2>1, <2>2 DEF Messages
<1>2. CASE SendDiscover
  <2>1. PICK x \in Xids \cup {0} : xid' = x /\ discovers' = Append(discovers, x)
    BY <1>2 DEF SendDiscover
  <2>2. discovers' \in Seq(Xids \cup {0})
    BY <2>1, <1>t, AppendProperties
  <2>3. UNCHANGED <<packet, queue, offered, outcome>>
    BY <1>2 DEF SendDiscover
  <2> QED
    BY <2>1, <2>2, <2>3 DEF Messages
<1>3. CASE CountTimeout
  BY <1>3 DEF CountTimeout, Messages
<1>4. CASE Handle
  <2>1. UNCHANGED <<xid, discovers, packet, queue, offered>>
    BY <1>4 DEF Handle
  <2>2. outcome' \in {outcome, "other xid", "no type", "server"}
    BY <1>4 DEF Handle, Leave, Stay
  <2> QED
    BY <2>1, <2>2 DEF Messages
<1>5. CASE SelectFails \/ Elapse
  BY <1>5 DEF SelectFails, Elapse, Messages
<1>6. CASE Arrive
  <2>1. PICK p \in Packets :
          /\ queue' = Append(queue, p)
          /\ offered' = IF p.kind = "offer" THEN offered \cup ({p.xid} \cap Xids) ELSE offered
    BY <1>6 DEF Arrive
  <2>2. queue' \in Seq(Packets) /\ Len(queue') <= MaxQueue
    <3>1. queue' \in Seq(Packets) /\ Len(queue') = Len(queue) + 1 /\ Len(queue) < MaxQueue
      BY <1>6, <2>1, <1>t, AppendProperties DEF Arrive
    <3> QED
      BY <3>1, <1>t, Numbers
  <2>3. offered' \subseteq Xids
    BY <2>1, <1>t
  <2> QED
    BY <1>6, <2>2, <2>3 DEF Arrive, loopVars, Messages
<1>7. CASE UNCHANGED vars
  BY <1>7 DEF vars, Messages
<1> QED
  BY <1>1, <1>2, <1>3, <1>4, <1>5, <1>6, <1>7 DEF Next, Loop

(* The types hold of every reachable state. *)
THEOREM Typing == Spec => []TypeOK
<1>1. Types /\ [Next]_vars => Types'
  BY NextNumeric, NextMessages DEF Types
<1> QED
  BY <1>1, InitTypes, TypesSuffice, PTL DEF Spec
-----------------------------------------------------------------------------
(* The DISCOVERs. *)

Drawn == LastIsXid /\ OneDrawn

LEMMA OthersKeepDiscovers == [Next]_vars => SendDiscover \/ UNCHANGED <<xid, discovers>>
  BY DEF Next, Loop, vars, loopVars, SelectReady, CountTimeout, Handle, SelectFails, Elapse, Arrive

LEMMA InitDrawn == Init => Drawn
<1> SUFFICES ASSUME Init PROVE Drawn
  OBVIOUS
<1>1. xid = 0 /\ discovers = <<>>
  BY DEF Init
<1>2. 1 .. Len(<<>>) = {}
  OBVIOUS
<1> QED
  BY <1>1, <1>2, Zenon DEF Drawn, LastIsXid, OneDrawn

LEMMA NextDrawn == Types /\ Drawn /\ [Next]_vars => Drawn'
<1> SUFFICES ASSUME Types, Drawn, [Next]_vars PROVE Drawn'
  OBVIOUS
<1>1. CASE SendDiscover
  <2>s. discovers \in Seq(Xids \cup {0})
    BY DEF Types, Messages
  <2>t. discovers \in Seq(Xids \cup {0}) /\ Len(discovers) \in Nat
    BY <2>s, LenProperties
  <2>1. PICK x \in Xids \cup {0} : xid' = x /\ discovers' = Append(discovers, x)
    BY <1>1 DEF SendDiscover
  <2>2. /\ Len(discovers') = Len(discovers) + 1 /\ discovers'[Len(discovers) + 1] = x
        /\ \A i \in 1 .. Len(discovers) : discovers'[i] = discovers[i]
    BY <2>t, <2>1, AppendProperties
  <2>3. \A i \in 1 .. Len(discovers) : discovers[i] = 0
    BY <1>1 DEF SendDiscover, Undiscovered, Drawn, OneDrawn
  <2>4. LastIsXid'
    BY <2>t, <2>1, <2>2, EmptySeq DEF LastIsXid
  <2>5. OneDrawn'
    <3> SUFFICES ASSUME NEW i \in 1 .. Len(discovers'), discovers'[i] # 0
                 PROVE  i = Len(discovers') /\ xid' # 0
      BY DEF OneDrawn
    <3>1. i \notin 1 .. Len(discovers)
      BY <2>2, <2>3
    <3>2. i = Len(discovers) + 1
      BY <3>1, <2>2, <2>t
    <3> QED
      BY <3>2, <2>1, <2>2
  <2> QED
    BY <2>4, <2>5 DEF Drawn
<1>2. CASE UNCHANGED <<xid, discovers>>
  BY <1>2 DEF Drawn, LastIsXid, OneDrawn
<1> QED
  BY <1>1, <1>2, OthersKeepDiscovers

(* One DISCOVER with a transaction ID is sent, whatever arrives, and the   *)
(* last one (dhcp_main.c:523-529).                                         *)
THEOREM DiscoversOnce == Spec => []OneDiscover
<1>1. Drawn => OneDiscover
  BY DEF Drawn, OneDrawn, OneDiscover
<1>2. Types /\ [Next]_vars => Types'
  BY NextNumeric, NextMessages DEF Types
<1> QED
  BY <1>1, <1>2, InitTypes, InitDrawn, NextDrawn, PTL DEF Spec
-----------------------------------------------------------------------------
(* The clock. *)

Ends == EndsWithVerdict /\ Clock /\ (outcome = "no server" => elapsed >= (COUNT + 1) * SECOND)

LEMMA InitEnds == Init => Ends
  BY DEF Init, Ends, EndsWithVerdict, Clock

(* The loop that has ended does nothing more. *)
LEMMA ExitIsFinal == pc = "exit" /\ [Next]_vars => UNCHANGED vars
  BY DEF Next, Loop, vars, SelectReady, SendDiscover, CountTimeout, Handle, SelectFails, Elapse, Arrive

(* The capped clock does not go back. *)
LEMMA LaterIsLater ==
  ASSUME elapsed \in 0 .. ElapsedCap, NEW t \in Nat
  PROVE  Later(t) \in Nat /\ Later(t) >= elapsed
  BY Cap DEF Later

LEMMA NextEnds == Types /\ Ends /\ [Next]_vars => Ends'
<1> SUFFICES ASSUME Types, Ends, [Next]_vars PROVE Ends'
  OBVIOUS
<1>t. /\ pc \in {"select", "handle", "exit"}
      /\ timeout \in 0 .. SECOND /\ count \in -1 .. COUNT /\ elapsed \in 0 .. ElapsedCap
  BY DEF Types, Numeric
<1>c. pc # "exit" => count \in 0 .. COUNT /\ (xid = 0 => count = COUNT)
  BY <1>t, Numbers DEF Types, Counting
<1>e. pc = "exit" <=> outcome # "none yet"
  BY DEF Ends, EndsWithVerdict
<1>k. pc # "exit" /\ xid # 0 => elapsed >= Waited(count) - timeout
  BY DEF Ends, Clock, Waited
<1>n. ASSUME pc # "exit", EndsWithVerdict',
             pc' # "exit" /\ xid' # 0 => elapsed' >= Waited(count') - timeout',
             outcome' = "no server" => elapsed' >= (COUNT + 1) * SECOND
      PROVE  Ends'
  BY <1>n DEF Ends, Clock, Waited
<1>0. CASE pc = "exit"
  <2>1. UNCHANGED vars
    BY <1>0, ExitIsFinal
  <2> QED
    BY <2>1 DEF vars, Ends, EndsWithVerdict, Clock
<1>1. CASE pc # "exit" /\ (SelectReady \/ SelectFails)
  <2>1. UNCHANGED <<xid, timeout, count, elapsed>>
    BY <1>1 DEF SelectReady, SelectFails, Remaining
  <2>2. EndsWithVerdict' /\ outcome' # "no server"
    BY <1>1, <1>e DEF SelectReady, SelectFails, EndsWithVerdict
  <2> QED
    BY <1>1, <1>k, <1>n, <2>1, <2>2
<1>2. CASE pc # "exit" /\ SendDiscover
  <2>1. /\ xid = 0 /\ timeout' = SECOND /\ elapsed' = 0
        /\ UNCHANGED <<pc, count, outcome>>
    BY <1>2 DEF SendDiscover, Rearm, Undiscovered
  <2>2. Waited(COUNT) = SECOND
    BY Waits, Numbers
  <2>3. elapsed' >= Waited(count') - timeout'
    BY <1>2, <1>c, <2>1, <2>2, Numbers
  <2>4. EndsWithVerdict' /\ outcome' # "no server"
    BY <1>2, <1>e, <2>1 DEF EndsWithVerdict
  <2> QED
    BY <1>2, <1>n, <2>3, <2>4
<1>3. CASE pc # "exit" /\ CountTimeout
  <2>1. /\ xid # 0 /\ timeout = 0 /\ timeout' = SECOND /\ count' = count - 1
        /\ UNCHANGED <<xid, elapsed>>
        /\ IF count <= 0 THEN pc' = "exit" /\ outcome' = "no server"
                         ELSE UNCHANGED <<pc, outcome>>
    BY <1>3 DEF CountTimeout, Rearm, CountDown, Expired, Undiscovered
  <2>2. count \in 0 .. COUNT /\ elapsed >= Waited(count) - timeout
    BY <1>3, <1>c, <1>k, <2>1
  <2>n. /\ timeout = 0 /\ timeout' = SECOND /\ count' = count - 1 /\ elapsed' = elapsed
        /\ elapsed \in Nat
    <3>1. elapsed \in Nat
      BY <1>t, Cap
    <3> QED
      BY <3>1, <2>1, Zenon
  <2>3. Waited(count) \in Nat /\ Waited(count - 1) = Waited(count) + SECOND
    BY <2>2, Waits
  <2>w. elapsed >= Waited(count)
    BY <2>2, <2>3, <2>n
  <2>4. elapsed' >= Waited(count') - timeout'
    <3>1. Waited(count') = Waited(count) + SECOND
      BY <2>3, <2>n
    <3>2. elapsed >= (Waited(count) + SECOND) - SECOND
      BY <2>w, <2>3, <2>n, Numbers
    <3> QED
      BY <3>1, <3>2, <2>n
  <2>l. count <= 0 => elapsed' >= (COUNT + 1) * SECOND
    <3> SUFFICES ASSUME count <= 0 PROVE elapsed >= (COUNT + 1) * SECOND
      BY <2>n
    <3>1. count = 0
      BY <2>2, Numbers
    <3>2. Waited(0) = (COUNT + 1) * SECOND
      <4>1. COUNT - 0 + 1 = COUNT + 1
        BY Numbers
      <4> QED
        BY <4>1 DEF Waited
    <3> QED
      BY <3>1, <3>2, <2>w
  <2>5. outcome' = "no server" => elapsed' >= (COUNT + 1) * SECOND
    BY <1>3, <1>e, <2>1, <2>l
  <2>6. EndsWithVerdict'
    BY <1>3, <1>e, <2>1 DEF EndsWithVerdict
  <2> QED
    BY <1>3, <1>n, <2>4, <2>5, <2>6
<1>4. CASE pc # "exit" /\ Handle
  <2>1. elapsed' = elapsed \/ elapsed' = Later(NAP)
    BY <1>4 DEF Handle
  <2>2. elapsed' \in Nat /\ elapsed' >= elapsed
    BY <2>1, <1>t, LaterIsLater, Numbers
  <2>3. UNCHANGED <<xid, timeout, count>>
    BY <1>4 DEF Handle
  <2>4. pc' # "exit" /\ xid' # 0 => elapsed' >= Waited(count') - timeout'
    <3> SUFFICES ASSUME xid # 0 PROVE elapsed' >= Waited(count) - timeout
      BY <2>3
    <3>1. Waited(count) \in Nat /\ elapsed >= Waited(count) - timeout
      BY <1>4, <1>c, <1>k, Waits
    <3> QED
      BY <3>1, <2>2, <1>t
  <2>5. EndsWithVerdict' /\ outcome' # "no server"
    BY <1>4, <1>e DEF Handle, Leave, Stay, EndsWithVerdict
  <2> QED
    BY <1>4, <1>n, <2>4, <2>5
<1>5. CASE pc # "exit" /\ Elapse
  <2>1. /\ timeout > 0 /\ timeout' = timeout - 1 /\ elapsed' = Later(1)
        /\ UNCHANGED <<pc, xid, count, outcome>>
    BY <1>5 DEF Elapse
  <2>2. pc' # "exit" /\ xid' # 0 => elapsed' >= Waited(count') - timeout'
    <3> SUFFICES ASSUME xid # 0 PROVE Later(1) >= Waited(count) - (timeout - 1)
      BY <2>1
    <3>1. Waited(count) \in Nat /\ Waited(count) <= ElapsedCap
          /\ elapsed >= Waited(count) - timeout
      BY <1>5, <1>c, <1>k, Waits
    <3> QED
      BY <3>1, <2>1, <1>t, Cap DEF Later
  <2>3. EndsWithVerdict' /\ outcome' # "no server"
    BY <1>5, <1>e, <2>1 DEF EndsWithVerdict
  <2> QED
    BY <1>5, <1>n, <2>2, <2>3
<1>6. CASE pc # "exit" /\ (Arrive \/ UNCHANGED vars)
  <2>1. UNCHANGED <<pc, xid, timeout, count, elapsed, outcome>>
    BY <1>6 DEF Arrive, loopVars, vars
  <2> QED
    BY <1>6, <1>e, <1>k, <1>n, <2>1 DEF EndsWithVerdict
<1> QED
  BY <1>0, <1>1, <1>2, <1>3, <1>4, <1>5, <1>6 DEF Next, Loop
-----------------------------------------------------------------------------
(* The offers. *)

Held == Answers /\ OfferHeld /\ (outcome = "no server" => xid \notin offered)

LEMMA InitHeld == Init => Held /\ ServerHasAnswered
  BY DEF Init, Held, Answers, OfferHeld, ServerHasAnswered

(* An offer that arrives for an ID of the probe answers a DISCOVER that    *)
(* was sent.                                                               *)
LEMMA OffersAnswer ==
  Types /\ Answers /\ [Next]_vars => Answers'
<1> SUFFICES ASSUME Types, Answers, [Next]_vars,
                    NEW x \in offered' \cap Xids
             PROVE  \E i \in 1 .. Len(discovers') : discovers'[i] = x
  BY DEF Answers
<1>t. discovers \in Seq(Xids \cup {0})
  BY DEF Types, Messages
<1>1. CASE SendDiscover
  <2>1. PICK y \in Xids \cup {0} : discovers' = Append(discovers, y)
    BY <1>1 DEF SendDiscover
  <2>2. PICK i \in 1 .. Len(discovers) : discovers[i] = x
    BY <1>1 DEF SendDiscover, Answers
  <2>3. /\ Len(discovers') = Len(discovers) + 1
        /\ \A j \in 1 .. Len(discovers) : discovers'[j] = discovers[j]
    BY <1>t, <2>1, AppendProperties
  <2>4. i \in 1 .. Len(discovers') /\ discovers'[i] = x
    BY <1>t, <2>2, <2>3, LenProperties
  <2> QED
    BY <2>4
<1>2. CASE Arrive
  <2>1. PICK p \in Packets :
          /\ p.xid \in Xids => \E i \in 1 .. Len(discovers) : discovers[i] = p.xid
          /\ offered' = IF p.kind = "offer" THEN offered \cup ({p.xid} \cap Xids) ELSE offered
    BY <1>2 DEF Arrive
  <2>2. discovers' = discovers
    BY <1>2 DEF Arrive, loopVars
  <2> QED
    BY <2>1, <2>2 DEF Answers
<1>3. CASE UNCHANGED <<discovers, offered>>
  BY <1>3 DEF Answers
<1> QED
  BY <1>1, <1>2, <1>3 DEF Next, Loop, SelectReady, CountTimeout, Handle, SelectFails, Elapse, vars

(* The next xid was not offered before it was drawn. *)
LEMMA NewXidIsNew ==
  ASSUME Types, Drawn, Answers, xid = 0, NEW x \in Xids
  PROVE  x \notin offered
<1> SUFFICES ASSUME x \in offered PROVE FALSE
  OBVIOUS
<1>1. PICK i \in 1 .. Len(discovers) : discovers[i] = x
  BY DEF Answers
<1>2. discovers[i] = 0
  BY DEF Drawn, OneDrawn
<1> QED
  BY <1>1, <1>2, ConstantsOK DEF ConstantsOK

LEMMA NextHeld == Types /\ Ends /\ Drawn /\ Held /\ [Next]_vars => Held'
<1> SUFFICES ASSUME Types, Ends, Drawn, Held, [Next]_vars PROVE Held'
  OBVIOUS
<1>a. Answers'
  BY OffersAnswer DEF Held
<1>s. queue \in Seq(Packets)
  BY DEF Types, Messages
<1>e. pc = "exit" <=> outcome # "none yet"
  BY DEF Ends, EndsWithVerdict
<1>0. CASE pc = "exit"
  <2>1. UNCHANGED vars
    BY <1>0, ExitIsFinal
  <2> QED
    BY <1>a, <2>1 DEF vars, Held, OfferHeld
<1>1. CASE pc # "exit" /\ SelectReady
  <2>1. /\ pc = "select" /\ pc' = "handle" /\ queue # <<>>
        /\ packet' = Head(queue) /\ queue' = Tail(queue)
        /\ UNCHANGED <<xid, offered, outcome>>
    BY <1>1 DEF SelectReady
  <2>2. OfferHeld'
    <3> SUFFICES ASSUME xid # 0, xid \in offered
                 PROVE  \/ IsFor(packet', xid)
                        \/ \E i \in 1 .. Len(queue') : IsFor(queue'[i], xid)
      BY <2>1 DEF OfferHeld
    <3>1. PICK i \in 1 .. Len(queue) : IsFor(queue[i], xid)
      BY <2>1 DEF Held, OfferHeld
    <3>2. CASE i = 1
      BY <3>1, <3>2, <2>1
    <3>3. CASE i # 1
      <4>1. i - 1 \in 1 .. Len(queue') /\ queue'[i - 1] = queue[i]
        BY <3>3, <2>1, <1>s
      <4> QED
        BY <3>1, <4>1
    <3> QED
      BY <3>2, <3>3
  <2> QED
    BY <1>1, <1>a, <1>e, <2>1, <2>2 DEF Held
<1>2. CASE pc # "exit" /\ SendDiscover
  <2>1. PICK x \in Xids \cup {0} : xid' = x
    BY <1>2 DEF SendDiscover
  <2>2. xid = 0 /\ UNCHANGED <<offered, outcome>>
    BY <1>2 DEF SendDiscover, Undiscovered
  <2>3. xid' # 0 => xid' \notin offered'
    BY <2>1, <2>2, NewXidIsNew DEF Held
  <2> QED
    BY <1>2, <1>a, <1>e, <2>2, <2>3 DEF Held, OfferHeld
<1>3. CASE pc # "exit" /\ CountTimeout
  <2>1. /\ pc = "select" /\ xid # 0 /\ queue = <<>> /\ UNCHANGED <<xid, queue, packet, offered>>
    BY <1>3 DEF CountTimeout, Undiscovered
  <2>2. 1 .. Len(<<>>) = {}
    OBVIOUS
  <2>3. xid \notin offered
    BY <1>3, <2>1, <2>2 DEF Held, OfferHeld
  <2> QED
    BY <1>a, <2>1, <2>3 DEF Held, OfferHeld
<1>4. CASE pc # "exit" /\ Handle
  <2>1. /\ pc = "handle" /\ UNCHANGED <<xid, packet, queue, offered>>
        /\ IsFor(packet, xid) => pc' = "exit"
        /\ pc' # "exit" => UNCHANGED outcome
        /\ outcome' # "no server"
    BY <1>4, <1>e DEF Handle, Leave, Stay, IsFor, ForOther, IsOffer
  <2> QED
    BY <1>4, <1>a, <2>1 DEF Held, OfferHeld
<1>5. CASE pc # "exit" /\ SelectFails
  BY <1>5, <1>a DEF SelectFails, Held, OfferHeld
<1>6. CASE pc # "exit" /\ (Elapse \/ UNCHANGED vars)
  BY <1>6, <1>a, <1>e DEF Elapse, vars, Held, OfferHeld
<1>7. CASE pc # "exit" /\ Arrive
  <2>1. PICK p \in Packets :
          /\ queue' = Append(queue, p)
          /\ offered' = IF p.kind = "offer" THEN offered \cup ({p.xid} \cap Xids) ELSE offered
    BY <1>7 DEF Arrive
  <2>2. UNCHANGED <<pc, xid, packet, outcome>>
    BY <1>7 DEF Arrive, loopVars
  <2>3. /\ Len(queue') = Len(queue) + 1 /\ queue'[Len(queue) + 1] = p
        /\ \A i \in 1 .. Len(queue) : queue'[i] = queue[i]
        /\ Len(queue) \in Nat
    BY <1>s, <2>1, AppendProperties, LenProperties
  <2>4. OfferHeld'
    <3> SUFFICES ASSUME xid # 0, xid \in offered'
                 PROVE  \/ pc = "handle" /\ IsFor(packet, xid)
                        \/ \E i \in 1 .. Len(queue') : IsFor(queue'[i], xid)
      BY <2>2 DEF OfferHeld
    <3>1. CASE xid \in offered
      <4>1. CASE pc = "handle" /\ IsFor(packet, xid)
        BY <4>1
      <4>2. CASE \E i \in 1 .. Len(queue) : IsFor(queue[i], xid)
        <5>1. PICK i \in 1 .. Len(queue) : IsFor(queue[i], xid)
          BY <4>2
        <5>2. i \in 1 .. Len(queue') /\ queue'[i] = queue[i]
          BY <2>3
        <5> QED
          BY <5>1, <5>2
      <4> QED
        BY <1>7, <3>1, <4>1, <4>2 DEF Held, OfferHeld
    <3>2. CASE xid \notin offered
      <4>1. IsFor(p, xid)
        BY <2>1, <3>2 DEF IsFor
      <4>2. Len(queue) + 1 \in 1 .. Len(queue')
        BY <2>3
      <4> QED
        BY <2>3, <4>1, <4>2
    <3> QED
      BY <3>1, <3>2
  <2> QED
    BY <1>7, <1>a, <1>e, <2>2, <2>4 DEF Held
<1> QED
  BY <1>0, <1>1, <1>2, <1>3, <1>4, <1>5, <1>6, <1>7 DEF Next, Loop

(* A server is reported on an offer for xid, and xid is the last one sent. *)
LEMMA NextServer ==
  Types /\ Ends /\ Drawn /\ ServerHasAnswered /\ [Next]_vars => ServerHasAnswered'
<1> SUFFICES ASSUME Types, Ends, Drawn, ServerHasAnswered, [Next]_vars PROVE ServerHasAnswered'
  OBVIOUS
<1>e. pc = "exit" <=> outcome # "none yet"
  BY DEF Ends, EndsWithVerdict
<1>1. CASE pc = "exit"
  <2>1. UNCHANGED vars
    BY <1>1, ExitIsFinal
  <2> QED
    BY <2>1 DEF vars, ServerHasAnswered
<1>2. CASE pc # "exit" /\ Handle
  <2>1. /\ UNCHANGED <<xid, packet, discovers>>
        /\ outcome' = "server" => packet.kind = "offer" /\ packet.xid = xid
    BY <1>2, <1>e DEF Handle, Leave, Stay, ForOther, IsOffer
  <2> QED
    BY <2>1 DEF Drawn, LastIsXid, ServerHasAnswered
<1>3. CASE pc # "exit" /\ ~Handle
  <2>1. outcome' # "server"
    BY <1>3, <1>e DEF Next, Loop, vars, loopVars, SelectReady, SendDiscover, CountTimeout,
       SelectFails, Elapse, Arrive
  <2> QED
    BY <2>1 DEF ServerHasAnswered
<1> QED
  BY <1>1, <1>2, <1>3

(* "No server" is said when all the seconds have passed since the DISCOVER *)
(* and no offer for it had arrived; a server is reported on an offer for   *)
(* the ID sent last (dhcp_main.c:441-509, 534-539).                        *)
THEOREM TrueVerdict == Spec => []VerdictIsTrue
<1>1. Types /\ [Next]_vars => Types'
  BY NextNumeric, NextMessages DEF Types
<1>2. Ends /\ Held /\ ServerHasAnswered => VerdictIsTrue
  BY DEF Ends, Held, VerdictIsTrue, NoServerIsTrue
<1> QED
  BY <1>1, <1>2, InitTypes, InitDrawn, InitEnds, InitHeld, NextDrawn, NextEnds, NextHeld,
     NextServer, PTL DEF Spec
=============================================================================
