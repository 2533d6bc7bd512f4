----------------------------- MODULE DhcpProbe ------------------------------
(***************************************************************************)
(* The main loop of dhcp_probe/dhcp_main.c: it polls once, broadcasts a    *)
(* DISCOVER when the poll times out, and then waits for an OFFER with its  *)
(* transaction ID, counting select timeouts of one second.  The network    *)
(* delivers offers late, twice, in any order or not at all, and the DHCP   *)
(* traffic of other hosts besides.  Linux leaves the time that remains in  *)
(* the timeout of select, so packets do not start the second anew.         *)
(***************************************************************************)
EXTENDS Integers, Sequences, FiniteSets

CONSTANTS
  Xids,         \* non-zero transaction IDs random_xid may return
  Foreign,      \* transaction IDs of other hosts, 0 among them or not
  COUNT,        \* the initial count, 10
  SECOND,       \* ticks of the clock in a second
  NAP,          \* ticks of the usleep after a failing read, half a second
  MaxQueue,     \* packets the socket buffers before it drops
  MaxZero       \* bound: times random_xid returns 0

ASSUME ConstantsOK ==
  /\ Xids \cap Foreign = {} /\ 0 \notin Xids
  /\ COUNT \in Nat /\ SECOND \in Nat \ {0} /\ NAP \in Nat
  /\ MaxQueue \in Nat /\ MaxZero \in Nat

VARIABLES
  pc,         \* where the loop is
  xid,        \* 0 until a DISCOVER was sent with another value
  timeout,    \* ticks left in the timeout of select
  count,      \* timeouts still to wait for
  packet,     \* what raw_sock_recv has got
  queue,      \* packets in the socket's receive buffer
  discovers,  \* history: the transaction IDs of the DISCOVERs, in order
  elapsed,    \* history: ticks since the last DISCOVER
  offered,    \* history: those of Xids that an offer in the buffer had
  outcome     \* what the probe reported

loopVars == <<pc, xid, timeout, count, packet, discovers, outcome>>
vars == <<pc, xid, timeout, count, packet, queue, discovers, elapsed, offered,
          outcome>>

(* raw_sock_recv drops what is not DHCP for port 68 (returns -2) and naps  *)
(* after a failing read (-1); the rest has a transaction ID and a message  *)
(* type, or no message type option.                                        *)
Kinds     == {"unrelated", "readError", "noType", "offer", "other"}
PacketIds == Xids \cup Foreign \cup {0}
Packets   == [kind : Kinds, xid : PacketIds]
ElapsedCap == (COUNT + 2) * SECOND                     \* bound of elapsed
Later(t)  == IF elapsed + t < ElapsedCap THEN elapsed + t ELSE ElapsedCap
NoPacket  == [kind |-> "unrelated", xid |-> 0]

Init ==
  /\ pc = "select" /\ xid = 0 /\ timeout = 0 /\ count = COUNT
  /\ packet = NoPacket /\ queue = <<>>
  /\ discovers = <<>> /\ elapsed = 0 /\ offered = {}
  /\ outcome = "none yet"
-----------------------------------------------------------------------------
(* The loop. *)

(* Linux subtracts the time select has slept; the code rearms the timeout  *)
(* only when it has run out.                                               *)
RearmedAtPacket == SECOND                                          \* mutant
Remaining == timeout

SelectReady ==
  /\ pc = "select" /\ queue # <<>>
  /\ packet' = Head(queue) /\ queue' = Tail(queue)
  /\ pc' = "handle" /\ timeout' = Remaining
  /\ UNCHANGED <<xid, count, discovers, elapsed, offered, outcome>>

SelectFails ==
  /\ pc = "select"
  /\ pc' = "exit" /\ outcome' = "select failed"
  /\ UNCHANGED <<xid, timeout, count, packet, queue, discovers, elapsed, offered>>

(* The DISCOVER goes out or fails unnoticed; either way the wait begins.   *)
(* A random xid of 0 makes the next timeout send again.                    *)
Rearm == SECOND
ZeroDrawn == Cardinality({i \in 1 .. Len(discovers) : discovers[i] = 0})

UndiscoveredAlways == TRUE                                         \* mutant
Undiscovered == xid = 0

SendDiscover ==
  /\ pc = "select" /\ queue = <<>> /\ timeout = 0 /\ Undiscovered
  /\ timeout' = Rearm
  /\ \E x \in Xids \cup (IF ZeroDrawn < MaxZero THEN {0} ELSE {}) :
       xid' = x /\ discovers' = Append(discovers, x)
  /\ elapsed' = 0
  /\ UNCHANGED <<pc, count, packet, queue, offered, outcome>>

NeverExpired == FALSE                                              \* mutant
ExpiredEarly == count <= 1                                         \* mutant
Expired == count <= 0
CountDown == count - 1

CountTimeout ==
  /\ pc = "select" /\ queue = <<>> /\ timeout = 0 /\ ~Undiscovered
  /\ timeout' = Rearm
  /\ count' = CountDown
  /\ IF Expired THEN pc' = "exit" /\ outcome' = "no server" ELSE UNCHANGED <<pc, outcome>>
  /\ UNCHANGED <<xid, packet, queue, discovers, elapsed, offered>>

Leave(reason) == pc' = "exit" /\ outcome' = reason
Stay == pc' = "select" /\ UNCHANGED outcome

ForOther(p) == p.xid # xid
IsOffer(p) == p.kind = "offer"

Handle ==
  /\ pc = "handle"
  /\ \/ packet.kind = "unrelated" /\ Stay /\ UNCHANGED elapsed
     \/ packet.kind = "readError" /\ Stay /\ elapsed' = Later(NAP)
     \/ /\ packet.kind \in {"noType", "offer", "other"}
        /\ UNCHANGED elapsed
        /\ \/ ForOther(packet) /\ Leave("other xid")
           \/ ~ForOther(packet) /\ packet.kind = "noType" /\ Leave("no type")
           \/ ~ForOther(packet) /\ IsOffer(packet) /\ Leave("server")
           \/ ~ForOther(packet) /\ ~IsOffer(packet) /\ packet.kind # "noType" /\ Stay
  /\ UNCHANGED <<xid, timeout, count, packet, queue, discovers, offered>>
-----------------------------------------------------------------------------
(* Time and the network. *)

Elapse ==
  /\ pc = "select" /\ queue = <<>> /\ timeout > 0
  /\ timeout' = timeout - 1
  /\ elapsed' = Later(1)
  /\ UNCHANGED <<pc, xid, count, packet, queue, discovers, offered, outcome>>

(* A server answers only a DISCOVER that was sent.  There is no end of     *)
(* packets; what finds the buffer full is lost.                            *)
Arrive ==
  /\ pc # "exit" /\ Len(queue) < MaxQueue
  /\ \E p \in Packets :
       /\ p.xid \in Xids => \E i \in 1 .. Len(discovers) : discovers[i] = p.xid
       /\ p.kind \in {"unrelated", "readError"} => p.xid = 0
       /\ queue' = Append(queue, p)
       /\ offered' = IF p.kind = "offer" THEN offered \cup ({p.xid} \cap Xids) ELSE offered
  /\ UNCHANGED <<loopVars, elapsed>>

Loop == SelectReady \/ SendDiscover \/ CountTimeout \/ Handle
Next == Loop \/ SelectFails \/ Elapse \/ Arrive
Spec == Init /\ [][Next]_vars

(* The process is scheduled. *)
FairSpec == Spec /\ WF_vars(Loop)
-----------------------------------------------------------------------------
(* Properties.                                                             *)

TypeOK ==
  /\ pc \in {"select", "handle", "exit"}
  /\ xid \in Xids \cup {0} /\ timeout \in 0 .. SECOND /\ count \in -1 .. COUNT
  /\ packet \in Packets /\ queue \in Seq(Packets) /\ Len(queue) <= MaxQueue
  /\ discovers \in Seq(Xids \cup {0}) /\ elapsed \in 0 .. ElapsedCap /\ offered \subseteq Xids
  /\ outcome \in {"none yet", "server", "no server", "other xid", "no type", "select failed"}

(* "No any DHCP server was found" is never said too early: a second for    *)
(* each of the COUNT + 1 timeouts that count-- <= 0 lets pass has gone by  *)
(* since the DISCOVER, and no offer with its transaction ID had got into   *)
(* the socket's buffer, however close to the last timeout.                 *)
NoServerIsTrue ==
  outcome = "no server" => elapsed >= (COUNT + 1) * SECOND /\ xid \notin offered

(* A server is reported only on an offer for a transaction ID the probe    *)
(* has sent, the one it sent last; the initial xid, 0, is the exception: a *)
(* stray offer with that ID is believed before any DISCOVER.               *)
ServerHasAnswered ==
  outcome = "server" =>
    /\ packet.xid = xid /\ packet.kind = "offer"
    /\ xid # 0 => discovers # <<>> /\ discovers[Len(discovers)] = xid

(* The verdict is neither premature nor without a reason                   *)
(* (dhcp_main.c:441-509, 534-539).                                         *)
VerdictIsTrue == NoServerIsTrue /\ ServerHasAnswered

(* One DISCOVER with a transaction ID is sent, whatever arrives; only IDs  *)
(* drawn as 0 are sent before it.                                          *)
OneDiscover ==
  \A i \in 1 .. Len(discovers) : discovers[i] # 0 => i = Len(discovers)

(* Traffic that never stops does not keep the probe from its end: it is    *)
(* enough that the socket is found empty again and again, that the sleeps  *)
(* of select between the packets, however short, add up, and that a        *)
(* timeout which has run out is met by an empty socket at some time.  A    *)
(* socket that is never empty does keep it (dhcp_main.c:429, 518-539).     *)
SleepsAddUp == SF_vars(Elapse)
SocketEmpties == []<>(pc = "select" /\ queue = <<>>) /\ SF_vars(SendDiscover \/ CountTimeout)
Terminates == SleepsAddUp /\ SocketEmpties => <>(pc = "exit")

(* "ignoring XID" (dhcp_main.c:443-447) and "couldnt get option from       *)
(* packet -- ignoring" (dhcp_main.c:453): a message with another           *)
(* transaction ID, or without a type, does not end the probe.              *)
IgnoresIgnored == outcome \notin {"other xid", "no type"}
=============================================================================
