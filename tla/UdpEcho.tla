------------------------------- MODULE UdpEcho -------------------------------
(***************************************************************************)
(* The datagram echo server udp_echo/udp_echo.c, its terminal client       *)
(* udp_echo/udp_test.c, and between them a network that loses, doubles and *)
(* reorders datagrams.  Other programs send datagrams of any length to     *)
(* both of them.                                                           *)
(***************************************************************************)
EXTENDS Integers, Sequences, FiniteSets

CONSTANTS
  MAX_BUFF_SIZE,      \* bytes the server receives at most, 2047
  SOCKET_PACKET_LEN,  \* bytes the client reads or receives at most, 1023
  Sizes,              \* lengths of the datagrams others send
  Lines,              \* lengths of the lines that may be typed, a read each
  MaxTrouble          \* bound: datagrams of others, and doubled ones

ASSUME UdpEchoOK ==
  /\ SOCKET_PACKET_LEN \in Nat \ {0} /\ MAX_BUFF_SIZE \in Nat
  /\ SOCKET_PACKET_LEN <= MAX_BUFF_SIZE
  /\ Sizes \subseteq Nat /\ Lines \in Seq(1 .. SOCKET_PACKET_LEN) /\ MaxTrouble \in Nat

VARIABLES
  usPc,       \* where the server is
  fd_server,  \* its descriptor: is it open, or -1?
  usBuf,      \* the datagram in its buffer, with the address it came from
  utPc, fd_client, utFlags,  \* the client's loop: see TerminalLoop
  linesTyped, \* how many lines were typed
  linesRead,  \* how many of them the client has read
  utEnded,    \* is that all the terminal will give?
  shown,      \* the datagrams the client has printed
  network,    \* datagrams in flight
  inbox,      \* those that wait in the socket of the server and of the client
  strays,     \* how many datagrams others have sent
  copies      \* how many datagrams the network has doubled

usVars   == <<usPc, fd_server, usBuf>>
utLoop   == <<utPc, fd_client, utFlags>>
utVars   == <<linesRead, shown>>
userVars == <<linesTyped, utEnded>>
netVars  == <<network, inbox, strays, copies>>
udpVars  == <<usVars, utLoop, utVars, userVars, netVars>>

Ut == INSTANCE TerminalLoop WITH pc <- utPc, fd <- fd_client, flags <- utFlags

Hosts == {"server", "client"}
Datagrams == [from : {"server", "client", "other"}, to : {"server", "client", "other"},
              id : 1 .. Len(Lines) + MaxTrouble, size : Nat]
Datagram(from, to, id, size) == [from |-> from, to |-> to, id |-> id, size |-> size]
(* A datagram of another program has an identity that no line has.         *)
StrayId == Len(Lines) + strays + 1

(* What does not fit into the buffer of a recvfrom is cut off.             *)
Cut(size, buffer) == IF size > buffer THEN buffer ELSE size

UdpInit ==
  /\ usPc = "start" /\ fd_server = FALSE /\ usBuf = <<>>
  /\ Ut!LoopInit /\ linesTyped = 0 /\ linesRead = 0 /\ utEnded = FALSE /\ shown = <<>>
  /\ network = {} /\ inbox = [h \in Hosts |-> <<>>] /\ strays = 0 /\ copies = 0

IsOpen(h) == IF h = "server" THEN fd_server ELSE fd_client
-----------------------------------------------------------------------------
(* The server. *)

(* The handler is installed before the socket is there. *)
UsStart ==
  /\ usPc = "start"
  /\ \/ usPc' = "recv" /\ fd_server' = TRUE
     \/ usPc' = "exit" /\ UNCHANGED fd_server
  /\ UNCHANGED <<usBuf, utLoop, utVars, userVars, netVars>>

(* A datagram without bytes ends the server, like an error.                *)
IgnoresEmpty(size) == "send"                                       \* mutant
AfterRecv(size) == IF size <= 0 THEN "closing" ELSE "send"

UsRecv ==
  /\ usPc = "recv" /\ fd_server /\ inbox["server"] # <<>>
  /\ LET d == Head(inbox["server"]) IN
       /\ usBuf' = <<[d EXCEPT !.size = Cut(@, MAX_BUFF_SIZE)]>>
       /\ usPc' = AfterRecv(Cut(d.size, MAX_BUFF_SIZE))
  /\ inbox' = [inbox EXCEPT !["server"] = Tail(@)]
  /\ UNCHANGED <<fd_server, utLoop, utVars, userVars, network, strays, copies>>

(* The handler has closed the socket: a sleeping recvfrom is started again *)
(* by the kernel, and fails as any other would.                            *)
ErrorRetried == "recv"                                             \* mutant
AfterError == "closing"

UsRecvFails ==
  /\ usPc = "recv" /\ ~fd_server
  /\ usPc' = AfterError
  /\ UNCHANGED <<fd_server, usBuf, utLoop, utVars, userVars, netVars>>

(* It goes back to where it came from.  A failing sendto is ignored.       *)
WholeBuffer == MAX_BUFF_SIZE                                       \* mutant
Received == usBuf[1].size

UsSend ==
  /\ usPc = "send" /\ usPc' = "recv"
  /\ network' = IF fd_server
                  THEN network \cup {Datagram("server", usBuf[1].from, usBuf[1].id, Received)}
                  ELSE network
  /\ usBuf' = <<>>
  /\ UNCHANGED <<fd_server, utLoop, utVars, userVars, inbox, strays, copies>>

UsTerminate ==
  /\ usPc = "closing" /\ usPc' = "exit" /\ fd_server' = FALSE
  /\ inbox' = [inbox EXCEPT !["server"] = <<>>]
  /\ UNCHANGED <<usBuf, utLoop, utVars, userVars, network, strays, copies>>

UsHandler ==
  /\ usPc # "exit" /\ fd_server' = FALSE
  /\ inbox' = [inbox EXCEPT !["server"] = <<>>]
  /\ UNCHANGED <<usPc, usBuf, utLoop, utVars, userVars, network, strays, copies>>
-----------------------------------------------------------------------------
(* The client. *)

UtReady == {f \in {"stdin", "socket"} :
              IF f = "stdin" THEN linesRead < linesTyped \/ utEnded ELSE inbox["client"] # <<>>}

UtLoop ==
  /\ Ut!Start \/ Ut!BuildFlags \/ Ut!SelectReady(UtReady) \/ Ut!SelectFails \/ Ut!Terminate
  /\ UNCHANGED <<usVars, utVars, userVars, netVars>>

(* bind fails without a descriptor. *)
UtBind ==
  /\ utPc = "ready" /\ utPc' = IF fd_client THEN "build" ELSE "exit"
  /\ UNCHANGED <<usVars, fd_client, utFlags, utVars, userVars, netVars>>

UtReadStdin ==
  /\ utPc = "readStdin" /\ utPc' = Ut!AfterStdin
  /\ \/ /\ linesRead < linesTyped /\ linesRead' = linesRead + 1
        /\ network' = IF fd_client
                        THEN network \cup {Datagram("client", "server", linesRead + 1, Lines[linesRead + 1])}
                        ELSE network
     \/ linesRead = linesTyped /\ UNCHANGED <<linesRead, network>>
  /\ UNCHANGED <<usVars, fd_client, utFlags, shown, userVars, inbox, strays, copies>>

(* Anybody's datagram is printed.  An empty one, or an error, is not.      *)
UtRecv ==
  /\ utPc = "readSocket" /\ utPc' = "build"
  /\ \/ /\ fd_client /\ inbox["client"] # <<>>
        /\ LET d == Head(inbox["client"]) IN
             shown' = IF d.size > 0 THEN Append(shown, [d EXCEPT !.size = Cut(@, SOCKET_PACKET_LEN)])
                      ELSE shown
        /\ inbox' = [inbox EXCEPT !["client"] = Tail(@)]
     \/ ~(fd_client /\ inbox["client"] # <<>>) /\ UNCHANGED <<shown, inbox>>
  /\ UNCHANGED <<usVars, fd_client, utFlags, linesRead, userVars, network, strays, copies>>

UtHandler ==
  /\ Ut!Handler(UtReady)
  /\ inbox' = [inbox EXCEPT !["client"] = <<>>]
  /\ UNCHANGED <<usVars, utVars, userVars, network, strays, copies>>
-----------------------------------------------------------------------------
(* The user, the network and other programs. *)

UdpType ==
  /\ linesTyped < Len(Lines) /\ ~utEnded
  /\ linesTyped' = linesTyped + 1
  /\ UNCHANGED <<usVars, utLoop, utVars, utEnded, netVars>>

(* At the end of the input the client's terminal is always ready.          *)
UdpEndOfInput ==
  /\ linesTyped = Len(Lines) /\ ~utEnded /\ utEnded' = TRUE
  /\ UNCHANGED <<usVars, utLoop, utVars, linesTyped, netVars>>

(* Any datagram may be the next to arrive, and may arrive again; one that  *)
(* never arrives is lost.                                                  *)
Arrive ==
  /\ \E d \in network :
       /\ d.to \in Hosts /\ IsOpen(d.to)
       /\ inbox' = [inbox EXCEPT ![d.to] = Append(@, d)]
       /\ \/ network' = network \ {d} /\ UNCHANGED copies
          \/ strays + copies < MaxTrouble /\ copies' = copies + 1 /\ UNCHANGED network
  /\ UNCHANGED <<usVars, utLoop, utVars, userVars, strays>>

Stray ==
  /\ strays + copies < MaxTrouble /\ strays' = strays + 1
  /\ \E h \in Hosts, s \in Sizes : network' = network \cup {Datagram("other", h, StrayId, s)}
  /\ UNCHANGED <<usVars, utLoop, utVars, userVars, inbox, copies>>

UdpServer == UsStart \/ UsRecv \/ UsRecvFails \/ UsSend \/ UsTerminate
UdpClient == UtLoop \/ UtBind \/ UtReadStdin \/ UtRecv
UdpNext == UdpServer \/ UdpClient \/ UsHandler \/ UtHandler
           \/ UdpType \/ UdpEndOfInput \/ Arrive \/ Stray

(* Both programs are scheduled; network, user and signals owe nothing.     *)
UdpFair == WF_udpVars(UdpServer) /\ WF_udpVars(UdpClient)
UdpSpec == UdpInit /\ [][UdpNext]_udpVars
-----------------------------------------------------------------------------
(* Properties.                                                             *)

UdpTypeOK ==
  /\ usPc \in {"start", "recv", "send", "closing", "exit"} /\ fd_server \in BOOLEAN
  /\ usBuf \in Seq(Datagrams) /\ Len(usBuf) <= 1
  /\ Ut!LoopTypeOK /\ linesTyped \in 0 .. Len(Lines) /\ linesRead \in 0 .. linesTyped
  /\ utEnded \in BOOLEAN /\ shown \in Seq(Datagrams)
  /\ network \subseteq Datagrams /\ inbox \in [Hosts -> Seq(Datagrams)]
  /\ strays \in Nat /\ copies \in Nat /\ strays + copies <= MaxTrouble

(* The server sends a datagram back to where it came from                  *)
(* (udp_echo.c:160-176), whoever sent the one before, and the client sends *)
(* each line once: what the client prints from the server are lines that   *)
(* were typed, whole, in whatever order, and no line more often than the   *)
(* network has doubled a datagram, and from others only what they sent to  *)
(* it.                                                                     *)
TimesShown(id) == Cardinality({k \in DOMAIN shown : shown[k].id = id})
UdpEchoes ==
  \A k \in DOMAIN shown :
    LET d == shown[k] IN
      /\ TimesShown(d.id) <= 1 + copies
      /\ d.from = "server" => d.id \in 1 .. linesRead /\ d.size = Lines[d.id]
      /\ d.from # "server" => d.id > Len(Lines)

(* A signal, or a datagram without bytes, ends the server                  *)
(* (udp_echo.c:68-75, 149-152), wherever it is; and signals end the client *)
(* as they do tcp_client.                                                  *)
ServerMustEnd == \/ ~fd_server /\ usPc # "start"
                 \/ usPc = "recv" /\ inbox["server"] # <<>> /\ Head(inbox["server"]).size = 0
SignalsEndUdp ==
  /\ ServerMustEnd ~> usPc = "exit"
  /\ WF_udpVars(UtHandler) => <>Ut!Ended
=============================================================================
