---------------------------- MODULE TcpEchoProofs ---------------------------
(***************************************************************************)
(* Proofs about TcpEcho, for any number of clients, any size of the table  *)
(* and of the buffer: its types, that the table says what the kernel says, *)
(* that the loop never blocks, that it implements EchoService, and that a  *)
(* client it closes after the end of its stream has got everything back.   *)
(***************************************************************************)
EXTENDS TcpEcho, SequenceTheorems, TLAPS

(* The initial state is well typed. *)
LEMMA InitTypeOK == Init => TypeOK
  BY ConstantsOK, EmptySeq DEF Init, ConstantsOK, TypeOK, Slots, Fds, SERVER

(* The slots of the table are descriptors, all but the one beyond its end. *)
LEMMA Sizes ==
  /\ SERVER \in Slots /\ MAX_SOCKET_NUM \in Fds /\ MAX_SOCKET_NUM # SERVER
  /\ Slots = Fds \ {MAX_SOCKET_NUM}
  /\ Fds \subseteq 0 .. MAX_SOCKET_NUM /\ 0 \in 0 .. MAX_SOCKET_NUM
  BY ConstantsOK DEF ConstantsOK, Slots, Fds, SERVER

(* Cutting a queue in two leaves two queues. *)
LEMMA CutSeq ==
  ASSUME NEW S, NEW s \in Seq(S), NEW k \in 0 .. Len(s)
  PROVE  /\ SubSeq(s, 1, k) \in Seq(S) /\ Len(SubSeq(s, 1, k)) = k
         /\ \A n \in 1 .. k : SubSeq(s, 1, k)[n] = s[n]
         /\ SubSeq(s, k + 1, Len(s)) \in Seq(S)
         /\ Len(SubSeq(s, k + 1, Len(s))) = Len(s) - k
         /\ \A n \in 1 .. Len(s) - k : SubSeq(s, k + 1, Len(s))[n] = s[k + n]
  OBVIOUS

LEMMA CutBytes ==
  \A s \in Seq(Bytes) : \A k \in 0 .. Len(s) :
    /\ SubSeq(s, 1, k) \in Seq(Bytes) /\ Len(SubSeq(s, 1, k)) = k
    /\ SubSeq(s, k + 1, Len(s)) \in Seq(Bytes)
    /\ Len(SubSeq(s, k + 1, Len(s))) = Len(s) - k
  BY CutSeq

(* What a write hands over is in the buffer, and there is room for it. *)
LEMMA PortionFits ==
  ASSUME TypeOK, NEW c \in Clients, NEW n \in Portions(c)
  PROVE  n \in 1 .. Len(g_buf) /\ Len(g_buf) \in Nat /\ held[c] + n \in 0 .. ROOM
<1>1. Len(g_buf) \in Nat /\ held[c] \in 0 .. ROOM /\ ROOM \in Nat
  BY ConstantsOK DEF TypeOK, ConstantsOK
<1> QED
  BY <1>1 DEF Portions

LEMMA NextTypeOK == TypeOK /\ [Next]_vars => TypeOK'
<1> SUFFICES ASSUME TypeOK, [Next]_vars PROVE TypeOK'
  OBVIOUS
<1> USE Sizes DEF TypeOK, procVars, tableVars, tcpVars, clientVars
<1>0. <<>> \in Seq(Bytes) /\ <<>> \in Seq(Clients) /\ Len(<<>>) <= BUFFER /\ 0 \in 0 .. ROOM
  BY EmptySeq, ConstantsOK DEF ConstantsOK
<1>1. CASE Setup
  <2>1. g_socket' \in [Slots -> Slots \cup {-1}]
    BY <1>1, SMTT(20) DEF Setup
  <2>2. owner' \in [Fds -> Clients \cup {Listener, Free}]
    BY <1>1 DEF Setup
  <2>3. /\ pc' \in {"build", "exit"} /\ fd_server' \in {-1, SERVER}
        /\ UNCHANGED <<flags, fd, g_buf, backlog, peer, err, inq, held, sent, echoed, lost, signals>>
    BY <1>1 DEF Setup
  <2> QED
    BY <2>1, <2>2, <2>3
<1>2. CASE BuildFlags
  BY <1>2 DEF BuildFlags, Selected
<1>3. CASE SelectReady
  BY <1>3 DEF SelectReady, Flagged
<1>4. CASE SelectFails
  BY <1>4 DEF SelectFails, AfterSelectError
<1>5. CASE Dispatch
  BY <1>5 DEF Dispatch
<1>6. CASE Accept
  <2>1. Head(backlog) \in Clients /\ Tail(backlog) \in Seq(Clients)
    BY <1>6 DEF Accept
  <2>2. PICK f \in Fds :
       \/ /\ ~TooLarge(f)
          /\ owner' = [owner EXCEPT ![f] = Head(backlog)]
          /\ g_socket' = [i \in DOMAIN g_socket \cup {f} |-> IF i = f THEN f ELSE g_socket[i]]
          /\ UNCHANGED tcpVars
       \/ TooLarge(f) /\ CloseConnection(Head(backlog)) /\ UNCHANGED <<g_socket, owner>>
    BY <1>6, Zenon DEF Accept
  <2>3. owner' \in [Fds -> Clients \cup {Listener, Free}]
    BY <2>1, <2>2, ZenonT(20)
  <2>4. g_socket' \in [Slots -> Slots \cup {-1}]
    <3>1. \A g \in Fds : ~TooLarge(g) => g \in Slots
      BY ConstantsOK DEF ConstantsOK, Fds, Slots, SERVER, TooLarge
    <3>2. CASE g_socket' = [i \in DOMAIN g_socket \cup {f} |-> IF i = f THEN f ELSE g_socket[i]]
               /\ f \in Slots
      <4>1. DOMAIN g_socket \cup {f} = Slots
        BY <3>2
      <4> QED
        BY <3>2, <4>1
    <3> QED
      BY <2>2, <3>1, <3>2
  <2>5. /\ peer' \in [Clients -> {"none", "est", "half", "fin", "answering", "rst", "gone"}]
        /\ err' \in [Clients -> {"none", "reset", "pipe"}]
        /\ inq' \in [Clients -> Seq(Bytes)] /\ held' \in [Clients -> 0 .. ROOM]
    BY <1>0, <2>2, ZenonT(60) DEF CloseConnection
  <2> QED
    BY <1>6, <2>1, <2>3, <2>4, <2>5 DEF Accept, NextFd
<1>7. CASE AcceptFails
  <2>1. backlog' \in Seq(Clients)
    <3>1. backlog # <<>> => Tail(backlog) \in Seq(Clients)
      OBVIOUS
    <3> QED
      BY <1>7, <3>1 DEF AcceptFails
  <2> QED
    BY <1>7, <1>0, <2>1, ZenonT(60) DEF AcceptFails, NextFd, CloseConnection
<1>8. CASE ReadData
  <2> DEFINE c == owner[fd]
  <2>1. c \in Clients /\ inq[c] \in Seq(Bytes)
    BY <1>8 DEF ReadData, IsConn
  <2>3. Taken(c) \in 0 .. Len(inq[c]) /\ Taken(c) <= BUFFER
    BY <2>1, ConstantsOK, SMTT(20) DEF Taken, ConstantsOK
  <2>4. /\ SubSeq(inq[c], 1, Taken(c)) \in Seq(Bytes)
        /\ Len(SubSeq(inq[c], 1, Taken(c))) = Taken(c)
        /\ SubSeq(inq[c], Taken(c) + 1, Len(inq[c])) \in Seq(Bytes)
    BY <2>1, <2>3, CutBytes, Zenon
  <2>5. /\ g_buf' = SubSeq(inq[c], 1, Taken(c))
        /\ inq' = [inq EXCEPT ![c] = SubSeq(inq[c], Taken(c) + 1, Len(inq[c]))]
    BY <1>8 DEF ReadData
  <2>6. g_buf' \in Seq(Bytes) /\ Len(g_buf') <= BUFFER /\ inq' \in [Clients -> Seq(Bytes)]
    BY <2>3, <2>4, <2>5
  <2> QED
    BY <1>8, <2>6 DEF ReadData
<1>9. CASE ReadEnds
  BY <1>9, <1>0, ZenonT(20) DEF ReadEnds, Closes, CloseFd, CloseConnection, NextFd, IsConn
<1>10. CASE Write
  <2>0. PICK n \in Portions(owner[fd]) :
          /\ echoed' = [echoed EXCEPT ![owner[fd]] = Delivered(owner[fd], n)]
          /\ held' = [held EXCEPT ![owner[fd]] = @ + n]
          /\ g_buf' = Rest(n)
    BY <1>10, Zenon DEF Write
  <2>1. owner[fd] \in Clients
    BY <1>10 DEF Write, InWrite, IsConn
  <2>2. n \in 0 .. Len(g_buf) /\ Len(g_buf) \in Nat /\ held[owner[fd]] + n \in 0 .. ROOM
    <3>1. n \in 1 .. Len(g_buf) /\ Len(g_buf) \in Nat /\ held[owner[fd]] + n \in 0 .. ROOM
      BY <2>1, PortionFits, Zenon
    <3> QED
      BY <3>1
  <2>3. /\ SubSeq(g_buf, 1, n) \in Seq(Bytes) /\ g_buf' \in Seq(Bytes)
        /\ Len(g_buf') = Len(g_buf) - n
    <3>1. g_buf \in Seq(Bytes)
      OBVIOUS
    <3> QED
      BY <2>0, <2>2, <3>1, CutBytes, Zenon DEF Rest
  <2>4. Len(g_buf') <= BUFFER
    BY <2>2, <2>3, ConstantsOK DEF ConstantsOK
  <2>5. echoed' \in [Clients -> Seq(Bytes)]
    <3>1. echoed[owner[fd]] \in Seq(Bytes)
      BY <2>1
    <3>2. Delivered(owner[fd], n) \in Seq(Bytes)
      BY <2>3, <3>1, ConcatProperties, Zenon DEF Delivered
    <3> QED
      BY <2>0, <3>2
  <2>6. held' \in [Clients -> 0 .. ROOM]
    BY <2>0, <2>1, <2>2
  <2>7. /\ pc' \in {"build", "scan", "writing"} /\ fd' \in {0, fd}
        /\ UNCHANGED <<flags, fd_server, g_socket, owner, backlog, peer, err, inq, sent, lost,
                      signals>>
    BY <1>10 DEF Write, NextFd
  <2> QED
    BY <2>3, <2>4, <2>5, <2>6, <2>7
<1>20. CASE WriteEnds
  <2>1. /\ err' \in [Clients -> {"none", "reset", "pipe"}]
        /\ peer' \in [Clients -> {"none", "est", "half", "fin", "answering", "rst", "gone"}]
    BY <1>20 DEF WriteEnds
  <2>2. /\ pc' \in {"build", "scan"} /\ fd' = 0 /\ g_buf' = <<>>
        /\ UNCHANGED <<flags, fd_server, g_socket, owner, backlog, inq, held, sent, echoed, lost,
                      signals>>
    BY <1>20 DEF WriteEnds, NextFd
  <2> QED
    BY <1>0, <2>1, <2>2
<1>11. ASSUME NEW how \in {"exit", "killed"}, Ends(how),
              UNCHANGED <<flags, fd, fd_server, g_socket, sent, echoed, lost, signals>>
       PROVE  TypeOK'
  <2>1. /\ owner' \in [Fds -> Clients \cup {Listener, Free}]
        /\ peer' \in [Clients -> {"none", "est", "half", "fin", "answering", "rst", "gone"}]
        /\ err' \in [Clients -> {"none", "reset", "pipe"}]
        /\ inq' \in [Clients -> Seq(Bytes)] /\ held' \in [Clients -> 0 .. ROOM]
    BY <1>11, <1>0 DEF Ends
  <2>2. pc' = how /\ g_buf' = <<>> /\ backlog' = <<>>
    BY <1>11 DEF Ends
  <2> QED
    BY <1>0, <1>11, <2>1, <2>2
<1>12. CASE Sigpipe \/ Terminate
  BY <1>11, <1>12 DEF Sigpipe, Terminate
<1>13. CASE EndHdlr
  <2>1. backlog' \in Seq(Clients)
    BY <1>13, <1>0 DEF EndHdlr
  <2>2. peer' \in [Clients -> {"none", "est", "half", "fin", "answering", "rst", "gone"}]
    BY <1>13 DEF EndHdlr
  <2>3. owner' \in [Fds -> Clients \cup {Listener, Free}]
    BY <1>13 DEF EndHdlr
  <2>4. g_socket' \in [Slots -> Slots \cup {-1}]
    BY <1>13 DEF EndHdlr
  <2>5. fd_server' = -1 /\ signals' \in 0 .. MaxSignals
    BY <1>13, ConstantsOK DEF EndHdlr, ConstantsOK
  <2>7. CASE CutShort
    <3>1. owner[fd] \in Clients /\ Len(g_buf) \in Nat
      BY <2>7 DEF CutShort, InWrite, IsConn
    <3>2. lost' \in [Clients -> Nat]
      BY <2>7, <3>1 DEF CutShort
    <3>3. pc' \in {"build", "scan"} /\ fd' = 0 /\ flags' = flags /\ g_buf' = <<>>
      BY <2>7 DEF CutShort, NextFd
    <3> QED
      BY <1>0, <1>13, <2>1, <2>2, <2>3, <2>4, <2>5, <3>2, <3>3 DEF EndHdlr
  <2>8. CASE pc' \in {pc, "closing"} /\ UNCHANGED <<flags, fd, g_buf, lost>>
    BY <1>13, <2>1, <2>2, <2>3, <2>4, <2>5, <2>8 DEF EndHdlr
  <2> QED
    BY <1>13, <2>7, <2>8 DEF EndHdlr, AfterSelectError
<1>14. ASSUME NEW c \in Clients, Connect(c) PROVE TypeOK'
  <2>1. backlog' \in Seq(Clients)
    BY <1>14, AppendProperties DEF Connect
  <2> QED
    BY <1>14, <2>1 DEF Connect
<1>15. ASSUME NEW c \in Clients, Send(c) PROVE TypeOK'
  <2>1. sent[c] + 1 \in 1 .. MaxBytes[c]
    <3>1. sent[c] < MaxBytes[c]
      BY <1>15 DEF Send
    <3>2. sent[c] \in Nat /\ MaxBytes[c] \in Nat
      BY ConstantsOK DEF ConstantsOK
    <3> QED
      BY <3>1, <3>2
  <2>2. Byte(c, sent[c] + 1) \in Bytes
    BY <2>1 DEF Bytes
  <2>3. Append(inq[c], Byte(c, sent[c] + 1)) \in Seq(Bytes)
    BY <2>2, AppendProperties
  <2>4. inq' \in [Clients -> Seq(Bytes)]
    BY <1>15, <2>3 DEF Send
  <2>5. sent' \in [Clients -> Nat] /\ \A d \in Clients : sent'[d] <= MaxBytes[d]
    <3>1. sent' = [sent EXCEPT ![c] = sent[c] + 1]
      BY <1>15 DEF Send
    <3>2. sent \in [Clients -> Nat] /\ \A d \in Clients : sent[d] <= MaxBytes[d]
      BY DEF TypeOK
    <3>3. sent[c] + 1 \in Nat /\ sent[c] + 1 <= MaxBytes[c]
      <4>1. sent[c] \in Nat /\ MaxBytes[c] \in Nat
        BY <3>2, ConstantsOK DEF ConstantsOK
      <4> QED
        BY <2>1, <4>1
    <3>4. sent' \in [Clients -> Nat]
      BY <3>1, <3>2, <3>3
    <3>5. ASSUME NEW d \in Clients PROVE sent'[d] <= MaxBytes[d]
      <4>1. CASE d = c
        BY <3>1, <3>2, <3>3, <4>1
      <4>2. CASE d # c
        BY <3>1, <3>2, <4>2
      <4> QED
        BY <4>1, <4>2
    <3> QED
      BY <3>4, <3>5
  <2>6. UNCHANGED <<pc, flags, fd, g_buf, fd_server, g_socket, owner, backlog, peer, err, held,
                    echoed, lost, signals>>
    BY <1>15 DEF Send
  <2> QED
    BY <2>4, <2>5, <2>6
<1>16. ASSUME NEW c \in Clients, Finish(c) PROVE TypeOK'
  <2>3. \/ UNCHANGED held /\ peer' = [peer EXCEPT ![c] = "half"]
        \/ /\ held' = [held EXCEPT ![c] = 0]
           /\ \E e \in {"fin", "answering"} : peer' = [peer EXCEPT ![c] = e]
    BY <1>16, Zenon DEF Finish
  <2>1. /\ peer' \in [Clients -> {"none", "est", "half", "fin", "answering", "rst", "gone"}]
        /\ held' \in [Clients -> 0 .. ROOM]
    BY <1>0, <2>3
  <2>2. UNCHANGED <<pc, flags, fd, g_buf, fd_server, g_socket, owner, backlog, err, inq, sent,
                    echoed, lost, signals>>
    BY <1>16 DEF Finish
  <2> QED
    BY <2>1, <2>2
<1>17. ASSUME NEW c \in Clients, Reset(c) PROVE TypeOK'
  BY <1>17, <1>0 DEF Reset
<1>21. ASSUME NEW c \in Clients, Receive(c) PROVE TypeOK'
  <2>1. held' \in [Clients -> 0 .. ROOM]
    BY <1>21, ConstantsOK DEF Receive, ConstantsOK
  <2> QED
    BY <1>21, <2>1 DEF Receive
<1>18. CASE UNCHANGED vars
  BY <1>18 DEF vars
<1> QED
  BY <1>1, <1>2, <1>3, <1>4, <1>5, <1>6, <1>7, <1>8, <1>9, <1>10, <1>11, <1>12, <1>13,
     <1>14, <1>15, <1>16, <1>17, <1>18, <1>20, <1>21 DEF Next, Server, Client

(* Whatever the clients and the signals do, every variable of the server,  *)
(* the kernel and the clients has its type; in particular the table never  *)
(* gets an entry beyond its end and a read never exceeds the buffer        *)
(* (tcp_echo.c:18-19, 229-236).                                            *)
THEOREM Typing == Spec => []TypeOK
<1>1. Init => TypeOK
  BY InitTypeOK
<1>2. TypeOK /\ [Next]_vars => TypeOK'
  BY NextTypeOK
<1> QED
  BY <1>1, <1>2, PTL DEF Spec
-----------------------------------------------------------------------------
(* What holds between any two steps of the server, the kernel, the clients *)
(* and the handler.                                                        *)

(* Slot 3 is the listening socket or nobody's: the handler closes it once  *)
(* and no connection ever gets its number.  The other slots hold           *)
(* connections, and each field of the table says what the kernel says.     *)
SlotsAreTrue ==
  /\ Alive => \A i \in Slots : g_socket[i] = IF owner[i] = Free THEN -1 ELSE i
  /\ Alive => owner[SERVER] = IF fd_server = SERVER THEN Listener ELSE Free
  /\ \A f \in Fds \ {SERVER} : owner[f] # Listener
  /\ owner[SERVER] \in {Listener, Free} /\ owner[MAX_SOCKET_NUM] = Free

(* The fd_set of a round and the descriptor it serves: what was flagged is *)
(* still to be served, and what is being served is flagged no more.        *)
InRound == pc \in {"scan", "accept", "read", "write", "writing"}

FlagsAreReady ==
  InRound =>
    /\ fd \notin flags
    /\ \A f \in flags \ {SERVER} : IsConn(f) /\ Readable(owner[f])
    /\ SERVER \in flags => owner[SERVER] # Listener \/ backlog # <<>>

ServedIsReady ==
  /\ pc = "setup" => fd_server = -1
  /\ pc = "accept" => fd = SERVER /\ (owner[SERVER] # Listener \/ backlog # <<>>)
  /\ pc = "read" => \/ fd = SERVER /\ owner[SERVER] = Free
                    \/ fd \in Slots \ {SERVER} /\ IsConn(fd) /\ Readable(owner[fd])
  /\ pc \in {"write", "writing"} => fd \in Slots \ {SERVER} /\ IsConn(fd) /\ g_buf # <<>>

(* A connection is in one place: in the backlog once, or behind one        *)
(* descriptor, and then its client is there.                               *)
Waiting(c) == \E i \in 1 .. Len(backlog) : backlog[i] = c

OnePlace ==
  /\ \A f, g \in Fds : owner[f] \in Clients /\ owner[f] = owner[g] => f = g
  /\ \A i, j \in 1 .. Len(backlog) : backlog[i] = backlog[j] => i = j
  /\ \A f \in Fds : ~Waiting(owner[f])
  /\ \A c \in Clients :
       Waiting(c) \/ (\E f \in Fds : owner[f] = c) => peer[c] \notin {"none", "gone"}
  /\ backlog # <<>> => owner[SERVER] = Listener

Control == TypeOK /\ SlotsAreTrue /\ FlagsAreReady /\ ServedIsReady /\ OnePlace

LEMMA InitControl == Init => Control
<1> SUFFICES ASSUME Init PROVE Control
  OBVIOUS
<1>1. TypeOK
  BY InitTypeOK
<1>2. SlotsAreTrue
  BY Sizes, ConstantsOK DEF Init, SlotsAreTrue, ConstantsOK, SERVER
<1>3. FlagsAreReady /\ ServedIsReady
  BY DEF Init, FlagsAreReady, ServedIsReady, InRound
<1>4. OnePlace
  BY Sizes, ConstantsOK DEF Init, OnePlace, ConstantsOK, Waiting
<1> QED
  BY <1>1, <1>2, <1>3, <1>4 DEF Control

(* The table and the kernel: an accepted connection and its slot appear    *)
(* together, and the handler empties slot 3 only while it is the listener. *)
LEMMA SlotsStep == Control /\ [Next]_vars => SlotsAreTrue'
<1> SUFFICES ASSUME Control, [Next]_vars PROVE SlotsAreTrue'
  OBVIOUS
<1> USE Sizes DEF Control, TypeOK, SlotsAreTrue, Alive, procVars, tableVars, tcpVars, clientVars
<1>0. Listener # Free /\ Listener \notin Clients /\ Free \notin Clients
  BY ConstantsOK DEF ConstantsOK
<1>1. CASE UNCHANGED <<owner, g_socket, fd_server>> /\ (Alive' => Alive)
  BY <1>1
<1>2. CASE Setup
  <2>1. CASE pc' = "exit" /\ UNCHANGED <<tableVars, owner>>
    BY <2>1
  <2>2. CASE /\ pc' = "build" /\ fd_server' = SERVER
             /\ g_socket' = [g_socket EXCEPT ![SERVER] = SERVER]
             /\ owner' = [owner EXCEPT ![SERVER] = Listener]
    <3>1. \A i \in Slots : g_socket'[i] = IF owner'[i] = Free THEN -1 ELSE i
      BY <1>0, <1>2, <2>2 DEF Setup
    <3> QED
      BY <1>0, <2>2, <3>1
  <2> QED
    BY <1>2, <2>1, <2>2 DEF Setup
<1>3. CASE Accept
  <2>1. Head(backlog) \in Clients
    BY <1>3 DEF Accept
  <2>2. PICK f \in Fds : LowestFree(f) /\
       \/ /\ ~TooLarge(f)
          /\ owner' = [owner EXCEPT ![f] = Head(backlog)]
          /\ g_socket' = [i \in DOMAIN g_socket \cup {f} |-> IF i = f THEN f ELSE g_socket[i]]
       \/ UNCHANGED <<g_socket, owner>>
    BY <1>3, Zenon DEF Accept
  <2>3. f # SERVER
    BY <1>0, <1>3, <2>2 DEF Accept, LowestFree
  <2>4. CASE UNCHANGED <<g_socket, owner>>
    BY <1>3, <2>4 DEF Accept
  <2>5. CASE /\ ~TooLarge(f)
             /\ owner' = [owner EXCEPT ![f] = Head(backlog)]
             /\ g_socket' = [i \in DOMAIN g_socket \cup {f} |-> IF i = f THEN f ELSE g_socket[i]]
    <3>1. f # MAX_SOCKET_NUM /\ f \in Slots
      BY <2>5, ConstantsOK DEF TooLarge, ConstantsOK
    <3>2. \A i \in Slots : g_socket'[i] = IF i = f THEN f ELSE g_socket[i]
      BY <2>5
    <3>3. UNCHANGED fd_server /\ pc = "accept"
      BY <1>3 DEF Accept
    <3> QED
      BY <1>0, <2>1, <2>3, <2>5, <3>1, <3>2, <3>3, ZenonT(20)
  <2> QED
    BY <2>2, <2>4, <2>5
<1>4. CASE ReadEnds
  <2>1. fd \in Slots /\ (fd = SERVER => owner[SERVER] = Free)
    BY <1>4 DEF ReadEnds, ServedIsReady
  <2>2. owner' = [owner EXCEPT ![fd] = Free] /\ g_socket' = [g_socket EXCEPT ![fd] = -1]
    BY <1>4 DEF ReadEnds, Closes, CloseFd
  <2> QED
    BY <1>0, <1>4, <2>1, <2>2 DEF ReadEnds
<1>5. CASE Sigpipe \/ Terminate
  BY <1>0, <1>5 DEF Sigpipe, Terminate, Ends
<1>6. CASE EndHdlr
  BY <1>0, <1>6, SMTT(20) DEF EndHdlr, SERVER
<1> QED
  BY <1>1, <1>2, <1>3, <1>4, <1>5, <1>6 DEF Next, Server, Client, vars, BuildFlags, SelectReady,
     SelectFails, Dispatch, AcceptFails, ReadData, Write, WriteEnds, InWrite, Connect, Send,
     Receive, Finish, Reset, NextFd

(* A connection moves from the backlog to a descriptor, or is closed; a    *)
(* client that only ends its stream or resets it stays where it is.        *)
LEMMA OnePlaceStep == Control /\ [Next]_vars => OnePlace'
<1> SUFFICES ASSUME Control, [Next]_vars PROVE OnePlace'
  OBVIOUS
<1>0. Listener # Free /\ Listener \notin Clients /\ Free \notin Clients
  BY ConstantsOK DEF ConstantsOK
<1> DEFINE Here(c) == peer[c] \notin {"none", "gone"}
<1>t. /\ OnePlace /\ SERVER \in Fds
      /\ owner \in [Fds -> Clients \cup {Listener, Free}]
      /\ peer \in [Clients -> {"none", "est", "half", "fin", "answering", "rst", "gone"}]
      /\ backlog \in Seq(Clients)
      /\ Alive => owner[SERVER] = IF fd_server = SERVER THEN Listener ELSE Free
  BY Sizes DEF Control, TypeOK, SlotsAreTrue
<1> USE DEF OnePlace, Waiting
<1>1. CASE UNCHANGED <<owner, backlog>> /\ \A c \in Clients : Here(c) => Here(c)'
  BY <1>t, <1>1
<1>2. CASE Setup
  <2>1. owner[SERVER] = Free
    BY <1>0, <1>2, <1>t DEF Setup, Alive, SERVER, Control, ServedIsReady
  <2>2. owner' = owner \/ owner' = [owner EXCEPT ![SERVER] = Listener]
    BY <1>2 DEF Setup
  <2>3. UNCHANGED <<backlog, peer>>
    BY <1>2 DEF Setup, tcpVars
  <2>4. backlog = <<>>
    BY <1>0, <1>t, <2>1
  <2> QED
    BY <1>0, <1>t, <2>1, <2>2, <2>3, <2>4
(* The first connection of the backlog leaves it. *)
<1>3. ASSUME backlog # <<>>
      PROVE  /\ Head(backlog) \in Clients /\ Waiting(Head(backlog)) /\ Here(Head(backlog))
             /\ \A f \in Fds : owner[f] # Head(backlog)
             /\ backlog' = Tail(backlog) =>
                  /\ \A i, j \in 1 .. Len(backlog') : backlog'[i] = backlog'[j] => i = j
                  /\ \A c \in Clients : Waiting(c)' => Waiting(c) /\ c # Head(backlog)
  <2>1. /\ Len(backlog) \in Nat /\ Len(backlog) > 0 /\ Head(backlog) = backlog[1]
        /\ Len(Tail(backlog)) = Len(backlog) - 1
        /\ \A i \in 1 .. Len(Tail(backlog)) : Tail(backlog)[i] = backlog[i + 1]
    BY <1>3, <1>t
  <2>2. Waiting(Head(backlog)) /\ Head(backlog) \in Clients
    BY <1>t, <2>1
  <2>3. Here(Head(backlog)) /\ \A f \in Fds : owner[f] # Head(backlog)
    BY <1>t, <2>2
  <2>4. ASSUME backlog' = Tail(backlog)
        PROVE  \A i \in 1 .. Len(backlog') :
                 i + 1 \in 1 .. Len(backlog) /\ backlog'[i] = backlog[i + 1] /\ i + 1 # 1
    BY <2>1, <2>4
  <2>5. \A i, j \in 1 .. Len(backlog) : backlog[i] = backlog[j] => i = j
    BY <1>t
  <2>6. 1 \in 1 .. Len(backlog)
    BY <2>1
  <2> QED
    BY <2>1, <2>2, <2>3, <2>4, <2>5, <2>6
<1>4. CASE Accept
  <2> DEFINE h == Head(backlog)
  <2>1. /\ backlog # <<>> /\ owner[SERVER] = Listener /\ backlog' = Tail(backlog)
        /\ UNCHANGED fd_server
    BY <1>4 DEF Accept
  <2>2. PICK f \in Fds : LowestFree(f) /\
       \/ owner' = [owner EXCEPT ![f] = h] /\ UNCHANGED tcpVars
       \/ CloseConnection(h) /\ UNCHANGED owner
    BY <1>4, Zenon DEF Accept
  <2>3. owner[f] = Free /\ f # SERVER
    BY <1>0, <2>1, <2>2 DEF LowestFree
  <2>4. CASE owner' = [owner EXCEPT ![f] = h] /\ UNCHANGED tcpVars
    BY <1>0, <1>t, <1>3, <2>1, <2>3, <2>4 DEF tcpVars
  <2>5. CASE CloseConnection(h) /\ UNCHANGED owner
    BY <1>0, <1>t, <1>3, <2>1, <2>5 DEF CloseConnection
  <2> QED
    BY <2>2, <2>4, <2>5
<1>5. CASE AcceptFails
  <2>1. CASE UNCHANGED <<backlog, tcpVars>>
    BY <1>1, <1>5, <2>1 DEF AcceptFails, tcpVars
  <2>2. CASE /\ owner[SERVER] = Listener /\ backlog # <<>> /\ backlog' = Tail(backlog)
             /\ CloseConnection(Head(backlog))
    BY <1>0, <1>t, <1>3, <1>5, <2>2 DEF CloseConnection, AcceptFails
  <2> QED
    BY <1>5, <2>1, <2>2 DEF AcceptFails
<1>6. CASE ReadEnds
  <2>1. fd \in Fds /\ owner[fd] # Listener
    BY <1>0, <1>6, Sizes DEF ReadEnds, ServedIsReady, IsConn, Control
  <2>2. owner' = [owner EXCEPT ![fd] = Free] /\ UNCHANGED <<backlog, fd_server>>
    BY <1>6 DEF ReadEnds, Closes, CloseFd
  <2>3. \/ owner[fd] \in Clients /\ peer' = [peer EXCEPT ![owner[fd]] = "gone"]
        \/ UNCHANGED peer
    BY <1>6 DEF ReadEnds, Closes, CloseFd, CloseConnection, IsConn, tcpVars
  <2> QED
    BY <1>0, <1>t, <2>1, <2>2, <2>3
<1>7. CASE Sigpipe \/ Terminate
  <2>1. owner' = [f \in Fds |-> Free] /\ backlog' = <<>>
    BY <1>7 DEF Sigpipe, Terminate, Ends
  <2> QED
    BY <1>0, <1>t, <2>1
<1>8. CASE EndHdlr
  <2>1. CASE fd_server > 0
    <3>1. /\ owner' = [owner EXCEPT ![SERVER] = Free] /\ backlog' = <<>>
          /\ peer' = [c \in Clients |-> IF Waiting(c) THEN "gone" ELSE peer[c]]
      BY <1>8, <2>1 DEF EndHdlr
    <3>2. \A c \in Clients : peer'[c] = IF Waiting(c) THEN "gone" ELSE peer[c]
      BY <3>1
    <3>3. \A f \in Fds : owner'[f] = IF f = SERVER THEN Free ELSE owner[f]
      BY <1>t, <3>1
    <3>4. 1 .. Len(backlog') = {} /\ backlog' = <<>>
      BY <3>1
    <3>5. \A f \in Fds, c \in Clients : owner'[f] = c => owner[f] = c /\ peer'[c] = peer[c]
      BY <1>0, <1>t, <3>2, <3>3
    <3>6. \A f, g \in Fds : owner'[f] \in Clients /\ owner'[f] = owner'[g] => f = g
      BY <1>0, <1>t, <3>3
    <3>7. \A c \in Clients : Waiting(c)' \/ (\E f \in Fds : owner'[f] = c) => Here(c)'
      BY <1>t, <3>4, <3>5
    <3> QED
      BY <3>4, <3>6, <3>7
  <2>2. CASE ~(fd_server > 0)
    <3>1. UNCHANGED <<owner, backlog, peer>>
      BY <1>t, <1>8, <2>2 DEF EndHdlr
    <3>2. backlog = <<>>
      BY <1>0, <1>t, <1>8, <2>2 DEF SERVER, EndHdlr
    <3> QED
      BY <1>t, <3>1, <3>2
  <2> QED
    BY <2>1, <2>2
<1>9. ASSUME NEW c \in Clients, Connect(c) PROVE OnePlace'
  <2>1. /\ backlog' = Append(backlog, c) /\ peer[c] = "none" /\ owner[SERVER] = Listener
        /\ peer' = [peer EXCEPT ![c] = "est"] /\ UNCHANGED <<owner, fd_server>>
    BY <1>9 DEF Connect, tableVars
  <2>2. /\ Len(backlog) \in Nat /\ Len(backlog') = Len(backlog) + 1
        /\ backlog'[Len(backlog) + 1] = c
        /\ \A i \in 1 .. Len(backlog) : backlog'[i] = backlog[i]
    BY <1>t, <2>1
  <2>3. ~Waiting(c) /\ \A f \in Fds : owner[f] # c
    BY <1>t, <2>1
  <2>4. \A d : Waiting(d)' <=> Waiting(d) \/ d = c
    BY <2>2
  <2>5. \A i, j \in 1 .. Len(backlog') : backlog'[i] = backlog'[j] => i = j
    <3>1. \A i \in 1 .. Len(backlog) : backlog[i] # c
      BY <2>3
    <3>2. \A i \in 1 .. Len(backlog') : i \in 1 .. Len(backlog) \/ i = Len(backlog) + 1
      BY <2>2
    <3> QED
      BY <1>t, <2>2, <3>1, <3>2
  <2> QED
    BY <1>0, <1>t, <2>1, <2>3, <2>4, <2>5
<1>10. ASSUME NEW c \in Clients, Finish(c) \/ Reset(c) \/ Send(c) \/ Receive(c)
       PROVE  OnePlace'
  <2>1. UNCHANGED <<owner, backlog>>
    BY <1>10 DEF Finish, Reset, Send, Receive
  <2>2. \A d \in Clients : Here(d) => Here(d)'
    BY <1>10, <1>t DEF Finish, Reset, Send, Receive, Stays
  <2> QED
    BY <1>1, <2>1, <2>2
<1>11. CASE WriteEnds
  <2>1. UNCHANGED <<owner, backlog>>
    BY <1>11 DEF WriteEnds
  <2>2. \A d \in Clients : Here(d) => Here(d)'
    BY <1>11, <1>t DEF WriteEnds
  <2> QED
    BY <1>1, <2>1, <2>2
<1>12. CASE UNCHANGED <<owner, backlog, peer>>
  BY <1>1, <1>12
<1> QED
  BY <1>2, <1>4, <1>5, <1>6, <1>7, <1>8, <1>9, <1>10, <1>11, <1>12 DEF Next, Server, Client, vars,
     BuildFlags, SelectReady, SelectFails, Dispatch, ReadData, Write, tcpVars

(* While the server lives, a connection that has something to be read      *)
(* keeps it until the server itself reads or writes there; another client  *)
(* cannot get its descriptor.                                              *)
LEMMA StaysReady ==
  ASSUME Control, [Next]_vars, Alive',
         NEW f \in Slots \ {SERVER}, IsConn(f), Readable(owner[f]),
         f # fd \/ pc \notin {"read", "write"} \/ pc' = pc
  PROVE  IsConn(f)' /\ Readable(owner[f])'
<1> DEFINE c == owner[f]
<1>0. c \in Clients /\ f \in Fds /\ f # SERVER
  BY Sizes DEF IsConn
<1>t. /\ OnePlace /\ ServedIsReady /\ owner \in [Fds -> Clients \cup {Listener, Free}]
      /\ peer \in [Clients -> {"none", "est", "half", "fin", "answering", "rst", "gone"}]
      /\ err \in [Clients -> {"none", "reset", "pipe"}] /\ inq \in [Clients -> Seq(Bytes)]
      /\ Clients \cap {Listener, Free} = {}
  BY ConstantsOK DEF Control, TypeOK, ConstantsOK
<1>1. peer[c] \notin {"none", "gone"} /\ ~Waiting(c)
      /\ \A g \in Fds : owner[g] = c => g = f
  BY <1>0, <1>t DEF OnePlace
<1>2. ASSUME owner'[f] = c, \/ UNCHANGED <<peer[c], err[c], inq[c]>>
                           \/ peer'[c] # "est"
                           \/ inq'[c] # <<>> 
      PROVE  IsConn(f)' /\ Readable(owner[f])'
  BY <1>0, <1>2 DEF IsConn, Readable
<1>3. CASE UNCHANGED <<owner, peer, err, inq>>
  BY <1>2, <1>3
<1>4. CASE Setup
  BY <1>0, <1>t, <1>2, <1>4 DEF Setup, tcpVars
<1>5. ASSUME backlog # <<>>
      PROVE  Head(backlog) # c
  BY <1>1, <1>5, <1>t DEF Waiting, Control, TypeOK
<1>6. CASE Accept
  <2>1. backlog # <<>>
    BY <1>6 DEF Accept
  <2>2. PICK g \in Fds : LowestFree(g) /\
       \/ owner' = [owner EXCEPT ![g] = Head(backlog)] /\ UNCHANGED tcpVars
       \/ CloseConnection(Head(backlog)) /\ UNCHANGED owner
    BY <1>6, Zenon DEF Accept
  <2>3. g # f
    BY <1>0, <1>t, <2>2 DEF LowestFree
  <2> QED
    BY <1>0, <1>t, <1>2, <1>5, <2>1, <2>2, <2>3 DEF CloseConnection, tcpVars
<1>7. CASE AcceptFails
  BY <1>0, <1>t, <1>2, <1>5, <1>7 DEF AcceptFails, CloseConnection, tcpVars
<1>8. CASE ReadData
  <2>1. fd # f
    BY <1>8 DEF ReadData
  <2> QED
    BY <1>0, <1>t, <1>1, <1>2, <1>8, <2>1 DEF ReadData, IsConn
<1>9. CASE ReadEnds
  <2>1. fd \in Fds /\ f # fd
    BY <1>9, <1>t, Sizes DEF ReadEnds, ServedIsReady, NextFd
  <2>2. owner' = [owner EXCEPT ![fd] = Free] /\ (CloseConnection(owner[fd]) \/ UNCHANGED tcpVars)
    BY <1>9 DEF ReadEnds, Closes, CloseFd
  <2>3. owner[fd] # c
    BY <1>1, <2>1
  <2> QED
    BY <1>0, <1>t, <1>2, <2>1, <2>2, <2>3 DEF CloseConnection, tcpVars
<1>10. CASE WriteEnds
  <2>1. CASE pc = "write"
    <3>1. owner[fd] # c
      BY <1>1, <1>10, <1>t, <2>1, Sizes DEF WriteEnds, ServedIsReady, NextFd
    <3> QED
      BY <1>0, <1>t, <1>2, <1>10, <3>1 DEF WriteEnds
  <2>2. CASE pc # "write"
    <3>1. UNCHANGED <<owner, err, inq>> /\ (peer[c] # "est" => peer'[c] # "est")
      BY <1>0, <1>t, <1>10, <2>2 DEF WriteEnds
    <3>2. peer'[c] # "est" \/ peer'[c] = peer[c]
      BY <1>0, <1>t, <1>10 DEF WriteEnds
    <3> QED
      BY <1>2, <3>1, <3>2
  <2> QED
    BY <2>1, <2>2
<1>11. CASE EndHdlr
  BY <1>0, <1>1, <1>t, <1>2, <1>11 DEF EndHdlr, Waiting
<1>12. ASSUME NEW d \in Clients, Client(d) PROVE IsConn(f)' /\ Readable(owner[f])'
  <2>1. CASE Connect(d)
    BY <1>0, <1>1, <1>t, <1>2, <2>1 DEF Connect
  <2>2. CASE Send(d)
    <3>1. UNCHANGED <<owner, peer, err>> /\ inq' = [inq EXCEPT ![d] = Append(@, Byte(d, sent[d] + 1))]
      BY <2>2 DEF Send, tcpVars
    <3>2. Append(inq[d], Byte(d, sent[d] + 1)) # <<>>
      <4>1. inq[d] \in Seq(Bytes)
        BY <1>t
      <4>2. \A S : \A s \in Seq(S) : \A e : Append(s, e) # <<>>
        OBVIOUS
      <4> QED
        BY <4>1, <4>2
    <3> QED
      BY <1>0, <1>t, <1>2, <3>1, <3>2
  <2>3. CASE Finish(d)
    BY <1>0, <1>1, <1>t, <1>2, <2>3 DEF Finish
  <2>4. CASE Reset(d)
    BY <1>0, <1>1, <1>t, <1>2, <2>4 DEF Reset
  <2>5. CASE Receive(d)
    BY <1>3, <2>5 DEF Receive
  <2> QED
    BY <1>12, <2>1, <2>2, <2>3, <2>4, <2>5 DEF Client
<1> QED
  BY <1>3, <1>4, <1>6, <1>7, <1>8, <1>9, <1>10, <1>11, <1>12 DEF Next, Server, vars, tcpVars,
     BuildFlags, SelectReady, SelectFails, Dispatch, Write, Sigpipe, Terminate, Ends, Alive

ListenerReady == owner[SERVER] # Listener \/ backlog # <<>>

(* Only an accept takes a connection from the backlog of the listener.     *)
LEMMA ListenerStaysReady ==
  ASSUME Control, [Next]_vars, ListenerReady, pc \notin {"setup", "accept"}
  PROVE  ListenerReady'
<1>t. /\ SERVER \in Fds /\ Listener # Free
      /\ owner \in [Fds -> Clients \cup {Listener, Free}] /\ backlog \in Seq(Clients)
  BY Sizes, ConstantsOK DEF Control, TypeOK, ConstantsOK
<1> USE DEF ListenerReady
<1>1. CASE UNCHANGED <<owner, backlog>>
  BY <1>1
<1>2. CASE ReadEnds
  BY <1>2, <1>t DEF ReadEnds, Closes, CloseFd
<1>3. CASE Sigpipe \/ Terminate
  BY <1>3, <1>t DEF Sigpipe, Terminate, Ends
<1>4. CASE EndHdlr
  BY <1>4, <1>t DEF EndHdlr
<1>5. ASSUME NEW c \in Clients, Connect(c) PROVE ListenerReady'
  <2>1. backlog' # <<>>
    BY <1>5, <1>t DEF Connect
  <2> QED
    BY <2>1
<1> QED
  BY <1>1, <1>2, <1>3, <1>4, <1>5 DEF Next, Server, Client, vars, Setup, BuildFlags,
     SelectReady, SelectFails, Dispatch, Accept, AcceptFails, ReadData, Write, WriteEnds,
     Send, Receive, Finish, Reset

(* Within a round flags only shrinks and what it holds stays ready; an     *)
(* accept or a read is entered with a descriptor taken from it.            *)
LEMMA RoundStep == Control /\ [Next]_vars => FlagsAreReady' /\ ServedIsReady'
<1> SUFFICES ASSUME Control, [Next]_vars PROVE FlagsAreReady' /\ ServedIsReady'
  OBVIOUS
<1>t. /\ FlagsAreReady /\ ServedIsReady /\ OnePlace
      /\ fd_server \in {-1, SERVER} /\ flags \subseteq Slots
      /\ owner \in [Fds -> Clients \cup {Listener, Free}]
      /\ Alive => owner[SERVER] = IF fd_server = SERVER THEN Listener ELSE Free
      /\ \A f \in Fds \ {SERVER} : owner[f] # Listener
      /\ Listener # Free /\ Listener \notin Clients /\ Free \notin Clients
  BY Sizes, ConstantsOK DEF Control, TypeOK, SlotsAreTrue, ConstantsOK
(* A step inside the round that takes nothing up. *)
<1>1. ASSUME InRound, InRound', flags' \subseteq flags, fd' \notin flags'
      PROVE  FlagsAreReady'
  <2>1. fd \notin flags /\ pc # "setup" /\ (pc = "accept" => SERVER \notin flags)
    BY <1>1, <1>t DEF FlagsAreReady, ServedIsReady, InRound
  <2>2. Alive'
    BY <1>1 DEF InRound, Alive
  <2>3. \A f \in flags' \ {SERVER} : IsConn(f)' /\ Readable(owner[f])'
    <3> TAKE f \in flags' \ {SERVER}
    <3>1. f \in Slots \ {SERVER} /\ IsConn(f) /\ Readable(owner[f]) /\ f # fd
      BY <1>1, <1>t, <2>1 DEF FlagsAreReady
    <3> QED
      BY <2>2, <3>1, StaysReady
  <2>4. SERVER \in flags' => ListenerReady'
    BY <1>1, <1>t, <2>1, ListenerStaysReady DEF FlagsAreReady, ListenerReady
  <2> QED
    BY <1>1, <2>3, <2>4 DEF FlagsAreReady, ListenerReady
(* A step of the clients or of the handler leaves the server where it is.  *)
<1>2. ASSUME UNCHANGED <<pc, flags, fd, g_buf>>, pc = "setup" => UNCHANGED fd_server,
             owner' = owner \/ owner' = [owner EXCEPT ![SERVER] = Free],
             ListenerReady => ListenerReady'
      PROVE  FlagsAreReady' /\ ServedIsReady'
  <2>1. FlagsAreReady'
    BY <1>1, <1>2, <1>t DEF InRound, FlagsAreReady
  <2>2. CASE pc = "accept"
    BY <1>2, <1>t, <2>1, <2>2 DEF ServedIsReady, ListenerReady
  <2>3. CASE pc = "read"
    <3>1. Alive'
      BY <1>2, <2>3 DEF Alive
    <3>2. CASE fd = SERVER /\ owner[SERVER] = Free
      BY <1>2, <1>t, <2>1, <2>3, <3>2, Sizes DEF ServedIsReady
    <3>3. CASE fd \in Slots \ {SERVER} /\ IsConn(fd) /\ Readable(owner[fd])
      <4>1. IsConn(fd)' /\ Readable(owner[fd])'
        BY <1>2, <3>1, <3>3, StaysReady, fd' = fd
      <4> QED
        BY <1>2, <2>1, <2>3, <3>3, <4>1 DEF ServedIsReady
    <3> QED
      BY <1>t, <2>3, <3>2, <3>3 DEF ServedIsReady
  <2>4. CASE pc \in {"write", "writing"}
    <3>1. fd \in Slots \ {SERVER} /\ IsConn(fd) /\ g_buf # <<>>
      BY <1>t, <2>4 DEF ServedIsReady
    <3>2. owner'[fd] = owner[fd]
      BY <1>2, <1>t, <3>1 DEF IsConn
    <3> QED
      BY <1>2, <2>1, <2>4, <3>1, <3>2 DEF ServedIsReady, IsConn
  <2>5. CASE pc \notin {"accept", "read", "write", "writing"}
    BY <1>2, <1>t, <2>1, <2>5 DEF ServedIsReady
  <2> QED
    BY <2>2, <2>3, <2>4, <2>5
<1>3. ASSUME NextFd, pc \in {"accept", "read", "write", "writing"}
      PROVE  FlagsAreReady' /\ ServedIsReady'
  <2>1. pc' \in {"build", "scan"} /\ fd' = 0 /\ flags' = flags /\ 0 \notin flags
    BY <1>3, <1>t DEF NextFd, Slots, SERVER
  <2>2. FlagsAreReady'
    BY <1>1, <1>3, <2>1 DEF InRound, FlagsAreReady
  <2> QED
    BY <2>1, <2>2 DEF ServedIsReady
<1>4. CASE SelectReady
  <2>1. /\ pc' = "scan" /\ fd' = 0 /\ UNCHANGED <<owner, backlog, inq, err, peer>>
        /\ flags' \subseteq Slots /\ \A f \in flags' : Ready(f)
    BY <1>4, <1>t DEF SelectReady, Flagged, tcpVars
  <2>2. 0 \notin Slots
    BY DEF Slots, SERVER
  <2>3. \A f \in flags' \ {SERVER} : IsConn(f)' /\ Readable(owner[f])'
    BY <1>t, <2>1, Sizes DEF Ready, IsConn, Readable
  <2>4. SERVER \in flags' => ListenerReady'
    BY <1>t, <2>1 DEF Ready, IsConn, ListenerReady
  <2> QED
    BY <2>1, <2>2, <2>3, <2>4 DEF FlagsAreReady, ServedIsReady, ListenerReady
<1>5. CASE Dispatch
  <2>1. PICK f \in flags : /\ flags' = flags \ {f} /\ fd' = f
                           /\ pc' = IF f = fd_server THEN "accept" ELSE "read"
    BY <1>5 DEF Dispatch
  <2>2. pc = "scan" /\ UNCHANGED <<owner, backlog, inq, err, peer>>
    BY <1>5 DEF Dispatch, tcpVars
  <2>3. FlagsAreReady'
    BY <1>1, <2>1, <2>2 DEF InRound
  <2>4. f \in Slots /\ (f # SERVER => IsConn(f) /\ Readable(owner[f]))
        /\ (f = SERVER => ListenerReady)
    BY <1>t, <2>1, <2>2 DEF FlagsAreReady, InRound, ListenerReady
  <2>5. CASE f = fd_server
    BY <1>t, <2>1, <2>2, <2>3, <2>4, <2>5 DEF ServedIsReady, ListenerReady, Slots, SERVER
  <2>6. CASE f # fd_server /\ f = SERVER
    <3>1. owner[SERVER] = Free
      BY <1>t, <2>2, <2>6 DEF Alive
    <3> QED
      BY <2>1, <2>2, <2>3, <2>6, <3>1 DEF ServedIsReady
  <2>7. CASE f # fd_server /\ f # SERVER
    BY <2>1, <2>2, <2>3, <2>4, <2>7 DEF ServedIsReady, IsConn, Readable
  <2> QED
    BY <2>5, <2>6, <2>7
<1>6. CASE ReadData
  <2>1. /\ pc = "read" /\ pc' = "write" /\ IsConn(fd) /\ inq[owner[fd]] # <<>>
        /\ g_buf' = SubSeq(inq[owner[fd]], 1, Taken(owner[fd]))
        /\ UNCHANGED <<fd, flags, owner>>
    BY <1>6 DEF ReadData
  <2>2. fd \in Slots \ {SERVER} /\ fd \notin flags
    BY <1>t, <2>1 DEF ServedIsReady, FlagsAreReady, InRound, IsConn
  <2>3. FlagsAreReady'
    BY <1>1, <2>1, <2>2 DEF InRound
  <2>4. g_buf' # <<>>
    <3>1. inq[owner[fd]] \in Seq(Bytes)
      BY <2>1 DEF Control, TypeOK, IsConn
    <3>2. Taken(owner[fd]) \in 1 .. Len(inq[owner[fd]])
      BY <2>1, <3>1, ConstantsOK DEF Taken, ConstantsOK
    <3>3. Len(g_buf') = Taken(owner[fd])
      BY <2>1, <3>1, <3>2, CutSeq
    <3>4. Len(g_buf') > 0
      BY <3>1, <3>2, <3>3
    <3> QED
      BY <3>4
  <2> QED
    BY <2>1, <2>2, <2>3, <2>4 DEF ServedIsReady, IsConn
<1>7. CASE pc' \notin {"setup", "scan", "accept", "read", "write", "writing"}
  BY <1>7 DEF FlagsAreReady, ServedIsReady, InRound
<1>11. CASE Write
  <2>1. InWrite /\ UNCHANGED owner
    BY <1>11 DEF Write
  <2>2. CASE NextFd
    BY <1>3, <2>1, <2>2 DEF InWrite
  <2>3. CASE pc' = "writing" /\ UNCHANGED <<flags, fd>> /\ g_buf' # <<>>
    <3>1. fd \notin flags /\ fd \in Slots \ {SERVER} /\ IsConn(fd)
      BY <1>t, <2>1 DEF InWrite, FlagsAreReady, ServedIsReady, InRound
    <3>2. FlagsAreReady'
      BY <1>1, <2>1, <2>3, <3>1 DEF InRound, InWrite
    <3> QED
      BY <2>1, <2>3, <3>1, <3>2 DEF ServedIsReady, IsConn
  <2> QED
    BY <1>11, <2>2, <2>3 DEF Write
<1>8. CASE EndHdlr
  <2>2. CASE CutShort
    BY <1>3, <2>2 DEF CutShort
  <2>1. CASE UNCHANGED procVars
    <3>1. owner' = owner \/ owner' = [owner EXCEPT ![SERVER] = Free]
      BY <1>8 DEF EndHdlr
    <3>2. ListenerReady => ListenerReady'
      BY <1>8, <1>t, Sizes DEF EndHdlr, ListenerReady
    <3> QED
      BY <1>2, <1>8, <2>1, <3>1, <3>2 DEF EndHdlr, procVars
  <2> QED
    BY <1>7, <1>8, <2>1, <2>2 DEF EndHdlr, AfterSelectError
<1>9. ASSUME NEW c \in Clients, Client(c) PROVE FlagsAreReady' /\ ServedIsReady'
  <2>1. UNCHANGED <<pc, flags, fd, g_buf, fd_server, owner>>
    BY <1>9 DEF Client, Connect, Send, Receive, Finish, Reset, procVars, tableVars
  <2>2. backlog' = backlog \/ backlog' # <<>>
    BY <1>9 DEF Client, Connect, Send, Receive, Finish, Reset, Control, TypeOK
  <2> QED
    BY <1>2, <2>1, <2>2 DEF ListenerReady
<1>10. CASE UNCHANGED vars
  BY <1>2, <1>10 DEF vars, ListenerReady
<1> QED
  BY <1>3, <1>4, <1>5, <1>6, <1>7, <1>8, <1>9, <1>10, <1>11 DEF Next, Server, Setup, BuildFlags,
     SelectFails, AfterSelectError, Accept, AcceptFails, ReadEnds, WriteEnds, InWrite, Sigpipe,
     Terminate, Ends

(* Init => Control and Control /\ [Next]_vars => Control'. *)
LEMMA ControlStep == Control /\ [Next]_vars => Control'
  BY NextTypeOK, SlotsStep, OnePlaceStep, RoundStep DEF Control

LEMMA AlwaysControl == Spec => []Control
<1>1. Init => Control
  BY InitControl
<1>2. Control /\ [Next]_vars => Control'
  BY ControlStep
<1> QED
  BY <1>1, <1>2, PTL DEF Spec

(* Between two rounds the table is the truth about the kernel's            *)
(* descriptors (tcp_echo.c:36-46), for any table size and any clients.     *)
THEOREM TableIsTrue == Spec => []TableMatchesKernel
<1>1. Control => TableMatchesKernel
  BY Sizes DEF Control, SlotsAreTrue, TableMatchesKernel, Alive
<1> QED
  BY <1>1, AlwaysControl, PTL

(* The loop never enters a read or an accept that would block, although it *)
(* acts on the flags of a select several calls back.                       *)
THEOREM LoopNeverBlocks == Spec => []NeverBlocks
<1>1. Control => NeverBlocks
  BY ConstantsOK DEF Control, ServedIsReady, NeverBlocks, IsConn, ConstantsOK
<1> QED
  BY <1>1, AlwaysControl, PTL
-----------------------------------------------------------------------------
(* The bytes a client has sent are in four places, in this order: come     *)
(* back or lost, in the buffer of the server, and not read yet.            *)
InBuffer(c) == IF pc \in {"write", "writing"} /\ owner[fd] = c THEN Len(g_buf) ELSE 0

Listens(c) == peer[c] \in {"none", "est", "half"}

Passed(c) == Len(echoed[c]) + lost[c]

InOrder(c) ==
  /\ Passed(c) + InBuffer(c) + Len(inq[c]) = sent[c]
  /\ \A n \in 1 .. InBuffer(c) : g_buf[n] = Byte(c, Passed(c) + n)
  /\ \A n \in 1 .. Len(inq[c]) : inq[c][n] = Byte(c, Passed(c) + InBuffer(c) + n)

Unsent(c) == peer[c] = "none" => sent[c] = 0 /\ Passed(c) = 0

BytesInOrder == \A c \in Clients : Unsent(c) /\ (Listens(c) => InOrder(c))

IInv == Control /\ BytesInOrder

LEMMA InitBytes == Init => BytesInOrder
  BY DEF Init, BytesInOrder, Unsent, Listens, InOrder, InBuffer, Passed

(* Bytes moved from one place to the next are counted once. *)
LEMMA Sums ==
  \A e, b, l \in Nat :
    /\ e + b <= e + b + l /\ e + b + 0 = e + b /\ e + b + 0 + l = e + b + l
    /\ b <= l => e + b + (l - b) = e + l
  OBVIOUS

(* Each byte moves from one of the three places to the next, and nothing   *)
(* is put between.                                                         *)
LEMMA BytesStep ==
  ASSUME IInv, [Next]_vars, NEW c \in Clients
  PROVE  Unsent(c)' /\ (Listens(c)' => InOrder(c)')
<1>t. /\ ServedIsReady /\ Unsent(c) /\ (Listens(c) => InOrder(c))
      /\ echoed \in [Clients -> Seq(Bytes)] /\ inq \in [Clients -> Seq(Bytes)]
      /\ lost \in [Clients -> Nat]
      /\ g_buf \in Seq(Bytes) /\ sent \in [Clients -> Nat]
      /\ peer \in [Clients -> {"none", "est", "half", "fin", "answering", "rst", "gone"}]
      /\ owner \in [Fds -> Clients \cup {Listener, Free}] /\ Free # c
  BY ConstantsOK DEF IInv, BytesInOrder, Control, TypeOK, ConstantsOK
(* A step that leaves the bytes of this client where they are. *)
<1>1. ASSUME UNCHANGED <<echoed[c], lost[c], sent[c]>>, peer'[c] = "none" => peer[c] = "none",
             \/ ~Listens(c)'
             \/ /\ Listens(c)' => Listens(c)
                /\ UNCHANGED inq[c] /\ InBuffer(c)' = InBuffer(c)
                /\ InBuffer(c) = 0 \/ UNCHANGED g_buf
      PROVE  Unsent(c)' /\ (Listens(c)' => InOrder(c)')
  <2>1. Unsent(c)'
    BY <1>t, <1>1 DEF Unsent, Passed
  <2>2. CASE ~Listens(c)'
    BY <2>1, <2>2
  <2>3. CASE UNCHANGED inq[c] /\ InBuffer(c)' = InBuffer(c) /\ Listens(c)
             /\ (InBuffer(c) = 0 \/ UNCHANGED g_buf)
    <3>1. \A n \in 1 .. InBuffer(c) : g_buf'[n] = g_buf[n]
      BY <2>3
    <3> QED
      BY <1>t, <1>1, <2>1, <2>3, <3>1 DEF InOrder, Passed
  <2> QED
    BY <1>1, <2>1, <2>2, <2>3
<1>2. CASE ReadData /\ owner[fd] = c
  <2> DEFINE k == Taken(c)
             e == Passed(c)
  <2>1. /\ pc = "read" /\ pc' = "write" /\ UNCHANGED <<fd, owner, echoed, lost, sent, peer>>
        /\ g_buf' = SubSeq(inq[c], 1, k)
        /\ inq' = [inq EXCEPT ![c] = SubSeq(inq[c], k + 1, Len(inq[c]))]
    BY <1>2 DEF ReadData, clientVars
  <2>2. inq[c] \in Seq(Bytes) /\ k \in 0 .. Len(inq[c]) /\ Len(inq[c]) \in Nat /\ e \in Nat
    BY <1>t, ConstantsOK DEF Taken, ConstantsOK, Passed
  <2>3. /\ Len(g_buf') = k /\ \A n \in 1 .. k : g_buf'[n] = inq[c][n]
        /\ Len(inq'[c]) = Len(inq[c]) - k
        /\ \A n \in 1 .. Len(inq[c]) - k : inq'[c][n] = inq[c][k + n]
    <3>1. inq'[c] = SubSeq(inq[c], k + 1, Len(inq[c]))
      BY <1>t, <2>1
    <3> HIDE DEF k
    <3> QED
      BY <2>1, <2>2, <3>1, CutSeq
  <2>4. InBuffer(c) = 0 /\ InBuffer(c)' = k /\ Unsent(c)' /\ (Listens(c)' <=> Listens(c))
    BY <1>t, <1>2, <2>1, <2>3 DEF InBuffer, Unsent, Passed, Listens
  <2>5. ASSUME Listens(c) PROVE InOrder(c)'
    <3>1. /\ e + Len(inq[c]) = sent[c]
          /\ \A n \in 1 .. Len(inq[c]) : inq[c][n] = Byte(c, e + n)
      <4>1. /\ e + 0 + Len(inq[c]) = sent[c]
            /\ \A n \in 1 .. Len(inq[c]) : inq[c][n] = Byte(c, e + 0 + n)
        BY <1>t, <2>4, <2>5, Zenon DEF InOrder
      <4>2. PICK z \in Nat, l \in Nat : z = e /\ l = Len(inq[c])
        BY <2>2
      <4>3. z + 0 + l = sent[c] /\ \A n \in 1 .. l : inq[c][n] = Byte(c, z + 0 + n)
        BY <4>1, <4>2, Zenon
      <4>4. z + 0 + l = z + l /\ \A n \in 1 .. l : z + 0 + n = z + n
        BY <4>2
      <4>5. z + l = sent[c] /\ \A n \in 1 .. l : inq[c][n] = Byte(c, z + n)
        BY <4>3, <4>4, Zenon
      <4> QED
        BY <4>2, <4>5, Zenon
    <3>2. \A n \in 1 .. k : g_buf'[n] = Byte(c, e + n)
      <4> HIDE DEF e, k
      <4> TAKE n \in 1 .. k
      <4>1. n \in 1 .. Len(inq[c])
        BY <2>2
      <4> QED
        BY <2>3, <3>1, <4>1, Zenon
    <3>3. \A n \in 1 .. Len(inq[c]) - k : inq'[c][n] = Byte(c, e + k + n)
      <4> HIDE DEF e, k
      <4> TAKE n \in 1 .. Len(inq[c]) - k
      <4>1. k + n \in 1 .. Len(inq[c]) /\ e + (k + n) = e + k + n
        BY <2>2
      <4> QED
        BY <2>3, <3>1, <4>1, Zenon
    <3>4. e + k + Len(inq'[c]) = sent[c]
      <4>1. e \in Nat /\ k \in Nat /\ Len(inq[c]) \in Nat /\ k <= Len(inq[c])
        BY <2>2
      <4>2. Len(inq'[c]) = Len(inq[c]) - k
        BY <2>3
      <4>3. e + Len(inq[c]) = sent[c]
        BY <3>1
      <4> HIDE DEF e, k
      <4>4. e + k + (Len(inq[c]) - k) = e + Len(inq[c])
        BY <4>1, Sums, ZenonT(30)
      <4> QED
        BY <4>2, <4>3, <4>4, ZenonT(30)
    <3>5. UNCHANGED sent /\ Passed(c)' = e /\ InBuffer(c)' = k
      BY <2>1, <2>4 DEF Passed
    <3> HIDE DEF e, k
    <3> QED
      BY <2>3, <3>2, <3>3, <3>4, <3>5 DEF InOrder
  <2> QED
    BY <2>4, <2>5
(* A part of the buffer is handed over, or lost: the rest moves up. *)
<1>3. ASSUME NEW n \in 1 .. Len(g_buf), InOrder(c), InBuffer(c) = Len(g_buf),
             UNCHANGED <<sent, inq, peer>>, peer[c] # "none",
             Passed(c)' = Passed(c) + n,
             g_buf' = SubSeq(g_buf, n + 1, Len(g_buf)), InBuffer(c)' = Len(g_buf) - n
      PROVE  Unsent(c)' /\ (Listens(c)' => InOrder(c)')
  <2>1. PICK p \in Nat, b \in Nat, l \in Nat :
          p = Passed(c) /\ b = Len(g_buf) /\ l = Len(inq[c])
    <3>1. Len(g_buf) \in Nat /\ Len(inq[c]) \in Nat /\ Len(echoed[c]) \in Nat /\ lost[c] \in Nat
      BY <1>t
    <3>2. Passed(c) \in Nat
      BY <3>1 DEF Passed
    <3> QED
      BY <3>1, <3>2
  <2>2. n \in 1 .. b /\ g_buf \in Seq(Bytes)
    BY <1>3, <1>t, <2>1
  <2>3. \A i \in 1 .. b - n : g_buf'[i] = g_buf[n + i]
    <3>1. n \in 0 .. Len(g_buf)
      BY <2>1, <2>2
    <3>2. \A i \in 1 .. Len(g_buf) - n : SubSeq(g_buf, n + 1, Len(g_buf))[i] = g_buf[n + i]
      BY <2>2, <3>1, CutSeq, Zenon
    <3> QED
      BY <1>3, <2>1, <3>2, Zenon
  <2>4. /\ p + b + l = sent[c]
        /\ \A i \in 1 .. b : g_buf[i] = Byte(c, p + i)
        /\ \A i \in 1 .. l : inq[c][i] = Byte(c, p + b + i)
    BY <1>3, <2>1, Zenon DEF InOrder
  <2>5. (p + n) + (b - n) + l = sent'[c] /\ sent'[c] = sent[c] /\ inq'[c] = inq[c]
    BY <1>3, <2>1, <2>2, <2>4
  <2>6. \A i \in 1 .. b - n : g_buf'[i] = Byte(c, (p + n) + i)
    <3> TAKE i \in 1 .. b - n
    <3>1. n + i \in 1 .. b /\ p + (n + i) = (p + n) + i
      BY <2>1, <2>2
    <3> QED
      BY <2>3, <2>4, <3>1, Zenon
  <2>7. \A i \in 1 .. l : inq[c][i] = Byte(c, (p + n) + (b - n) + i)
    <3>1. \A i \in 1 .. l : (p + n) + (b - n) + i = p + b + i
      BY <2>1, <2>2
    <3> QED
      BY <2>4, <3>1, Zenon
  <2>8. Passed(c)' = p + n /\ InBuffer(c)' = b - n /\ Len(inq'[c]) = l
    BY <1>3, <2>1, <2>5, Zenon
  <2>9. InOrder(c)'
    BY <2>5, <2>6, <2>7, <2>8, Zenon DEF InOrder
  <2>10. Unsent(c)'
    BY <1>3 DEF Unsent
  <2> QED
    BY <2>9, <2>10
<1>20. CASE Write /\ owner[fd] = c
  <2>1. PICK n \in Portions(c) :
          /\ echoed' = [echoed EXCEPT ![c] = Delivered(c, n)]
          /\ g_buf' = Rest(n)
    BY <1>20, Zenon DEF Write
  <2>2. n \in 1 .. Len(g_buf) /\ Len(g_buf) \in Nat
    <3>1. TypeOK
      BY DEF IInv, Control
    <3> QED
      BY <3>1, PortionFits, Zenon
  <2>3. /\ InWrite /\ Stays(c) /\ UNCHANGED <<owner, sent, inq, peer, lost>>
        /\ g_buf' = <<>> => pc' \in {"build", "scan"}
        /\ g_buf' # <<>> => pc' = "writing" /\ fd' = fd
    BY <1>20 DEF Write, NextFd
  <2>4. Len(g_buf') = Len(g_buf) - n
    <3>1. g_buf \in Seq(Bytes) /\ n \in 0 .. Len(g_buf)
      BY <1>t, <2>2
    <3> QED
      BY <2>1, <3>1, CutBytes, Zenon DEF Rest
  <2>5. Passed(c)' = Passed(c) + n
    <3>1. Len(SubSeq(g_buf, 1, n)) = n /\ SubSeq(g_buf, 1, n) \in Seq(Bytes)
      <4>1. g_buf \in Seq(Bytes) /\ n \in 0 .. Len(g_buf)
        BY <1>t, <2>2
      <4> QED
        BY <4>1, CutBytes, Zenon
    <3>2. echoed'[c] = echoed[c] \o SubSeq(g_buf, 1, n) /\ echoed[c] \in Seq(Bytes)
      BY <1>t, <2>1 DEF Delivered
    <3>3. Len(echoed'[c]) = Len(echoed[c]) + n /\ Len(echoed[c]) \in Nat
      BY <3>1, <3>2, ConcatProperties, LenProperties
    <3>4. lost'[c] = lost[c] /\ lost[c] \in Nat
      BY <1>t, <2>3
    <3> QED
      BY <2>2, <3>3, <3>4 DEF Passed
  <2>6. InBuffer(c) = Len(g_buf) /\ InBuffer(c)' = Len(g_buf) - n
    <3>1. InBuffer(c) = Len(g_buf)
      BY <1>20, <2>3 DEF InBuffer, InWrite
    <3>2. CASE g_buf' = <<>>
      <4>1. Len(g_buf') = 0
        BY <3>2
      <4> QED
        BY <2>3, <2>4, <3>1, <3>2, <4>1 DEF InBuffer
    <3>3. CASE g_buf' # <<>>
      BY <1>20, <2>3, <2>4, <3>1, <3>3 DEF InBuffer
    <3> QED
      BY <3>2, <3>3
  <2>7. Listens(c) /\ peer[c] # "none"
    BY <2>3 DEF Stays, Listens
  <2> QED
    BY <1>3, <1>t, <2>1, <2>2, <2>3, <2>5, <2>6, <2>7 DEF Rest
<1>21. CASE WriteEnds /\ owner[fd] = c
  <2>1. UNCHANGED <<sent, echoed, lost>> /\ ~Stays(c) /\ InWrite
        /\ peer' = [peer EXCEPT ![c] = IF @ = "fin" THEN "answering" ELSE @]
    BY <1>21 DEF WriteEnds, clientVars
  <2>2. peer[c] # "none"
    BY <1>21, <1>t, <2>1, Sizes DEF ServedIsReady, InWrite, IInv, Control, OnePlace
  <2>3. ~Listens(c)' /\ peer'[c] # "none"
    BY <1>t, <2>1, <2>2 DEF Listens, Stays
  <2> QED
    BY <1>1, <2>1, <2>3
<1>4. CASE Send(c)
  <2> DEFINE e == Passed(c)
             l == Len(inq[c])
  <2>1. /\ UNCHANGED <<pc, fd, owner, g_buf, echoed, lost, peer>> /\ Listens(c)
        /\ sent' = [sent EXCEPT ![c] = @ + 1]
        /\ inq' = [inq EXCEPT ![c] = Append(inq[c], Byte(c, sent[c] + 1))]
    BY <1>4 DEF Send, procVars, Listens
  <2>2. /\ l \in Nat /\ e \in Nat /\ sent[c] \in Nat /\ sent'[c] = sent[c] + 1
        /\ Len(inq'[c]) = l + 1 /\ inq'[c][l + 1] = Byte(c, sent[c] + 1)
        /\ \A n \in 1 .. l : inq'[c][n] = inq[c][n]
    <3>1. inq[c] \in Seq(Bytes) /\ Len(echoed[c]) \in Nat /\ lost[c] \in Nat /\ sent[c] \in Nat
      BY <1>t
    <3>2. inq'[c] = Append(inq[c], Byte(c, sent[c] + 1)) /\ sent'[c] = sent[c] + 1
      BY <1>t, <2>1
    <3>3. e \in Nat
      BY <3>1 DEF Passed
    <3> HIDE DEF e
    <3> QED
      BY <3>1, <3>2, <3>3
  <2>3. InBuffer(c)' = InBuffer(c) /\ InBuffer(c) \in Nat
    BY <1>t, <2>1 DEF InBuffer
  <2>4. InOrder(c)
    BY <1>t, <2>1
  <2>5. \A n \in 1 .. l + 1 : inq'[c][n] = Byte(c, e + InBuffer(c) + n)
    <3> TAKE n \in 1 .. l + 1
    <3>1. CASE n = l + 1
      <4>1. e + InBuffer(c) + l = sent[c]
        BY <2>4 DEF InOrder
      <4>2. e + InBuffer(c) + (l + 1) = sent[c] + 1
        BY <2>2, <2>3, <4>1, SMTT(20)
      <4> QED
        BY <2>2, <3>1, <4>2, Zenon
    <3>2. CASE n \in 1 .. l
      BY <2>2, <2>4, <3>2 DEF InOrder
    <3> QED
      BY <2>2, <3>1, <3>2
  <2>6. Unsent(c)'
    <3>1. peer'[c] # "none"
      BY <1>4, <1>t, <2>1 DEF Send
    <3> QED
      BY <3>1 DEF Unsent
  <2>7. InOrder(c)'
    <3>1. Passed(c)' = e
      BY <2>1 DEF Passed
    <3>2. e + InBuffer(c) + (l + 1) = sent[c] + 1
      <4>1. e + InBuffer(c) + l = sent[c]
        BY <2>4 DEF InOrder
      <4>2. e \in Nat /\ l \in Nat /\ InBuffer(c) \in Nat
        BY <2>2, <2>3
      <4> HIDE DEF e, l
      <4>3. e + InBuffer(c) + (l + 1) = e + InBuffer(c) + l + 1
        BY <4>2
      <4> QED
        BY <4>1, <4>3
    <3>4. \A n \in 1 .. InBuffer(c) : g_buf'[n] = Byte(c, e + n)
      BY <2>1, <2>4 DEF InOrder
    <3> HIDE DEF e, l
    <3> QED
      BY <2>2, <2>3, <2>5, <3>1, <3>2, <3>4 DEF InOrder
  <2> QED
    BY <2>6, <2>7
(* Every other step closes the connection or leaves its bytes alone. *)
<1>5. CASE UNCHANGED <<pc, fd, g_buf, owner, inq, sent, echoed, lost>> /\ (Listens(c)' => Listens(c))
           /\ (peer'[c] = "none" => peer[c] = "none")
  BY <1>1, <1>5 DEF InBuffer
<1>6. CASE /\ UNCHANGED <<sent, echoed, lost>> /\ InBuffer(c) = 0 /\ InBuffer(c)' = 0
           /\ ~Listens(c)' \/ (UNCHANGED inq[c] /\ (Listens(c)' => Listens(c)))
           /\ (peer'[c] = "none" => peer[c] = "none")
  BY <1>1, <1>6
<1>7. CASE Setup \/ BuildFlags \/ SelectReady \/ SelectFails \/ Dispatch
  BY <1>6, <1>7 DEF Setup, BuildFlags, SelectReady, SelectFails, Dispatch, AfterSelectError,
     InBuffer, Listens, tcpVars, clientVars
<1>8. ASSUME NEW d \in Clients, CloseConnection(d) \/ UNCHANGED tcpVars
      PROVE  /\ ~Listens(c)' \/ (UNCHANGED inq[c] /\ (Listens(c)' => Listens(c)))
             /\ peer'[c] = "none" => peer[c] = "none"
  BY <1>t, <1>8 DEF CloseConnection, Listens, tcpVars
<1>9. CASE Accept
  <2>1. backlog # <<>> /\ backlog \in Seq(Clients)
    BY <1>9 DEF Accept, IInv, Control, TypeOK
  <2>2. Head(backlog) \in Clients
    BY <2>1
  <2>3. CloseConnection(Head(backlog)) \/ UNCHANGED tcpVars
    BY <1>9 DEF Accept
  <2> QED
    BY <1>6, <1>8, <1>9, <2>2, <2>3 DEF Accept, NextFd, InBuffer, clientVars
<1>10. CASE AcceptFails
  <2>1. backlog \in Seq(Clients)
    BY DEF IInv, Control, TypeOK
  <2>2. backlog # <<>> => Head(backlog) \in Clients
    BY <2>1
  <2>3. UNCHANGED tcpVars \/ (backlog # <<>> /\ CloseConnection(Head(backlog)))
    BY <1>10 DEF AcceptFails
  <2> QED
    BY <1>6, <1>8, <1>10, <2>2, <2>3 DEF AcceptFails, NextFd, InBuffer, clientVars
<1>11. CASE ReadEnds
  <2>1. IF IsConn(fd) THEN CloseConnection(owner[fd]) ELSE UNCHANGED tcpVars
    BY <1>11 DEF ReadEnds, Closes, CloseFd
  <2> QED
    BY <1>6, <1>8, <1>11, <2>1 DEF ReadEnds, IsConn, NextFd, InBuffer, clientVars
<1>12. CASE ReadData /\ owner[fd] # c
  <2>1. owner[fd] \in Clients /\ UNCHANGED inq[c] /\ UNCHANGED <<sent, echoed, lost, peer, owner, fd>>
    BY <1>12, <1>t DEF ReadData, IsConn, clientVars
  <2> QED
    BY <1>6, <1>12, <2>1 DEF ReadData, InBuffer, Listens
<1>13. CASE (Write \/ WriteEnds) /\ owner[fd] # c
  <2>1. UNCHANGED <<sent[c], echoed[c], lost[c], inq[c], peer[c]>>
    BY <1>13, <1>t DEF Write, WriteEnds, clientVars
  <2>2. InBuffer(c) = 0 /\ InBuffer(c)' = 0
    BY <1>13 DEF Write, WriteEnds, NextFd, InBuffer
  <2> QED
    BY <1>1, <2>1, <2>2 DEF Listens
<1>14. CASE Sigpipe \/ Terminate
  <2>1. peer' = [d \in Clients |-> IF peer[d] = "none" THEN "none" ELSE "gone"]
        /\ inq' = [d \in Clients |-> <<>>] /\ UNCHANGED <<sent, echoed, lost>>
    BY <1>14 DEF Sigpipe, Terminate, Ends, clientVars
  <2>2. CASE peer[c] # "none"
    BY <1>1, <2>1, <2>2 DEF Listens
  <2>3. CASE peer[c] = "none"
    <3>1. sent'[c] = 0 /\ inq'[c] = <<>> /\ Passed(c)' = 0
      BY <1>t, <2>1, <2>3 DEF Unsent, Passed
    <3>2. InBuffer(c)' = 0
      BY <1>14 DEF Sigpipe, Terminate, Ends, InBuffer
    <3> QED
      BY <3>1, <3>2 DEF Unsent, InOrder
  <2> QED
    BY <2>2, <2>3
<1>15. CASE EndHdlr /\ ~CutShort
  <2>1. /\ UNCHANGED <<fd, g_buf, inq, sent, echoed, lost>>
        /\ pc' = pc \/ (pc = "select" /\ pc' = "closing")
        /\ owner' = owner \/ owner' = [owner EXCEPT ![SERVER] = Free]
    BY <1>15 DEF EndHdlr, AfterSelectError, procVars
  <2>2. (Listens(c)' => Listens(c)) /\ (peer'[c] = "none" => peer[c] = "none")
    BY <1>15, <1>t DEF EndHdlr, Listens
  <2>3. InBuffer(c)' = InBuffer(c)
    BY <2>1, <1>t, Sizes DEF InBuffer, ServedIsReady
  <2> QED
    BY <1>1, <2>1, <2>2, <2>3
<1>22. CASE EndHdlr /\ CutShort
  <2>1. /\ pc = "writing" /\ pc' \in {"build", "scan"} /\ Stays(owner[fd]) /\ g_buf' = <<>>
        /\ lost' = [lost EXCEPT ![owner[fd]] = @ + Len(g_buf)]
        /\ UNCHANGED <<inq, sent, echoed>> /\ InBuffer(c)' = 0
    BY <1>22 DEF EndHdlr, CutShort, NextFd, InBuffer
  <2>2. fd \in Fds /\ IsConn(fd) /\ g_buf # <<>> /\ OnePlace
    BY <1>t, <2>1 DEF ServedIsReady, IsConn, IInv, Control
  <2>3. (Listens(c)' => Listens(c)) /\ (peer'[c] = "none" => peer[c] = "none")
    BY <1>22, <1>t DEF EndHdlr, Listens
  <2>4. CASE owner[fd] # c
    <3>1. lost'[c] = lost[c] /\ InBuffer(c) = 0
      BY <1>t, <2>1, <2>4 DEF InBuffer
    <3> QED
      BY <1>1, <2>1, <2>3, <3>1
  <2>5. CASE owner[fd] = c
    <3>1. ~Waiting(c)
      BY <2>2, <2>5 DEF OnePlace
    <3>2. peer' = [d \in Clients |-> IF fd_server > 0 /\ Waiting(d) THEN "gone" ELSE peer[d]]
      BY <1>22, Zenon DEF EndHdlr, Waiting
    <3>3. peer'[c] = peer[c] /\ peer[c] # "none" /\ Listens(c)
      BY <1>t, <2>1, <2>5, <3>1, <3>2 DEF Stays, Listens
    <3>4. /\ Len(g_buf) \in Nat \ {0} /\ InBuffer(c) = Len(g_buf) /\ InOrder(c)
          /\ Len(inq[c]) \in Nat /\ Len(echoed[c]) \in Nat /\ lost[c] \in Nat
      BY <1>t, <2>1, <2>2, <2>5, <3>3 DEF InBuffer
    <3>5. Passed(c)' = Passed(c) + Len(g_buf) /\ Passed(c) \in Nat
      BY <1>t, <2>1, <2>5, <3>4 DEF Passed
    <3>6. UNCHANGED <<sent[c], inq[c], peer[c]>>
      BY <2>1, <3>3
    <3>7. PICK p \in Nat, b \in Nat, l \in Nat :
            p = Passed(c) /\ b = Len(g_buf) /\ l = Len(inq[c])
      BY <3>4, <3>5
    <3>8. p + b + l = sent[c] /\ \A i \in 1 .. l : inq[c][i] = Byte(c, p + b + i)
      <4>1. Passed(c) = p /\ InBuffer(c) = b /\ Len(inq[c]) = l /\ InOrder(c)
        BY <3>4, <3>7, Zenon
      <4> QED
        BY <4>1, Zenon DEF InOrder
    <3>9. Passed(c)' = p + b
      BY <3>5, <3>7, Zenon
    <3>10. (p + b) + 0 + l = sent[c] /\ \A i \in 1 .. l : (p + b) + 0 + i = p + b + i
      BY <3>7, <3>8
    <3>11. \A i \in 1 .. l : inq[c][i] = Byte(c, (p + b) + 0 + i)
      BY <3>8, <3>10, Zenon
    <3>12. 1 .. 0 = {}
      OBVIOUS
    <3>13. InOrder(c)'
      BY <2>1, <3>6, <3>7, <3>9, <3>10, <3>11, <3>12, Zenon DEF InOrder
    <3>14. Unsent(c)'
      BY <3>3 DEF Unsent
    <3> QED
      BY <3>13, <3>14
  <2> QED
    BY <2>4, <2>5
<1>16. ASSUME NEW d \in Clients, Connect(d) PROVE Unsent(c)' /\ (Listens(c)' => InOrder(c)')
  <2>1. Listens(c)' => Listens(c)
    BY <1>16, <1>t DEF Connect, Listens
  <2>2. peer'[c] = "none" => peer[c] = "none"
    BY <1>16, <1>t DEF Connect
  <2> QED
    BY <1>5, <1>16, <2>1, <2>2 DEF Connect, procVars, clientVars
<1>17. ASSUME NEW d \in Clients, Finish(d) \/ Reset(d) \/ Receive(d)
       PROVE  Unsent(c)' /\ (Listens(c)' => InOrder(c)')
  <2>1. Listens(c)' => Listens(c)
    BY <1>17, <1>t DEF Finish, Reset, Receive, Stays, Listens
  <2>2. peer'[c] = "none" => peer[c] = "none"
    BY <1>17, <1>t DEF Finish, Reset, Receive
  <2> QED
    BY <1>5, <1>17, <2>1, <2>2 DEF Finish, Reset, Receive, procVars, clientVars
<1>18. ASSUME NEW d \in Clients, Send(d), d # c
       PROVE  Unsent(c)' /\ (Listens(c)' => InOrder(c)')
  <2>1. UNCHANGED <<pc, fd, g_buf, owner, echoed, lost, peer>> /\ UNCHANGED <<sent[c], inq[c]>>
    BY <1>18, <1>t DEF Send, procVars
  <2> QED
    BY <1>1, <2>1 DEF InBuffer, Listens
<1>19. CASE UNCHANGED vars
  BY <1>5, <1>19 DEF vars, Listens
<1> QED
  BY <1>2, <1>4, <1>7, <1>9, <1>10, <1>11, <1>12, <1>13, <1>14, <1>15, <1>16, <1>17, <1>18,
     <1>19, <1>20, <1>21, <1>22 DEF Next, Server, Client

LEMMA AlwaysIInv == Spec => []IInv
<1>1. Init => IInv
  BY InitControl, InitBytes DEF IInv
<1>2. IInv /\ [Next]_vars => IInv'
  BY ControlStep, BytesStep DEF IInv, BytesInOrder
<1> QED
  BY <1>1, <1>2, PTL DEF Spec
-----------------------------------------------------------------------------
(* A client that is served no more is never served again. *)
LEMMA GoneForGood ==
  ASSUME IInv, [Next]_vars, NEW c \in Clients, peer[c] = "gone"
  PROVE  peer'[c] = "gone"
<1>t. /\ peer \in [Clients -> {"none", "est", "half", "fin", "answering", "rst", "gone"}]
      /\ backlog \in Seq(Clients)
  BY DEF IInv, Control, TypeOK
<1>1. CASE UNCHANGED peer
  BY <1>1
<1>2. ASSUME NEW d, CloseConnection(d) PROVE peer'[c] = "gone"
  BY <1>2, <1>t DEF CloseConnection
<1>3. CASE Accept \/ AcceptFails \/ ReadEnds
  BY <1>1, <1>2, <1>3 DEF Accept, AcceptFails, ReadEnds, Closes, CloseFd, tcpVars
<1>4. CASE WriteEnds
  BY <1>t, <1>4 DEF WriteEnds
<1>5. CASE Sigpipe \/ Terminate
  BY <1>t, <1>5 DEF Sigpipe, Terminate, Ends
<1>6. CASE EndHdlr
  BY <1>t, <1>6 DEF EndHdlr
<1>7. ASSUME NEW d \in Clients, Client(d) PROVE peer'[c] = "gone"
  BY <1>t, <1>7 DEF Client, Connect, Send, Receive, Finish, Reset, Stays
<1> QED
  BY <1>1, <1>3, <1>4, <1>5, <1>6, <1>7 DEF Next, Server, vars, tcpVars, Setup, BuildFlags,
     SelectReady, SelectFails, Dispatch, ReadData, Write

(* The bytes in the buffer are the next ones of the client being written   *)
(* to, and outstanding.                                                    *)
LEMMA BufferIsNext ==
  ASSUME IInv, InWrite, NEW c \in Clients, owner[fd] = c, Stays(c)
  PROVE  /\ g_buf \in Seq(Bytes) /\ Len(g_buf) \in Nat \ {0}
         /\ Service!Passed(c) \in Nat /\ sent[c] \in Nat
         /\ Len(g_buf) <= sent[c] - Service!Passed(c)
         /\ \A n \in 1 .. Len(g_buf) : g_buf[n] = Service!Byte(c, Service!Passed(c) + n)
<1>1. /\ g_buf \in Seq(Bytes) /\ g_buf # <<>> /\ InOrder(c) /\ InBuffer(c) = Len(g_buf)
      /\ echoed[c] \in Seq(Bytes) /\ lost[c] \in Nat /\ sent[c] \in Nat /\ inq[c] \in Seq(Bytes)
  BY DEF IInv, Control, TypeOK, ServedIsReady, InWrite, BytesInOrder, Listens, Stays, InBuffer
<1>2. Service!Passed(c) = Passed(c)
  BY DEF Service!Passed, Passed
<1>3. /\ Len(g_buf) \in Nat \ {0} /\ Len(inq[c]) \in Nat /\ Len(echoed[c]) \in Nat
      /\ Passed(c) \in Nat
  BY <1>1 DEF Passed
<1>4. PICK p \in Nat, b \in Nat, l \in Nat, z \in Nat :
        p = Passed(c) /\ b = Len(g_buf) /\ l = Len(inq[c]) /\ z = sent[c]
  BY <1>1, <1>3
<1>5. p + b + l = z /\ \A n \in 1 .. b : g_buf[n] = Byte(c, p + n)
  <2>1. Passed(c) = p /\ InBuffer(c) = b /\ Len(inq[c]) = l /\ sent[c] = z /\ InOrder(c)
    BY <1>1, <1>4, Zenon
  <2> QED
    BY <2>1, Zenon DEF InOrder
<1>6. b <= z - p
  BY <1>4, <1>5
<1> QED
  BY <1>1, <1>2, <1>3, <1>4, <1>5, <1>6, Zenon DEF Byte, Service!Byte

(* What one write hands over is the next bytes of its client. *)
LEMMA WriteEchoes ==
  ASSUME IInv, Write
  PROVE  \E c \in Clients : Service!Echo(c)
<1>1. PICK c \in Clients : c = owner[fd]
  BY DEF Write, InWrite, IsConn
<1>2. InWrite /\ Stays(c) /\ UNCHANGED <<sent, lost, signals, peer>>
  BY <1>1 DEF Write
<1>3. PICK n \in Portions(c) : echoed' = [echoed EXCEPT ![c] = Delivered(c, n)]
  BY <1>1, Zenon DEF Write
<1>4. n \in 1 .. Len(g_buf)
  <2>1. TypeOK
    BY DEF IInv, Control
  <2> QED
    BY <2>1, PortionFits, Zenon
<1>5. /\ g_buf \in Seq(Bytes) /\ Len(g_buf) \in Nat
      /\ Service!Passed(c) \in Nat /\ sent[c] \in Nat
      /\ Len(g_buf) <= sent[c] - Service!Passed(c)
      /\ \A i \in 1 .. Len(g_buf) : g_buf[i] = Service!Byte(c, Service!Passed(c) + i)
  BY <1>1, <1>2, BufferIsNext
<1>6. n \in 1 .. sent[c] - Service!Passed(c)
  <2> HIDE DEF Service!Passed
  <2> QED
    BY <1>4, <1>5
<1> DEFINE portion == [i \in 1 .. n |-> Service!Byte(c, Service!Passed(c) + i)]
<1>7. SubSeq(g_buf, 1, n) = portion
  <2>1. SubSeq(g_buf, 1, n) = [i \in 1 .. n |-> g_buf[i]]
    BY <1>4, <1>5, SubSeqProperties
  <2>2. \A i \in 1 .. n : g_buf[i] = Service!Byte(c, Service!Passed(c) + i)
    BY <1>4, <1>5
  <2> QED
    BY <2>1, <2>2, Zenon
<1>8. echoed' = [echoed EXCEPT ![c] = @ \o portion]
  BY <1>3, <1>7, Zenon DEF Delivered
<1>9. Served[c] /\ Served' = Served
  BY <1>2 DEF Served, Stays
<1> QED
  BY <1>2, <1>6, <1>8, <1>9, Zenon DEF Service!Echo

(* A signal that cuts a write short takes the next bytes of its client. *)
LEMMA CutInterrupts ==
  ASSUME IInv, EndHdlr
  PROVE  Service!Interrupt
<1>1. signals' = signals + 1
  BY DEF EndHdlr
<1>2. CASE CutShort
  <2>1. PICK c \in Clients : c = owner[fd]
    BY <1>2 DEF CutShort, InWrite, IsConn
  <2>2. InWrite /\ Stays(c) /\ lost' = [lost EXCEPT ![c] = @ + Len(g_buf)]
    BY <1>2, <2>1 DEF CutShort
  <2>3. /\ Len(g_buf) \in Nat \ {0} /\ Service!Passed(c) \in Nat /\ sent[c] \in Nat
        /\ Len(g_buf) <= sent[c] - Service!Passed(c)
    BY <2>1, <2>2, BufferIsNext
  <2>4. Len(g_buf) \in 1 .. sent[c] - Service!Passed(c)
    <3> HIDE DEF Service!Passed
    <3> QED
      BY <2>3
  <2> QED
    BY <1>1, <2>2, <2>4, Zenon DEF Service!Interrupt
<1>3. CASE UNCHANGED lost
  BY <1>1, <1>3 DEF Service!Interrupt
<1> QED
  BY <1>2, <1>3 DEF EndHdlr

(* Every step of the server, the clients and the handler is a step of the  *)
(* echo service or leaves what it promises alone.                          *)
LEMMA StepImplements ==
  ASSUME IInv, IInv', [Next]_vars
  PROVE  [Service!Next]_(Service!vars)
<1>t. /\ sent \in [Clients -> Nat]
      /\ peer \in [Clients -> {"none", "est", "half", "fin", "answering", "rst", "gone"}]
  BY DEF IInv, Control, TypeOK
<1>1. ASSUME NEW c \in Clients, Send(c) PROVE Service!Send(c)
  <2>1. UNCHANGED peer
    BY <1>1 DEF Send
  <2> QED
    BY <1>1, <2>1 DEF Send, Service!Send, Served
<1>2. CASE Write
  BY <1>2, WriteEchoes DEF Service!Next
<1>3. ASSUME UNCHANGED <<sent, echoed>>
      PROVE  \E gone \in SUBSET Clients : Service!Drop(gone)
  <2> DEFINE gone == {c \in Clients : peer'[c] = "gone"}
  <2>1. Served' = [c \in Clients |-> peer'[c] # "gone"]
    BY DEF Served
  <2>2. \A c \in Clients : (peer'[c] # "gone") = (peer[c] # "gone" /\ c \notin gone)
    BY GoneForGood, Zenon
  <2>3. Served' = [c \in Clients |-> Served[c] /\ c \notin gone]
    BY <2>1, <2>2, Zenon DEF Served
  <2>4. gone \in SUBSET Clients
    OBVIOUS
  <2> QED
    BY <1>3, <2>3, <2>4, Zenon DEF Service!Drop
<1>4. CASE EndHdlr
  <2>1. UNCHANGED <<sent, echoed>>
    BY <1>4 DEF EndHdlr
  <2> QED
    BY <1>3, <1>4, <2>1, CutInterrupts, Zenon DEF Service!Next
<1>5. CASE UNCHANGED <<sent, echoed, lost, signals>>
  BY <1>3, <1>5, Zenon DEF Service!Next
<1>6. \/ \E c \in Clients : Send(c)
      \/ Write \/ EndHdlr \/ UNCHANGED <<sent, echoed, lost, signals>>
  BY DEF Next, Server, Client, vars, clientVars, procVars, Setup, BuildFlags, SelectReady,
     SelectFails, Dispatch, Accept, AcceptFails, ReadData, ReadEnds, WriteEnds, Sigpipe, Terminate,
     Connect, Receive, Finish, Reset
<1> QED
  BY <1>1, <1>2, <1>4, <1>5, <1>6, Zenon DEF Service!Next

(* The server implements the echo service (tcp_echo.c:215-289): through    *)
(* one shared buffer, a table that reuses descriptors, partial reads and   *)
(* writes, clients that do not read and dying clients, each client gets    *)
(* back its own bytes, in order and none twice, and only a signal that     *)
(* cuts a write short (267) makes a gap.                                   *)
THEOREM Implements == Spec => ImplementsEcho
<1>1. Init => Service!Init
  <2> SUFFICES ASSUME Init PROVE Service!Init
    OBVIOUS
  <2>1. \A c \in Clients : (peer[c] # "gone") \in BOOLEAN
    OBVIOUS
  <2>2. Served \in [Clients -> BOOLEAN]
    BY <2>1, Zenon DEF Served
  <2> QED
    BY <2>2 DEF Init, Service!Init
<1>2. IInv /\ IInv' /\ [Next]_vars => [Service!Next]_(Service!vars)
  BY StepImplements
<1> QED
  BY <1>1, <1>2, AlwaysIInv, PTL DEF Spec, ImplementsEcho, Service!Spec

(* A client that ended its stream and still listens has got everything     *)
(* back that no signal took when the read loop closes its connection       *)
(* (tcp_echo.c:245-267).                                                   *)
THEOREM ClosedAfterAll == Spec => ClosesAfterAll
<1> DEFINE Closed == \A c \in Clients :
             (pc = "read" /\ owner[fd] = c /\ peer[c] = "half" /\ peer'[c] = "gone")
               => AllDone(c)
<1>1. ASSUME IInv, [Next]_vars PROVE Closed
  <2> SUFFICES ASSUME NEW c \in Clients, pc = "read", owner[fd] = c, peer[c] = "half",
                      peer'[c] = "gone"
               PROVE  AllDone(c)
    OBVIOUS
  <2>t. /\ peer \in [Clients -> {"none", "est", "half", "fin", "answering", "rst", "gone"}]
        /\ echoed[c] \in Seq(Bytes) /\ lost[c] \in Nat /\ ServedIsReady /\ OnePlace
        /\ owner \in [Fds -> Clients \cup {Listener, Free}]
        /\ Listener \notin Clients /\ Free \notin Clients
    BY <1>1, ConstantsOK DEF IInv, Control, TypeOK, ConstantsOK
  <2>0. InOrder(c)
    BY <1>1 DEF IInv, BytesInOrder, Listens
  <2>1. ReadEnds
    <3>1. UNCHANGED peer => FALSE
      OBVIOUS
    <3>2. ~Waiting(c)
      <4>1. fd \in Fds
        BY <2>t, Sizes DEF ServedIsReady
      <4> QED
        BY <2>t, <4>1 DEF OnePlace
    <3>3. ~EndHdlr
      BY <2>t, <3>2 DEF EndHdlr, Waiting
    <3>4. ~\E d \in Clients : Client(d)
      BY <2>t DEF Client, Connect, Send, Receive, Finish, Reset, Stays
    <3> QED
      BY <1>1, <3>1, <3>3, <3>4 DEF Next, Server, vars, tcpVars, Setup, BuildFlags, SelectReady,
         SelectFails, Dispatch, Accept, AcceptFails, ReadData, Write, WriteEnds, InWrite, Sigpipe,
         Terminate
  <2>2. inq[c] = <<>> /\ InBuffer(c) = 0
    BY <2>t, <2>1 DEF ReadEnds, ServedIsReady, InBuffer, IsConn
  <2>3. Len(echoed[c]) + lost[c] + 0 + 0 = sent[c]
    BY <2>0, <2>2 DEF InOrder, Passed
  <2> QED
    BY <2>t, <2>3 DEF AllDone
<1>2. IInv /\ [Next]_vars => [Closed]_vars
  BY <1>1
<1> QED
  BY <1>2, AlwaysIInv, PTL DEF Spec, ClosesAfterAll
=============================================================================
