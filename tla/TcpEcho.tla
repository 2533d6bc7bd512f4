------------------------------ MODULE TcpEcho -------------------------------
(***************************************************************************)
(* The echo server of tcp_echo/tcp_echo.c: one process that serves all     *)
(* clients from a select loop over the table g_socket, and a signal        *)
(* handler that closes the listening socket under it.  The kernel's side   *)
(* (descriptors, the backlog, the TCP state of each connection) and the    *)
(* clients are modelled from how the calls of the server depend on them.   *)
(***************************************************************************)
EXTENDS Integers, Sequences, FiniteSets

CONSTANTS
  Clients,         \* the connections clients make
  Listener, Free,  \* owners of a descriptor other than a connection
  MAX_SOCKET_NUM,  \* tcp_echo.c:18; descriptors 4 .. MAX_SOCKET_NUM-1 are clients
  BUFFER,          \* bytes one read takes at most, 2047
  ROOM,            \* bytes the kernel holds for a client that does not read
  MaxBytes,        \* bound: how many bytes each client sends
  MaxSignals       \* bound: SIGINT and SIGTERM received

ASSUME ConstantsOK ==
  /\ Clients \cap {Listener, Free} = {} /\ Listener # Free
  /\ MAX_SOCKET_NUM \in Nat /\ MAX_SOCKET_NUM > 4
  /\ BUFFER \in Nat \ {0} /\ ROOM \in Nat \ {0}
  /\ MaxBytes \in [Clients -> Nat] /\ MaxSignals \in Nat

VARIABLES
  pc,         \* where the server is
  fd_server,  \* 3, or -1 once the handler has run
  g_socket,   \* the field fd of each slot
  flags,      \* the fd_set of the present round; what the scan has not reached
  fd,         \* the flagged descriptor the for loop serves, or 0
  g_buf,      \* the bytes of the last read that are still to be written
  owner,      \* kernel: what each descriptor refers to
  backlog,    \* kernel: connections waiting to be accepted
  peer,       \* kernel: how far each client has closed its connection
  err,        \* kernel: the pending error of each connection
  inq,        \* kernel: bytes received from each client and not read
  held,       \* kernel: how many bytes written to each client it has not read
  sent,       \* how many bytes each client has sent
  echoed,     \* the bytes that came back to each client
  lost,       \* history: how many bytes a write cut short has left out
  signals     \* how many signals were received

procVars   == <<pc, flags, fd, g_buf>>
tableVars  == <<fd_server, g_socket>>
tcpVars    == <<peer, err, inq, held>>
clientVars == <<sent, echoed, lost>>
vars == <<pc, fd_server, g_socket, flags, fd, g_buf, owner, backlog,
          peer, err, inq, held, sent, echoed, lost, signals>>

SERVER == 3
Slots  == SERVER .. MAX_SOCKET_NUM - 1
Fds    == SERVER .. MAX_SOCKET_NUM        \* one descriptor beyond the table
Byte(c, n) == <<c, n>>
Bytes  == UNION {{Byte(c, n) : n \in 1 .. MaxBytes[c]} : c \in Clients}

Init ==
  /\ pc = "setup" /\ fd_server = -1
  /\ g_socket = [i \in Slots |-> -1]
  /\ flags = {} /\ fd = 0 /\ g_buf = <<>>
  /\ owner = [f \in Fds |-> Free] /\ backlog = <<>>
  /\ peer = [c \in Clients |-> "none"] /\ err = [c \in Clients |-> "none"]
  /\ inq = [c \in Clients |-> <<>>] /\ held = [c \in Clients |-> 0]
  /\ sent = [c \in Clients |-> 0] /\ echoed = [c \in Clients |-> <<>>]
  /\ lost = [c \in Clients |-> 0]
  /\ signals = 0

Alive == pc \notin {"exit", "killed"}
IsConn(f) == f \in Fds /\ owner[f] \in Clients
Readable(c) == inq[c] # <<>> \/ err[c] # "none" \/ peer[c] # "est"
Ready(f) == \/ owner[f] = Listener /\ backlog # <<>>
            \/ IsConn(f) /\ Readable(owner[f])
-----------------------------------------------------------------------------
(* The server. *)

(* socket takes descriptor 3, the lowest free one; a failing call ends it. *)
Setup ==
  /\ pc = "setup"
  /\ \/ /\ pc' = "build" /\ fd_server' = SERVER
        /\ g_socket' = [g_socket EXCEPT ![SERVER] = SERVER]
        /\ owner' = [owner EXCEPT ![SERVER] = Listener]
     \/ pc' = "exit" /\ UNCHANGED <<tableVars, owner>>
  /\ UNCHANGED <<flags, fd, g_buf, backlog, tcpVars, clientVars, signals>>

SelectedBefore == flags                                            \* mutant
Selected == {i \in Slots : g_socket[i] > 0}

BuildFlags ==
  /\ pc = "build"
  /\ flags' = Selected
  /\ pc' = "select"
  /\ UNCHANGED <<fd, g_buf, tableVars, owner, backlog, tcpVars, clientVars, signals>>

(* select fails on a closed descriptor, else sleeps until one is ready. *)
BadFlag == \E f \in flags : owner[f] = Free

AllFlagged == flags                                                \* mutant
Flagged == {f \in flags : Ready(f)}

SelectReady ==
  /\ pc = "select" /\ ~BadFlag
  /\ \E f \in flags : Ready(f)
  /\ flags' = Flagged
  /\ fd' = 0
  /\ pc' = "scan"
  /\ UNCHANGED <<g_buf, tableVars, owner, backlog, tcpVars, clientVars, signals>>

SelectAgain == "build"                                             \* mutant
AfterSelectError == "closing"

SelectFails ==
  /\ pc = "select" /\ BadFlag
  /\ pc' = AfterSelectError
  /\ UNCHANGED <<flags, fd, g_buf, tableVars, owner, backlog, tcpVars, clientVars, signals>>

(* The for loop goes to the next flagged descriptor.  Only now is          *)
(* fd_server looked at again: after a signal, descriptor 3 is taken for a  *)
(* client.                                                                 *)
Dispatch ==
  /\ pc = "scan"
  /\ \E f \in flags :
       /\ \A g \in flags : f <= g
       /\ flags' = flags \ {f} /\ fd' = f
       /\ pc' = IF f = fd_server THEN "accept" ELSE "read"
  /\ UNCHANGED <<g_buf, tableVars, owner, backlog, tcpVars, clientVars, signals>>

NextFd ==
  /\ pc' = IF flags = {} THEN "build" ELSE "scan"
  /\ fd' = 0 /\ UNCHANGED flags

(* A closed descriptor is free again, and its client is served no more. *)
CloseConnection(c) ==
  /\ peer' = [peer EXCEPT ![c] = "gone"]
  /\ err' = [err EXCEPT ![c] = "none"]
  /\ inq' = [inq EXCEPT ![c] = <<>>]
  /\ held' = [held EXCEPT ![c] = 0]

CloseFd(f) ==
  /\ owner' = [owner EXCEPT ![f] = Free]
  /\ IF IsConn(f) THEN CloseConnection(owner[f]) ELSE UNCHANGED tcpVars

(* accept gives the lowest free descriptor, which goes into the table or,  *)
(* beyond its end, is closed at once.  Nothing between the two can depend  *)
(* on the handler, which touches slot 3 only.                              *)
LowestFree(f) == owner[f] = Free /\ \A g \in Fds : g < f => owner[g] # Free

TooLargeOff(f) == f > MAX_SOCKET_NUM                               \* mutant
TooLarge(f) == f >= MAX_SOCKET_NUM

Accept ==
  /\ pc = "accept" /\ owner[SERVER] = Listener /\ backlog # <<>>
  /\ \E f \in Fds :
       /\ LowestFree(f)
       /\ \/ /\ ~TooLarge(f)
             /\ owner' = [owner EXCEPT ![f] = Head(backlog)]
             /\ g_socket' = [i \in DOMAIN g_socket \cup {f} |->
                               IF i = f THEN f ELSE g_socket[i]]
             /\ UNCHANGED tcpVars
          \/ TooLarge(f) /\ CloseConnection(Head(backlog)) /\ UNCHANGED <<g_socket, owner>>
  /\ backlog' = Tail(backlog)
  /\ NextFd
  /\ UNCHANGED <<g_buf, fd_server, clientVars, signals>>

(* accept fails if the handler has closed the listening socket meanwhile,  *)
(* or the connection is aborted.                                           *)
AcceptFails ==
  /\ pc = "accept"
  /\ \/ owner[SERVER] # Listener /\ UNCHANGED <<backlog, tcpVars>>
     \/ /\ owner[SERVER] = Listener /\ backlog # <<>>
        /\ backlog' = Tail(backlog)
        /\ CloseConnection(Head(backlog))
  /\ NextFd
  /\ UNCHANGED <<g_buf, tableVars, owner, clientVars, signals>>

(* read takes what is there, up to the buffer, before it reports an error  *)
(* or the end of the stream.  On the closed descriptor 3 it fails.         *)
Taken(c) == IF Len(inq[c]) < BUFFER THEN Len(inq[c]) ELSE BUFFER

ReadData ==
  /\ pc = "read" /\ IsConn(fd) /\ inq[owner[fd]] # <<>>
  /\ LET c == owner[fd] IN
       /\ g_buf' = SubSeq(inq[c], 1, Taken(c))
       /\ inq' = [inq EXCEPT ![c] = SubSeq(@, Taken(c) + 1, Len(@))]
  /\ pc' = "write"
  /\ UNCHANGED <<flags, fd, tableVars, owner, backlog, peer, err, held, clientVars, signals>>

ClosesNothing(f) == UNCHANGED <<owner, tcpVars>>                   \* mutant
Closes(f) == CloseFd(f)

ReadEnds ==
  /\ pc = "read"
  /\ IsConn(fd) => inq[owner[fd]] = <<>> /\ Readable(owner[fd])
  /\ g_socket' = [g_socket EXCEPT ![fd] = -1]
  /\ Closes(fd)
  /\ NextFd
  /\ UNCHANGED <<g_buf, fd_server, backlog, clientVars, signals>>

(* write is a blocking call: it hands over what the kernel has room for    *)
(* and waits, with the whole server, until the client reads.  pc is        *)
(* "writing" once a part of the bytes is handed over.                      *)
InWrite == pc \in {"write", "writing"} /\ IsConn(fd)
Stays(c) == peer[c] \in {"est", "half"}
Portions(c) == 1 .. IF Len(g_buf) < ROOM - held[c] THEN Len(g_buf) ELSE ROOM - held[c]

DeliveredAgain(c, n) == SubSeq(g_buf, 1, n) \o echoed[c]           \* mutant
Delivered(c, n) == echoed[c] \o SubSeq(g_buf, 1, n)

RestForgotten(n) == <<>>                                           \* mutant
Rest(n) == SubSeq(g_buf, n + 1, Len(g_buf))

Write ==
  /\ InWrite /\ Stays(owner[fd])
  /\ \E n \in Portions(owner[fd]) :
       /\ echoed' = [echoed EXCEPT ![owner[fd]] = Delivered(owner[fd], n)]
       /\ held' = [held EXCEPT ![owner[fd]] = @ + n]
       /\ g_buf' = Rest(n)
  /\ IF g_buf' = <<>> THEN NextFd ELSE pc' = "writing" /\ UNCHANGED <<flags, fd>>
  /\ UNCHANGED <<tableVars, owner, backlog, peer, err, inq, sent, lost, signals>>

(* To a client that is gone the bytes go for nothing.  Its reset ends the  *)
(* write: with a short count if a part was handed over, else with the      *)
(* error; a write that finds no error left to report raises SIGPIPE, which *)
(* nobody handles.                                                         *)
WriteEnds ==
  /\ InWrite
  /\ LET c == owner[fd] IN
       /\ ~Stays(c) /\ (peer[c] = "rst" => pc = "writing" \/ err[c] = "reset")
       /\ err' = IF pc = "write" THEN [err EXCEPT ![c] = "none"] ELSE err
       /\ peer' = [peer EXCEPT ![c] = IF @ = "fin" THEN "answering" ELSE @]
  /\ g_buf' = <<>>
  /\ NextFd
  /\ UNCHANGED <<tableVars, owner, backlog, inq, held, clientVars, signals>>

(* The process ends: the kernel closes everything. *)
Ends(how) ==
  /\ pc' = how
  /\ owner' = [f \in Fds |-> Free] /\ backlog' = <<>>
  /\ peer' = [c \in Clients |-> IF peer[c] = "none" THEN "none" ELSE "gone"]
  /\ err' = [c \in Clients |-> "none"] /\ inq' = [c \in Clients |-> <<>>]
  /\ held' = [c \in Clients |-> 0] /\ g_buf' = <<>>

Sigpipe ==
  /\ pc = "write" /\ peer[owner[fd]] = "rst" /\ err[owner[fd]] # "reset"
  /\ Ends("killed")
  /\ UNCHANGED <<flags, fd, tableVars, clientVars, signals>>

Terminate ==
  /\ pc = "closing"
  /\ Ends("exit")
  /\ UNCHANGED <<flags, fd, tableVars, clientVars, signals>>
-----------------------------------------------------------------------------
(* _endHdlr, on SIGINT and SIGTERM, at any point.  A sleeping select fails *)
(* with EINTR.  A write that has handed over a part and waits returns that *)
(* part's length, which nobody looks at: the rest of g_buf is lost.  Any   *)
(* other call of the loop goes on.                                         *)
CutShort ==
  /\ pc = "writing" /\ InWrite /\ Stays(owner[fd])
  /\ lost' = [lost EXCEPT ![owner[fd]] = @ + Len(g_buf)]
  /\ g_buf' = <<>>
  /\ NextFd

EndHdlr ==
  /\ Alive /\ pc # "setup" /\ signals < MaxSignals
  /\ signals' = signals + 1
  /\ fd_server' = -1
  /\ g_socket' = [g_socket EXCEPT ![SERVER] = -1]
  /\ owner' = IF fd_server > 0 THEN [owner EXCEPT ![SERVER] = Free] ELSE owner
  /\ peer' = [c \in Clients |->
                IF fd_server > 0 /\ \E i \in 1 .. Len(backlog) : backlog[i] = c
                  THEN "gone" ELSE peer[c]]
  /\ backlog' = IF fd_server > 0 THEN <<>> ELSE backlog
  /\ \/ /\ pc = "select" /\ \A f \in flags : ~Ready(f)   \* select was sleeping
        /\ pc' = AfterSelectError /\ UNCHANGED <<flags, fd, g_buf, lost>>
     \/ CutShort
     \/ pc # "writing" /\ UNCHANGED <<procVars, lost>>    \* it had not begun
  /\ UNCHANGED <<err, inq, held, sent, echoed>>
-----------------------------------------------------------------------------
(* The clients. *)

Connect(c) ==
  /\ owner[SERVER] = Listener /\ peer[c] = "none"
  /\ peer' = [peer EXCEPT ![c] = "est"]
  /\ backlog' = Append(backlog, c)
  /\ UNCHANGED <<procVars, tableVars, owner, err, inq, held, clientVars, signals>>

Send(c) ==
  /\ peer[c] = "est" /\ sent[c] < MaxBytes[c]
  /\ sent' = [sent EXCEPT ![c] = @ + 1]
  /\ inq' = [inq EXCEPT ![c] = Append(@, Byte(c, sent[c] + 1))]
  /\ UNCHANGED <<procVars, tableVars, owner, backlog, peer, err, held, echoed, lost, signals>>

(* The client takes bytes that came back.  It owes nothing here either.    *)
Receive(c) ==
  /\ Stays(c) /\ held[c] > 0
  /\ \E n \in 0 .. held[c] - 1 : held' = [held EXCEPT ![c] = n]
  /\ UNCHANGED <<procVars, tableVars, owner, backlog, peer, err, inq, clientVars, signals>>

(* The client ends its stream: it still listens, or it is gone, and then   *)
(* bytes it has not read are answered with a reset.                        *)
Finish(c) ==
  /\ \/ peer[c] = "est" /\ peer' = [peer EXCEPT ![c] = "half"] /\ UNCHANGED held
     \/ /\ Stays(c)
        /\ peer' = [peer EXCEPT ![c] = IF held[c] = 0 THEN "fin" ELSE "answering"]
        /\ held' = [held EXCEPT ![c] = 0]
  /\ UNCHANGED <<procVars, tableVars, owner, backlog, err, inq, clientVars, signals>>

(* A reset arrives: the client aborts, or answers data it cannot take.     *)
(* After the end of the stream the pending error is EPIPE.                 *)
Reset(c) ==
  /\ peer[c] \in {"est", "half", "answering"}
  /\ peer' = [peer EXCEPT ![c] = "rst"]
  /\ err' = [err EXCEPT ![c] = IF peer[c] = "est" THEN "reset" ELSE "pipe"]
  /\ held' = [held EXCEPT ![c] = 0]
  /\ UNCHANGED <<procVars, tableVars, owner, backlog, inq, clientVars, signals>>

Server == \/ Setup \/ BuildFlags \/ SelectReady \/ SelectFails
          \/ Dispatch \/ Accept \/ AcceptFails \/ ReadData \/ ReadEnds
          \/ Write \/ WriteEnds \/ Sigpipe \/ Terminate
Client(c) == Connect(c) \/ Send(c) \/ Receive(c) \/ Finish(c) \/ Reset(c)
Next == Server \/ EndHdlr \/ \E c \in Clients : Client(c)

Spec == Init /\ [][Next]_vars
(* The server process is scheduled; clients and signals owe nothing. *)
FairSpec == Spec /\ WF_vars(Server)
-----------------------------------------------------------------------------
(* Properties.                                                             *)

TypeOK ==
  /\ pc \in {"setup", "build", "select", "scan", "accept", "read", "write",
            "writing", "closing", "exit", "killed"}
  /\ fd_server \in {-1, SERVER}
  /\ g_socket \in [Slots -> Slots \cup {-1}]
  /\ flags \subseteq Slots /\ fd \in 0 .. MAX_SOCKET_NUM
  /\ g_buf \in Seq(Bytes) /\ Len(g_buf) <= BUFFER
  /\ owner \in [Fds -> Clients \cup {Listener, Free}]
  /\ backlog \in Seq(Clients)
  /\ peer \in [Clients -> {"none", "est", "half", "fin", "answering", "rst", "gone"}]
  /\ err \in [Clients -> {"none", "reset", "pipe"}]
  /\ inq \in [Clients -> Seq(Bytes)] /\ held \in [Clients -> 0 .. ROOM]
  /\ sent \in [Clients -> Nat] /\ \A c \in Clients : sent[c] <= MaxBytes[c]
  /\ echoed \in [Clients -> Seq(Bytes)] /\ lost \in [Clients -> Nat]
  /\ signals \in 0 .. MaxSignals

(* Between two rounds g_socket is the truth about the kernel's descriptors *)
(* (tcp_echo.c:36-46): a slot holds its own number exactly while that      *)
(* descriptor is open, so nothing leaks and nothing closed is selected.    *)
TableMatchesKernel ==
  pc \in {"build", "select"} =>
    /\ \A i \in Slots : g_socket[i] = IF owner[i] = Free THEN -1 ELSE i
    /\ owner[MAX_SOCKET_NUM] = Free
    /\ \A i \in Slots \ {SERVER} : owner[i] # Listener

(* The loop acts on the flags of a select that lies several calls back;    *)
(* still it never enters a read or an accept that would block the server:  *)
(* the descriptor it is about to use was not given to a new connection in  *)
(* the meantime.  (A write may block it: see EchoDelivered.)               *)
NeverBlocks ==
  /\ pc = "read" => (IsConn(fd) => Readable(owner[fd]))
  /\ pc = "accept" => owner[SERVER] # Listener \/ backlog # <<>>

(* The server implements EchoService: through one shared buffer, a table   *)
(* that reuses descriptors, partial reads and writes and dying clients,    *)
(* each client gets back its own bytes, in order and none twice, and only  *)
(* a signal makes a gap (tcp_echo.c:245-267).                              *)
Served == [c \in Clients |-> peer[c] # "gone"]
Service == INSTANCE EchoService WITH served <- Served
ImplementsEcho == Service!Spec

AllDone(c) == Len(echoed[c]) + lost[c] = sent[c]

(* A client that has ended its stream and still listens has got everything *)
(* back that no signal took by the time the read loop closes its           *)
(* connection.                                                             *)
ClosesAfterAll ==
  [][\A c \in Clients :
       (pc = "read" /\ owner[fd] = c /\ peer[c] = "half" /\ peer'[c] = "gone")
         => AllDone(c)]_vars

(* Every byte of a client that stays comes back, but for those a signal    *)
(* took, as long as the server lives and has a slot for it and every       *)
(* client that stays reads: one that does not stops the service of all in  *)
(* the write of line 267.                                                  *)
ClientsRead == \A c \in Clients : WF_vars(Receive(c))
EchoDelivered ==
  ClientsRead =>
    \A c \in {c \in Clients : MaxBytes[c] > 0} : ~AllDone(c) ~> (AllDone(c) \/ ~Stays(c))

(* No byte of a client is left behind, neither when its connection is      *)
(* closed nor for ever while it stays (tcp_echo.c:245-267).                *)
EveryByteReturns == ClosesAfterAll /\ EchoDelivered

(* A signal that finds the server in select, or on its way into it with    *)
(* the listening socket in the set, ends the server (tcp_echo.c:90-98,     *)
(* 202-206).                                                               *)
SignalEndsSelect ==
  pc = "select" /\ fd_server = -1 /\ SERVER \in flags ~> pc = "exit"
=============================================================================
