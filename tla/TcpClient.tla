------------------------------ MODULE TcpClient ------------------------------
(***************************************************************************)
(* The terminal client tcp_echo/tcp_client.c, and at the other end of its  *)
(* connection the loop of tcp_echo/tcp_echo.c that serves it.  Both write  *)
(* with a blocking write into a kernel buffer of limited size: each stands *)
(* still until the other one reads.                                        *)
(*                                                                         *)
(* The bytes of the terminal are numbered in the order they are typed.     *)
(***************************************************************************)
EXTENDS Integers, Sequences

CONSTANTS
  CHUNK,         \* bytes the client reads at most, SOCKET_PACKET_LEN, 1023
  ECHO_CHUNK,    \* bytes the server reads at most, 2047
  FORWARD, BACK, \* bytes the kernel holds in either direction
  MaxTyped       \* bound: bytes typed

(* The buffers of a TCP connection hold some ten kilobytes at least.       *)
ASSUME TcpClientOK ==
  /\ CHUNK \in Nat \ {0} /\ ECHO_CHUNK \in Nat \ {0} /\ FORWARD \in Nat \ {0}
  /\ BACK \in Nat /\ BACK >= ECHO_CHUNK + 2 * CHUNK - 1
  /\ MaxTyped \in Nat

VARIABLES
  tcPc, fd_tcp, tcFlags,  \* the loop: see TerminalLoop
  tcBuf,      \* bytes it read from the terminal and still has to write
  typed,      \* how many bytes were typed
  taken,      \* how many of them the client has read
  ended,      \* is that all the terminal will give?
  printed,    \* the bytes the client has printed
  link,       \* kernel: how the server has left the connection
  error,      \* kernel: the pending error of the client's socket
  forward,    \* kernel: bytes on their way to the server
  back,       \* kernel: bytes on their way to the client
  echoPc,     \* where the server is
  echoBuf     \* bytes it has read and still has to write

loop     == <<tcPc, fd_tcp, tcFlags>>
user     == <<typed, ended>>
client   == <<tcBuf, taken, printed>>
kernel   == <<link, error, forward, back>>
server   == <<echoPc, echoBuf>>
tcVars   == <<loop, user, client, kernel, server>>

Tc == INSTANCE TerminalLoop WITH
        pc <- tcPc, fd <- fd_tcp, flags <- tcFlags

Lesser(a, b) == IF a < b THEN a ELSE b
From(s, n) == SubSeq(s, n + 1, Len(s))
UpTo(s, n) == SubSeq(s, 1, Lesser(n, Len(s)))

TcInit ==
  /\ Tc!LoopInit /\ tcBuf = <<>> /\ typed = 0 /\ taken = 0 /\ ended = FALSE /\ printed = <<>>
  /\ link = "none" /\ error = "none" /\ forward = <<>> /\ back = <<>>
  /\ echoPc = "gone" /\ echoBuf = <<>>

Readable == back # <<>> \/ error # "none" \/ link # "up"
TcReady  == {f \in {"stdin", "socket"} : IF f = "stdin" THEN taken < typed \/ ended ELSE Readable}
-----------------------------------------------------------------------------
(* The client. *)

TcLoop ==
  /\ Tc!Start \/ Tc!BuildFlags \/ Tc!SelectReady(TcReady) \/ Tc!SelectFails \/ Tc!Terminate
  /\ UNCHANGED <<user, client, kernel, server>>

(* connect fails when nobody listens, or the handler has closed the socket.*)
Connect ==
  /\ tcPc = "ready"
  /\ \/ /\ fd_tcp /\ tcPc' = "build"
        /\ link' = "up" /\ echoPc' = "read"
     \/ tcPc' = "exit" /\ UNCHANGED <<link, echoPc>>
  /\ UNCHANGED <<fd_tcp, tcFlags, user, client, error, forward, back, echoBuf>>

(* At the end of the terminal's input read gives 0 at once, every time,    *)
(* and the loop goes on.                                                   *)
ReadStdin ==
  /\ tcPc = "readStdin"
  /\ LET n == Lesser(CHUNK, typed - taken) IN
       /\ taken' = taken + n
       /\ tcBuf' = [k \in 1 .. n |-> taken + k]
       /\ tcPc' = IF n > 0 THEN "write" ELSE Tc!AfterStdin
  /\ UNCHANGED <<fd_tcp, tcFlags, user, printed, kernel, server>>

(* write blocks until all bytes are in the buffer; here are some of them.  *)
(* A server that is gone answers them with a reset.                        *)
WriteTcp ==
  /\ tcPc = "write" /\ fd_tcp
  /\ \/ /\ link = "up" /\ Len(forward) < FORWARD
        /\ \E n \in 1 .. Lesser(Len(tcBuf), FORWARD - Len(forward)) :
             /\ forward' = forward \o UpTo(tcBuf, n)
             /\ tcBuf' = From(tcBuf, n)
        /\ UNCHANGED link
     \/ link \in {"fin", "answering"} /\ link' = "answering" /\ tcBuf' = <<>> /\ UNCHANGED forward
  /\ tcPc' = IF tcBuf' = <<>> THEN Tc!AfterStdin ELSE "write"
  /\ UNCHANGED <<fd_tcp, tcFlags, user, taken, printed, error, back, server>>

(* It fails on a closed descriptor, and reports a reset once; a second     *)
(* write, or one after the end of the stream, raises SIGPIPE.              *)
WriteFails ==
  /\ tcPc = "write" /\ (~fd_tcp \/ (link = "rst" /\ error = "reset"))
  /\ tcBuf' = <<>> /\ error' = "none"
  /\ tcPc' = Tc!AfterStdin
  /\ UNCHANGED <<fd_tcp, tcFlags, user, taken, printed, link, forward, back, server>>

Sigpipe ==
  /\ tcPc = "write" /\ fd_tcp /\ link = "rst" /\ error # "reset"
  /\ tcPc' = "killed" /\ fd_tcp' = FALSE
  /\ UNCHANGED <<tcFlags, user, client, kernel, server>>

(* The bytes are printed; an error or the end of the stream is ignored.    *)
PrintedBefore(bytes) == bytes \o printed                           \* mutant
PrintedAfter(bytes)  == printed \o bytes

ReadTcp ==
  /\ tcPc = "readSocket" /\ tcPc' = "build"
  /\ \/ /\ fd_tcp /\ back # <<>>
        /\ printed' = PrintedAfter(UpTo(back, CHUNK))
        /\ back' = From(back, Lesser(CHUNK, Len(back)))
        /\ UNCHANGED error
     \/ ~(fd_tcp /\ back # <<>>) /\ error' = "none" /\ UNCHANGED <<printed, back>>
  /\ UNCHANGED <<fd_tcp, tcFlags, user, tcBuf, taken, link, forward, server>>

TcHandler == Tc!Handler(TcReady) /\ UNCHANGED <<user, client, kernel, server>>
-----------------------------------------------------------------------------
(* The server, as far as this client sees it.                              *)

EchoRead ==
  /\ echoPc = "read" /\ forward # <<>> /\ fd_tcp
  /\ echoBuf' = UpTo(forward, ECHO_CHUNK)
  /\ forward' = From(forward, Lesser(ECHO_CHUNK, Len(forward)))
  /\ echoPc' = "write"
  /\ UNCHANGED <<loop, user, client, link, error, back>>

EchoWrite ==
  /\ echoPc = "write" /\ Len(back) < BACK /\ fd_tcp
  /\ \E n \in 1 .. Lesser(Len(echoBuf), BACK - Len(back)) :
       /\ back' = back \o UpTo(echoBuf, n)
       /\ echoBuf' = From(echoBuf, n)
  /\ echoPc' = IF echoBuf' = <<>> THEN "read" ELSE "write"
  /\ UNCHANGED <<loop, user, client, link, error, forward>>

(* The server's process ends; with bytes it has not read this is a reset.  *)
EchoStops ==
  /\ echoPc # "gone" /\ fd_tcp
  /\ echoPc' = "gone" /\ echoBuf' = <<>> /\ forward' = <<>>
  /\ \/ forward = <<>> /\ link' = "fin" /\ UNCHANGED error
     \/ forward # <<>> /\ link' = "rst" /\ error' = "reset"
  /\ UNCHANGED <<loop, user, client, back>>

ResetArrives ==
  /\ link = "answering" /\ fd_tcp /\ link' = "rst" /\ error' = "pipe"
  /\ UNCHANGED <<loop, user, client, forward, back, server>>

(* The user. *)
Type ==
  /\ typed < MaxTyped /\ ~ended /\ typed' = typed + 1
  /\ UNCHANGED <<loop, ended, client, kernel, server>>

EndOfInput ==
  /\ ~ended /\ ended' = TRUE
  /\ UNCHANGED <<loop, typed, client, kernel, server>>

TcProcess  == TcLoop \/ Connect \/ ReadStdin \/ WriteTcp \/ WriteFails \/ Sigpipe \/ ReadTcp
EchoServer == EchoRead \/ EchoWrite
TcNext == TcProcess \/ EchoServer \/ TcHandler \/ EchoStops \/ ResetArrives \/ Type \/ EndOfInput

(* Both processes are scheduled; the user, signals and resets owe nothing. *)
TcFair == WF_tcVars(TcProcess) /\ WF_tcVars(EchoServer)
TcSpec == TcInit /\ [][TcNext]_tcVars
-----------------------------------------------------------------------------
(* Properties.                                                             *)

TcTypeOK ==
  /\ Tc!LoopTypeOK
  /\ typed \in 0 .. MaxTyped /\ taken \in 0 .. typed /\ ended \in BOOLEAN
  /\ tcBuf \in Seq(1 .. taken) /\ Len(tcBuf) <= CHUNK /\ printed \in Seq(1 .. taken)
  /\ link \in {"none", "up", "fin", "answering", "rst"} /\ error \in {"none", "reset", "pipe"}
  /\ forward \in Seq(1 .. taken) /\ Len(forward) <= FORWARD
  /\ back \in Seq(1 .. taken) /\ Len(back) <= BACK
  /\ echoPc \in {"read", "write", "gone"}
  /\ echoBuf \in Seq(1 .. taken) /\ Len(echoBuf) <= ECHO_CHUNK

(* Client and server together implement EchoService for the user: what is  *)
(* printed is what was typed, in order and once, and nothing after the     *)
(* client has ended (tcp_client.c:184-204), through two programs, four     *)
(* buffers and writes that take any number of bytes.                       *)
User == {"user"}
Typing == INSTANCE EchoService WITH
  Clients  <- User,
  MaxBytes <- [u \in User |-> MaxTyped],
  sent     <- [u \in User |-> typed],
  echoed   <- [u \in User |-> [k \in 1 .. Len(printed) |-> <<u, printed[k]>>]],
  lost     <- [u \in User |-> 0],
  served   <- [u \in User |-> ~Tc!Ended],
  signals  <- 0
EchoesTyped == Typing!Spec

(* The client writes without looking whether it could read, and so does    *)
(* the server; still they are never both stopped in a write, because the   *)
(* client never writes twice without a read when there is something to     *)
(* read (tcp_client.c:182-195), and TcpClientOK leaves room for what it    *)
(* may have written until then.                                            *)
ClientStands == tcPc = "write" /\ fd_tcp /\ link = "up" /\ Len(forward) = FORWARD
ServerStands == echoPc = "write" /\ Len(back) = BACK
NoStandstill == ~(ClientStands /\ ServerStands)

(* All that is typed is printed in the end while the connection stands,    *)
(* also when the input has ended, the terminal is always ready and the     *)
(* loop never sleeps again.                                                *)
EchoPrinted ==
  Len(printed) < typed /\ link = "up" ~>
    (Len(printed) = typed \/ ~fd_tcp \/ link # "up")

(* Signals end the client (tcp_client.c:57-64, 217-221): not every one     *)
(* does, since one that does not meet a sleeping select leaves it asleep   *)
(* in a select of nothing, but then the next one does.                     *)
SignalsEndClient == WF_tcVars(TcHandler) => <>Tc!Ended
=============================================================================
