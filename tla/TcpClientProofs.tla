--------------------------- MODULE TcpClientProofs --------------------------
(***************************************************************************)
(* Proofs about TcpClient: its types, that client and server are never     *)
(* both stopped in a write, and that together they implement EchoService   *)
(* for the user, for any size of the chunks and of the kernel's buffers    *)
(* that TcpClientOK allows.                                                *)
(***************************************************************************)
EXTENDS TcpClient, SequenceTheorems, TLAPS

LEMMA TcSizes == /\ CHUNK \in Nat /\ CHUNK >= 1 /\ ECHO_CHUNK \in Nat /\ ECHO_CHUNK >= 1
               /\ FORWARD \in Nat /\ BACK \in Nat /\ MaxTyped \in Nat
               /\ BACK >= ECHO_CHUNK + 2 * CHUNK - 1
  BY TcpClientOK DEF TcpClientOK

-----------------------------------------------------------------------------
(* Lemmas about the cuts: at most n elements of s go, the others stay.     *)

LEMMA CutParts ==
  ASSUME NEW S, NEW s \in Seq(S), NEW n \in Nat
  PROVE  LET m == Lesser(n, Len(s)) IN
         /\ m \in Nat /\ m <= n /\ m <= Len(s)
         /\ UpTo(s, n) \in Seq(S) /\ Len(UpTo(s, n)) = m
         /\ From(s, m) \in Seq(S) /\ Len(From(s, m)) = Len(s) - m
         /\ \A i \in 1 .. m : UpTo(s, n)[i] = s[i]
         /\ \A i \in 1 .. Len(s) - m : From(s, m)[i] = s[m + i]
<1> DEFINE m == Lesser(n, Len(s))
<1>1. m \in Nat /\ m <= n /\ m <= Len(s)
  BY DEF Lesser
<1>2. /\ UpTo(s, n) \in Seq(S) /\ Len(UpTo(s, n)) = m
      /\ \A i \in 1 .. m : UpTo(s, n)[i] = s[i]
  BY <1>1 DEF UpTo
<1>3. /\ From(s, m) \in Seq(S) /\ Len(From(s, m)) = Len(s) - m
      /\ \A i \in 1 .. Len(s) - m : From(s, m)[i] = s[m + i]
  BY <1>1 DEF From
<1> QED
  BY <1>1, <1>2, <1>3

(* The bytes of s are those after the first a that were typed.             *)
Run(s, a) == \A i \in 1 .. Len(s) : s[i] = a + i

(* Bytes that move from the front of t to the end of s leave both runs.    *)
LEMMA Move ==
  ASSUME NEW S, NEW s \in Seq(S), NEW t \in Seq(S), NEW n \in Nat, NEW a \in Nat
  PROVE  LET m == Lesser(n, Len(t)) IN
         /\ s \o UpTo(t, n) \in Seq(S) /\ Len(s \o UpTo(t, n)) = Len(s) + m
         /\ Run(s, a) /\ Run(t, a + Len(s)) =>
              Run(s \o UpTo(t, n), a) /\ Run(From(t, m), a + Len(s) + m)
<1> DEFINE m == Lesser(n, Len(t))
           u == UpTo(t, n)
           v == From(t, m)
<1>1. /\ m \in Nat /\ m <= Len(t)
      /\ u \in Seq(S) /\ Len(u) = m /\ v \in Seq(S) /\ Len(v) = Len(t) - m
      /\ \A i \in 1 .. m : u[i] = t[i]
      /\ \A i \in 1 .. Len(t) - m : v[i] = t[m + i]
  BY CutParts
<1> HIDE DEF m, u, v
<1>2. /\ s \o u \in Seq(S) /\ Len(s \o u) = Len(s) + m
      /\ \A i \in 1 .. Len(s) + m : (s \o u)[i] = IF i <= Len(s) THEN s[i] ELSE u[i - Len(s)]
  BY <1>1, ConcatProperties
<1>3. ASSUME Run(s, a), Run(t, a + Len(s)) PROVE Run(s \o u, a) /\ Run(v, a + Len(s) + m)
  <2>1. ASSUME NEW i \in 1 .. Len(s \o u) PROVE (s \o u)[i] = a + i
    <3>1. CASE i <= Len(s)
      BY <1>2, <1>3, <3>1 DEF Run
    <3>2. CASE ~(i <= Len(s))
      <4>1. i - Len(s) \in 1 .. m /\ i - Len(s) \in 1 .. Len(t)
        BY <1>1, <1>2, <3>2
      <4>2. (s \o u)[i] = t[i - Len(s)]
        BY <1>1, <1>2, <3>2, <4>1
      <4>3. t[i - Len(s)] = (a + Len(s)) + (i - Len(s))
        BY <4>1, <1>3 DEF Run
      <4> QED
        BY <4>2, <4>3
    <3> QED
      BY <3>1, <3>2
  <2>2. ASSUME NEW i \in 1 .. Len(v) PROVE v[i] = a + Len(s) + m + i
    <3>1. m + i \in 1 .. Len(t) /\ v[i] = t[m + i]
      BY <1>1
    <3>2. t[m + i] = (a + Len(s)) + (m + i)
      BY <3>1, <1>3 DEF Run
    <3> QED
      BY <1>1, <3>1, <3>2
  <2> QED
    BY <2>1, <2>2 DEF Run
<1> QED
  BY <1>2, <1>3 DEF m, u, v
-----------------------------------------------------------------------------
(* What the types leave open. *)

(* A buffer is empty unless its owner is writing it. *)
ClientBuffer ==
  /\ tcPc = "write" => tcBuf # <<>>
  /\ tcPc \notin {"write", "killed"} => tcBuf = <<>>
ServerBuffer == echoPc = "write" <=> echoBuf # <<>>

(* Before connect there is no connection, and while it is up both ends are *)
(* there and no error is pending.                                          *)
Connection ==
  /\ tcPc \in {"start", "ready"} => link = "none"
  /\ link = "none" => /\ tcPc \in {"start", "ready", "exit"}
                      /\ printed = <<>> /\ back = <<>> /\ forward = <<>> /\ taken = 0
  /\ echoPc # "gone" <=> link = "up"
  /\ link \in {"none", "up"} => error = "none"

(* A flag of the socket, served after the terminal, is still true.         *)
Serving == tcPc \in {"readStdin", "write", "readSocket"}
Flags ==
  fd_tcp /\ link = "up" =>
    /\ tcPc = "select" => tcFlags = {"stdin", "socket"}
    /\ Serving /\ "socket" \in tcFlags => back # <<>>
    /\ tcPc = "readSocket" => "socket" \in tcFlags

(* What was read and not printed yet: more than the server's buffer and    *)
(* the way to it hold is only outstanding for as long as the client has    *)
(* not looked for it.                                                      *)
Outstanding == Len(back) + Len(echoBuf) + Len(forward) + Len(tcBuf)
Extra ==
  IF tcPc = "readStdin" THEN IF "socket" \in tcFlags THEN CHUNK ELSE 0
  ELSE IF tcPc \in {"write", "readSocket"} /\ "socket" \in tcFlags THEN 2 * CHUNK
  ELSE CHUNK
Limited == fd_tcp /\ link = "up" => Outstanding <= FORWARD + ECHO_CHUNK + Extra

(* The bytes on their way are those that were typed, in order and without  *)
(* a gap, while the connection stands; what has come back is in any case.  *)
Chain ==
  /\ Run(printed, 0) /\ Run(back, Len(printed))
  /\ fd_tcp /\ link = "up" =>
       /\ Run(echoBuf, Len(printed) + Len(back))
       /\ Run(forward, Len(printed) + Len(back) + Len(echoBuf))
       /\ Run(tcBuf, Len(printed) + Len(back) + Len(echoBuf) + Len(forward))
       /\ Len(printed) + Len(back) + Len(echoBuf) + Len(forward) + Len(tcBuf) = taken
-----------------------------------------------------------------------------
(* The types in three parts. *)

Control ==
  /\ Tc!LoopTypeOK /\ ended \in BOOLEAN
  /\ link \in {"none", "up", "fin", "answering", "rst"} /\ error \in {"none", "reset", "pipe"}
  /\ echoPc \in {"read", "write", "gone"}

Counts == typed \in 0 .. MaxTyped /\ taken \in 0 .. typed

Bytes ==
  /\ tcBuf \in Seq(1 .. taken) /\ Len(tcBuf) <= CHUNK
  /\ forward \in Seq(1 .. taken) /\ Len(forward) <= FORWARD
  /\ echoBuf \in Seq(1 .. taken) /\ Len(echoBuf) <= ECHO_CHUNK
  /\ back \in Seq(1 .. taken) /\ Len(back) <= BACK
  /\ printed \in Seq(1 .. taken)

LEMMA TypesInParts == TcTypeOK <=> Control /\ Counts /\ Bytes
  BY DEF TcTypeOK, Control, Counts, Bytes

Kept == UNCHANGED <<tcBuf, taken, printed, forward, back, echoBuf>>

(* The steps that move bytes; all others leave them alone.                 *)
WriteMoves ==
  /\ tcPc = "write" /\ fd_tcp /\ link = "up" /\ UNCHANGED link
  /\ \E n \in 1 .. Lesser(Len(tcBuf), FORWARD - Len(forward)) :
       /\ forward' = forward \o UpTo(tcBuf, n)
       /\ tcBuf' = From(tcBuf, n)
  /\ UNCHANGED <<taken, printed, back, echoBuf>>

BufferDropped ==
  /\ ~fd_tcp' \/ link' # "up"
  /\ tcBuf' = <<>>
  /\ UNCHANGED <<taken, printed, forward, back, echoBuf>>

Prints ==
  /\ tcPc = "readSocket" /\ fd_tcp /\ back # <<>>
  /\ printed' = printed \o UpTo(back, CHUNK)
  /\ back' = From(back, Lesser(CHUNK, Len(back)))
  /\ UNCHANGED <<taken, tcBuf, forward, echoBuf>>

LEMMA DataSteps ==
  [TcNext]_tcVars =>
    \/ Kept \/ ReadStdin \/ (WriteTcp /\ WriteMoves) \/ BufferDropped
    \/ (ReadTcp /\ Prints) \/ EchoRead \/ EchoWrite \/ EchoStops
<1> SUFFICES ASSUME [TcNext]_tcVars
             PROVE  \/ Kept \/ ReadStdin \/ (WriteTcp /\ WriteMoves) \/ BufferDropped
                    \/ (ReadTcp /\ Prints) \/ EchoRead \/ EchoWrite \/ EchoStops
  OBVIOUS
<1> USE DEF loop, user, client, kernel, server, Kept
<1>1. CASE TcLoop \/ Connect \/ Sigpipe \/ TcHandler \/ ResetArrives
  BY <1>1 DEF TcLoop, Connect, Sigpipe, TcHandler, ResetArrives
<1>2. CASE Type \/ EndOfInput \/ UNCHANGED tcVars
  BY <1>2 DEF Type, EndOfInput, tcVars
<1>3. CASE WriteTcp
  BY <1>3 DEF WriteTcp, WriteMoves, BufferDropped
<1>4. CASE WriteFails
  BY <1>4 DEF WriteFails, BufferDropped
<1>5. CASE ReadTcp
  BY <1>5 DEF ReadTcp, Prints, PrintedAfter
<1> QED
  BY <1>1, <1>2, <1>3, <1>4, <1>5 DEF TcNext, TcProcess, EchoServer

(* Every step keeps the control typed. *)
LEMMA NextControl == Control /\ [TcNext]_tcVars => Control'
<1> SUFFICES ASSUME Control, [TcNext]_tcVars PROVE Control'
  OBVIOUS
<1> USE DEF Control, loop, user, client, kernel, server, Tc!LoopTypeOK
<1>1. CASE TcLoop
  <2>1. UNCHANGED <<ended, link, error, echoPc>>
    BY <1>1 DEF TcLoop
  <2>2. CASE Tc!Start \/ Tc!BuildFlags
    BY <2>1, <2>2 DEF Tc!Start, Tc!BuildFlags
  <2>3. CASE Tc!SelectReady(TcReady) \/ Tc!SelectFails \/ Tc!Terminate
    BY <2>1, <2>3 DEF Tc!SelectReady, Tc!SelectFails, Tc!Terminate
  <2> QED
    BY <1>1, <2>2, <2>3 DEF TcLoop
<1>2. CASE Connect
  BY <1>2 DEF Connect
<1>3. CASE ReadStdin
  BY <1>3 DEF ReadStdin, Tc!AfterStdin
<1>4. CASE WriteTcp
  BY <1>4 DEF WriteTcp, Tc!AfterStdin
<1>5. CASE WriteFails
  BY <1>5 DEF WriteFails, Tc!AfterStdin
<1>6. CASE Sigpipe \/ ReadTcp
  BY <1>6 DEF Sigpipe, ReadTcp
<1>7. CASE TcHandler
  BY <1>7 DEF TcHandler, Tc!Handler, Tc!AfterSelectError
<1>8. CASE EchoRead \/ EchoWrite
  BY <1>8 DEF EchoRead, EchoWrite
<1>9. CASE EchoStops \/ ResetArrives
  BY <1>9 DEF EchoStops, ResetArrives
<1>10. CASE Type \/ EndOfInput
  BY <1>10 DEF Type, EndOfInput
<1>11. CASE UNCHANGED tcVars
  BY <1>11 DEF tcVars
<1> QED
  BY <1>1, <1>2, <1>3, <1>4, <1>5, <1>6, <1>7, <1>8, <1>9, <1>10, <1>11 DEF TcNext, TcProcess, EchoServer

(* What ReadStdin reads. *)
LEMMA Reads ==
  ASSUME Counts, ReadStdin
  PROVE  LET n == Lesser(CHUNK, typed - taken) IN
         /\ n \in Nat /\ n <= CHUNK /\ n <= typed - taken
         /\ taken' = taken + n /\ taken' \in 0 .. typed /\ typed' = typed
         /\ tcBuf' \in Seq(1 .. taken') /\ Len(tcBuf') = n /\ Run(tcBuf', taken)
<1> DEFINE n == Lesser(CHUNK, typed - taken)
<1>1. /\ taken' = taken + n /\ tcBuf' = [k \in 1 .. n |-> taken + k] /\ typed' = typed
  BY DEF ReadStdin, user
<1>2. typed \in Nat /\ taken \in Nat /\ taken <= typed
  BY TcSizes DEF Counts
<1>3. n \in Nat /\ n <= CHUNK /\ n <= typed - taken
  BY <1>2, TcSizes DEF Lesser
<1> HIDE DEF n
<1>4. taken' \in 0 .. typed
  BY <1>1, <1>2, <1>3
<1>5. tcBuf' \in Seq(1 .. taken') /\ Len(tcBuf') = n
  <2>1. \A k \in 1 .. n : taken + k \in 1 .. taken'
    BY <1>1, <1>2, <1>3
  <2> QED
    BY <1>1, <1>3, <2>1
<1>6. Run(tcBuf', taken)
  BY <1>1, <1>5 DEF Run
<1> QED
  BY <1>1, <1>3, <1>4, <1>5, <1>6 DEF n

LEMMA NextCounts == Counts /\ [TcNext]_tcVars => Counts'
<1> SUFFICES ASSUME Counts, [TcNext]_tcVars PROVE Counts'
  OBVIOUS
<1>t. typed \in 0 .. MaxTyped /\ taken \in 0 .. typed
  BY DEF Counts
<1>1. CASE ReadStdin
  BY <1>1, <1>t, Reads DEF Counts
<1>2. CASE Type
  <2>1. typed < MaxTyped /\ typed' = typed + 1 /\ taken' = taken
    BY <1>2 DEF Type, client
  <2> QED
    BY <2>1, <1>t, TcSizes DEF Counts
<1>3. CASE ~ReadStdin /\ ~Type
  <2>1. UNCHANGED <<typed, taken>>
    BY <1>3 DEF TcNext, TcProcess, EchoServer, tcVars, user, client, TcLoop, Connect, WriteTcp,
       WriteFails, Sigpipe, ReadTcp, TcHandler, EchoRead, EchoWrite, EchoStops, ResetArrives,
       EndOfInput
  <2> QED
    BY <2>1, <1>t DEF Counts
<1> QED
  BY <1>1, <1>2, <1>3

(* The bytes of t that move to s, n of them: lengths, types and runs.      *)
Moved(s, t, s2, t2, n) ==
  /\ s2 \in Seq(1 .. taken) /\ t2 \in Seq(1 .. taken)
  /\ n \in Nat /\ Len(s2) = Len(s) + n /\ Len(t2) = Len(t) - n
  /\ \A a \in Nat : Run(s, a) /\ Run(t, a + Len(s)) => Run(s2, a) /\ Run(t2, a + Len(s) + n)

LEMMA MoveAtMost ==
  ASSUME NEW s \in Seq(1 .. taken), NEW t \in Seq(1 .. taken), NEW n \in Nat
  PROVE  Moved(s, t, s \o UpTo(t, n), From(t, Lesser(n, Len(t))), Lesser(n, Len(t)))
<1> DEFINE m == Lesser(n, Len(t))
<1>1. /\ m \in Nat /\ UpTo(t, n) \in Seq(1 .. taken)
      /\ From(t, m) \in Seq(1 .. taken) /\ Len(From(t, m)) = Len(t) - m
  BY CutParts
<1>2. s \o UpTo(t, n) \in Seq(1 .. taken) /\ Len(s \o UpTo(t, n)) = Len(s) + m
  BY Move, 0 \in Nat
<1>3. \A a \in Nat : Run(s, a) /\ Run(t, a + Len(s)) =>
                    Run(s \o UpTo(t, n), a) /\ Run(From(t, m), a + Len(s) + m)
  BY Move
<1> HIDE DEF m
<1>4. Moved(s, t, s \o UpTo(t, n), From(t, m), m)
  BY <1>1, <1>2, <1>3 DEF Moved
<1> QED
  BY <1>4 DEF m

LEMMA MoveSome ==
  ASSUME NEW s \in Seq(1 .. taken), NEW t \in Seq(1 .. taken), NEW n \in Nat, n <= Len(t)
  PROVE  Moved(s, t, s \o UpTo(t, n), From(t, n), n)
<1>1. Lesser(n, Len(t)) = n
  BY DEF Lesser
<1> QED
  BY <1>1, MoveAtMost

LEMMA WriteEffect ==
  ASSUME Bytes, WriteMoves
  PROVE  \E n \in Nat : /\ n >= 1 /\ n <= Len(tcBuf) /\ n <= FORWARD - Len(forward)
                       /\ Moved(forward, tcBuf, forward', tcBuf', n)
<1>1. PICK n \in 1 .. Lesser(Len(tcBuf), FORWARD - Len(forward)) :
        forward' = forward \o UpTo(tcBuf, n) /\ tcBuf' = From(tcBuf, n)
  BY DEF WriteMoves
<1>2. forward \in Seq(1 .. taken) /\ tcBuf \in Seq(1 .. taken) /\ Len(forward) <= FORWARD
  BY DEF Bytes
<1>3. n \in Nat /\ n >= 1 /\ n <= Len(tcBuf) /\ n <= FORWARD - Len(forward)
  BY <1>2, TcSizes DEF Lesser
<1>4. Moved(forward, tcBuf, forward', tcBuf', n)
  BY <1>1, <1>2, <1>3, MoveSome
<1> QED
  BY <1>3, <1>4

LEMMA EchoWriteEffect ==
  ASSUME Bytes, EchoWrite
  PROVE  \E n \in Nat : /\ n >= 1 /\ n <= Len(echoBuf) /\ n <= BACK - Len(back)
                       /\ Moved(back, echoBuf, back', echoBuf', n)
<1>1. PICK n \in 1 .. Lesser(Len(echoBuf), BACK - Len(back)) :
        back' = back \o UpTo(echoBuf, n) /\ echoBuf' = From(echoBuf, n)
  BY DEF EchoWrite
<1>2. back \in Seq(1 .. taken) /\ echoBuf \in Seq(1 .. taken) /\ Len(back) <= BACK
  BY DEF Bytes
<1>3. n \in Nat /\ n >= 1 /\ n <= Len(echoBuf) /\ n <= BACK - Len(back)
  BY <1>2, TcSizes DEF Lesser
<1>4. Moved(back, echoBuf, back', echoBuf', n)
  BY <1>1, <1>2, <1>3, MoveSome
<1> QED
  BY <1>3, <1>4

LEMMA PrintEffect ==
  ASSUME Bytes, Prints
  PROVE  LET n == Lesser(CHUNK, Len(back)) IN
         n >= 1 /\ Moved(printed, back, printed', back', n)
<1>1. back \in Seq(1 .. taken) /\ printed \in Seq(1 .. taken)
  BY DEF Bytes
<1>2. Lesser(CHUNK, Len(back)) >= 1
  <2>1. back # <<>>
    BY DEF Prints
  <2>2. Len(back) \in Nat /\ Len(back) >= 1
    BY <1>1, <2>1, EmptySeq, LenProperties
  <2> QED
    BY <2>2, TcSizes DEF Lesser
<1> QED
  BY <1>1, <1>2, TcSizes, MoveAtMost DEF Prints

LEMMA EchoReadEffect ==
  ASSUME Bytes, EchoRead, echoBuf = <<>>
  PROVE  LET n == Lesser(ECHO_CHUNK, Len(forward)) IN
         n >= 1 /\ n <= ECHO_CHUNK /\ Moved(echoBuf, forward, echoBuf', forward', n)
<1>1. forward \in Seq(1 .. taken) /\ echoBuf \in Seq(1 .. taken)
  BY DEF Bytes
<1>2. Lesser(ECHO_CHUNK, Len(forward)) >= 1 /\ Lesser(ECHO_CHUNK, Len(forward)) <= ECHO_CHUNK
  <2>1. forward # <<>>
    BY DEF EchoRead
  <2>2. Len(forward) \in Nat /\ Len(forward) >= 1
    BY <1>1, <2>1, EmptySeq, LenProperties
  <2> QED
    BY <2>2, TcSizes DEF Lesser
<1>3. echoBuf \o UpTo(forward, ECHO_CHUNK) = UpTo(forward, ECHO_CHUNK)
  <2>1. UpTo(forward, ECHO_CHUNK) \in Seq(1 .. taken)
    BY <1>1, TcSizes, CutParts
  <2> QED
    BY <2>1, ConcatEmptySeq
<1>4. /\ echoBuf' = UpTo(forward, ECHO_CHUNK)
      /\ forward' = From(forward, Lesser(ECHO_CHUNK, Len(forward)))
  BY DEF EchoRead
<1> QED
  BY <1>1, <1>2, <1>3, <1>4, TcSizes, MoveAtMost

(* Every step keeps the bytes typed and the buffers within their sizes.    *)
LEMMA NextBytes == Counts /\ ServerBuffer /\ Bytes /\ [TcNext]_tcVars => Bytes'
<1> SUFFICES ASSUME Counts, ServerBuffer, Bytes, [TcNext]_tcVars PROVE Bytes'
  OBVIOUS
<1>t. /\ tcBuf \in Seq(1 .. taken) /\ Len(tcBuf) <= CHUNK
      /\ forward \in Seq(1 .. taken) /\ Len(forward) <= FORWARD
      /\ echoBuf \in Seq(1 .. taken) /\ Len(echoBuf) <= ECHO_CHUNK
      /\ back \in Seq(1 .. taken) /\ Len(back) <= BACK
      /\ printed \in Seq(1 .. taken)
  BY DEF Bytes
<1>l. Len(tcBuf) \in Nat /\ Len(forward) \in Nat /\ Len(echoBuf) \in Nat /\ Len(back) \in Nat
  BY <1>t
<1>e. <<>> \in Seq(1 .. taken) /\ Len(<<>>) = 0
  OBVIOUS
<1>1. CASE Kept
  BY <1>1, <1>t DEF Kept, Bytes
<1>2. CASE ReadStdin
  <2>1. tcBuf' \in Seq(1 .. taken') /\ Len(tcBuf') <= CHUNK /\ taken' >= taken /\ taken' \in Nat
        /\ taken \in Nat
    <3>1. taken \in Nat /\ typed \in Nat
      BY TcSizes DEF Counts
    <3> QED
      BY <1>2, <3>1, Reads
  <2>2. 1 .. taken \subseteq 1 .. taken'
    BY <2>1
  <2>3. Seq(1 .. taken) \subseteq Seq(1 .. taken')
    BY <2>2, SeqMonotonic
  <2>4. UNCHANGED <<printed, forward, back, echoBuf>>
    BY <1>2 DEF ReadStdin, kernel, server
  <2> QED
    BY <1>t, <2>1, <2>3, <2>4 DEF Bytes
<1>3. CASE WriteMoves
  <2>1. PICK n \in Nat : /\ n >= 1 /\ n <= Len(tcBuf) /\ n <= FORWARD - Len(forward)
                        /\ Moved(forward, tcBuf, forward', tcBuf', n)
    BY <1>3, WriteEffect
  <2>2. /\ forward' \in Seq(1 .. taken) /\ tcBuf' \in Seq(1 .. taken)
        /\ Len(forward') <= FORWARD /\ Len(tcBuf') <= CHUNK
    BY <2>1, <1>t, <1>l, TcSizes DEF Moved
  <2> QED
    BY <1>3, <1>t, <2>2 DEF WriteMoves, Bytes
<1>4. CASE BufferDropped
  <2>1. Len(tcBuf') <= CHUNK
    BY <1>4, <1>e, TcSizes DEF BufferDropped
  <2> QED
    BY <1>4, <1>t, <1>e, <2>1 DEF BufferDropped, Bytes
<1>5. CASE Prints
  <2>1. /\ printed' \in Seq(1 .. taken) /\ back' \in Seq(1 .. taken)
        /\ Len(back') <= BACK
    BY <1>5, <1>t, <1>l, PrintEffect, TcSizes, SMTT(20) DEF Moved
  <2> QED
    BY <1>5, <1>t, <2>1 DEF Prints, Bytes
<1>6. CASE EchoRead
  <2>0. echoBuf = <<>>
    BY <1>6 DEF EchoRead, ServerBuffer
  <2>1. /\ echoBuf' \in Seq(1 .. taken) /\ forward' \in Seq(1 .. taken)
        /\ Len(echoBuf') <= ECHO_CHUNK /\ Len(forward') <= FORWARD
    BY <1>6, <1>t, <1>l, <2>0, EchoReadEffect, TcSizes DEF Moved
  <2> QED
    BY <1>6, <1>t, <2>1 DEF EchoRead, client, Bytes
<1>7. CASE EchoWrite
  <2>1. PICK n \in Nat : /\ n >= 1 /\ n <= Len(echoBuf) /\ n <= BACK - Len(back)
                        /\ Moved(back, echoBuf, back', echoBuf', n)
    BY <1>7, EchoWriteEffect
  <2>2. /\ back' \in Seq(1 .. taken) /\ echoBuf' \in Seq(1 .. taken)
        /\ Len(back') <= BACK /\ Len(echoBuf') <= ECHO_CHUNK
    BY <2>1, <1>t, <1>l, TcSizes DEF Moved
  <2> QED
    BY <1>7, <1>t, <2>2 DEF EchoWrite, client, Bytes
<1>8. CASE EchoStops
  <2>1. /\ Len(echoBuf') <= ECHO_CHUNK /\ Len(forward') <= FORWARD
    BY <1>8, <1>e, TcSizes DEF EchoStops
  <2> QED
    BY <1>8, <1>t, <1>e, <2>1 DEF EchoStops, client, Bytes
<1> QED
  BY <1>1, <1>2, <1>3, <1>4, <1>5, <1>6, <1>7, <1>8, DataSteps
-----------------------------------------------------------------------------
(* Buffers and connection. *)

LEMMA NextClientBuffer == Counts /\ Bytes /\ ClientBuffer /\ [TcNext]_tcVars => ClientBuffer'
<1> SUFFICES ASSUME Counts, Bytes, ClientBuffer, [TcNext]_tcVars PROVE ClientBuffer'
  OBVIOUS
<1>c. /\ tcPc = "write" => tcBuf # <<>>
      /\ tcPc \notin {"write", "killed"} => tcBuf = <<>>
  BY DEF ClientBuffer
<1>1. CASE TcLoop \/ Connect \/ ReadTcp
  <2>1. UNCHANGED tcBuf
    BY <1>1 DEF TcLoop, Connect, ReadTcp, client
  <2>2. tcPc \notin {"write", "killed"} /\ tcPc' # "write"
    BY <1>1 DEF TcLoop, Connect, ReadTcp, Tc!Start, Tc!BuildFlags, Tc!SelectReady,
                Tc!SelectFails, Tc!Terminate
  <2> QED
    BY <1>c, <2>1, <2>2 DEF ClientBuffer
<1>2. CASE ReadStdin
  <2> DEFINE n == Lesser(CHUNK, typed - taken)
  <2>1. tcPc' = IF n > 0 THEN "write" ELSE Tc!AfterStdin
    BY <1>2 DEF ReadStdin
  <2>2. n \in Nat /\ tcBuf' \in Seq(1 .. taken') /\ Len(tcBuf') = n
    BY <1>2, Reads
  <2> HIDE DEF n
  <2>3. tcBuf' = <<>> <=> ~(n > 0)
    BY <2>2, EmptySeq
  <2> QED
    BY <2>1, <2>3 DEF ClientBuffer, Tc!AfterStdin
<1>3. CASE WriteTcp
  BY <1>3 DEF WriteTcp, ClientBuffer, Tc!AfterStdin
<1>4. CASE WriteFails
  BY <1>4 DEF WriteFails, ClientBuffer, Tc!AfterStdin
<1>5. CASE Sigpipe
  BY <1>5 DEF Sigpipe, ClientBuffer
<1>6. CASE TcHandler
  <2>1. UNCHANGED tcBuf
    BY <1>6 DEF TcHandler, client
  <2>2. UNCHANGED tcPc \/ (tcPc = "select" /\ tcPc' = "closing")
    BY <1>6 DEF TcHandler, Tc!Handler, Tc!AfterSelectError
  <2> QED
    BY <1>c, <2>1, <2>2 DEF ClientBuffer
<1>7. CASE UNCHANGED <<tcPc, tcBuf>>
  BY <1>7, <1>c DEF ClientBuffer
<1> QED
  BY <1>1, <1>2, <1>3, <1>4, <1>5, <1>6, <1>7 DEF TcNext, TcProcess, EchoServer, tcVars, loop, client,
     EchoRead, EchoWrite, EchoStops, ResetArrives, Type, EndOfInput

LEMMA NextServerBuffer ==
  Bytes /\ Connection /\ ServerBuffer /\ [TcNext]_tcVars => ServerBuffer'
<1> SUFFICES ASSUME Bytes, Connection, ServerBuffer, [TcNext]_tcVars PROVE ServerBuffer'
  OBVIOUS
<1>s. echoPc = "write" <=> echoBuf # <<>>
  BY DEF ServerBuffer
<1>1. CASE Connect
  <2>1. echoPc = "gone"
    BY <1>1 DEF Connect, Connection
  <2> QED
    BY <1>1, <1>s, <2>1 DEF Connect, ServerBuffer
<1>2. CASE EchoRead
  <2>1. echoBuf = <<>>
    BY <1>2, <1>s DEF EchoRead
  <2>2. echoBuf' # <<>>
    <3>1. Len(echoBuf) = 0 /\ Len(<<>>) = 0
      BY <2>1
    <3>2. Len(echoBuf') >= 1
      BY <1>2, <2>1, <3>1, EchoReadEffect DEF Moved
    <3> QED
      BY <3>1, <3>2
  <2> QED
    BY <1>2, <2>2 DEF EchoRead, ServerBuffer
<1>3. CASE EchoWrite
  BY <1>3 DEF EchoWrite, ServerBuffer
<1>4. CASE EchoStops
  BY <1>4 DEF EchoStops, ServerBuffer
<1>5. CASE UNCHANGED <<echoPc, echoBuf>>
  BY <1>5, <1>s DEF ServerBuffer
<1> QED
  BY <1>1, <1>2, <1>3, <1>4, <1>5 DEF TcNext, TcProcess, EchoServer, tcVars, server, TcLoop,
     ReadStdin, WriteTcp, WriteFails, Sigpipe, ReadTcp, TcHandler, ResetArrives, Type, EndOfInput

LEMMA NextConnection == Control /\ Connection /\ [TcNext]_tcVars => Connection'
<1> SUFFICES ASSUME Control, Connection, [TcNext]_tcVars PROVE Connection'
  OBVIOUS
<1> USE DEF Connection, loop, user, client, kernel, server
<1>1. CASE TcLoop
  <2>1. UNCHANGED <<link, error, echoPc, printed, back, forward, taken>>
    BY <1>1 DEF TcLoop
  <2>2. /\ tcPc' \in {"start", "ready"} => tcPc = "start"
        /\ tcPc \in {"start", "ready", "exit"} => tcPc' \in {"start", "ready", "exit"}
    BY <1>1 DEF TcLoop, Tc!Start, Tc!BuildFlags, Tc!SelectReady, Tc!SelectFails, Tc!Terminate
  <2> QED
    BY <2>1, <2>2
<1>2. CASE Connect
  BY <1>2 DEF Connect
<1>3. CASE ReadStdin
  BY <1>3 DEF ReadStdin, Tc!AfterStdin
<1>4. CASE WriteTcp
  <2>1. /\ tcPc' \notin {"start", "ready"} /\ tcPc = "write"
        /\ link' = link \/ (link' = "answering" /\ link \in {"fin", "answering"})
        /\ UNCHANGED <<error, echoPc, printed, back, taken>>
    BY <1>4 DEF WriteTcp, Tc!AfterStdin
  <2>2. link # "none"
    BY <2>1
  <2> QED
    BY <2>1, <2>2
<1>5. CASE WriteFails
  BY <1>5 DEF WriteFails, Tc!AfterStdin
<1>6. CASE Sigpipe \/ ReadTcp
  BY <1>6 DEF Sigpipe, ReadTcp
<1>7. CASE TcHandler
  <2>1. UNCHANGED <<link, error, echoPc, printed, back, forward, taken>>
    BY <1>7 DEF TcHandler
  <2>2. UNCHANGED tcPc \/ (tcPc = "select" /\ tcPc' = "closing")
    BY <1>7 DEF TcHandler, Tc!Handler, Tc!AfterSelectError
  <2> QED
    BY <2>1, <2>2
<1>8. CASE EchoRead \/ EchoWrite
  BY <1>8 DEF EchoRead, EchoWrite
<1>9. CASE EchoStops \/ ResetArrives
  BY <1>9 DEF EchoStops, ResetArrives
<1>10. CASE Type \/ EndOfInput \/ UNCHANGED tcVars
  BY <1>10 DEF Type, EndOfInput, tcVars
<1> QED
  BY <1>1, <1>2, <1>3, <1>4, <1>5, <1>6, <1>7, <1>8, <1>9, <1>10 DEF TcNext, TcProcess, EchoServer

(* Only Start opens the descriptor, and there is no connection then.       *)
LEMMA StaysUp ==
  Connection /\ [TcNext]_tcVars /\ fd_tcp' /\ link' = "up" =>
    Connect \/ (fd_tcp /\ link = "up")
<1> SUFFICES ASSUME Connection, [TcNext]_tcVars, fd_tcp', link' = "up", ~Connect
             PROVE  fd_tcp /\ link = "up"
  OBVIOUS
<1> USE DEF loop, user, client, kernel, server
<1>1. CASE TcLoop
  <2>1. UNCHANGED link /\ (fd_tcp \/ tcPc = "start")
    BY <1>1 DEF TcLoop, Tc!Start, Tc!BuildFlags, Tc!SelectReady, Tc!SelectFails, Tc!Terminate
  <2> QED
    BY <2>1 DEF Connection
<1>2. CASE ReadStdin \/ WriteTcp \/ WriteFails \/ Sigpipe \/ ReadTcp
  BY <1>2 DEF ReadStdin, WriteTcp, WriteFails, Sigpipe, ReadTcp
<1>3. CASE TcHandler
  BY <1>3 DEF TcHandler, Tc!Handler
<1>4. CASE EchoRead \/ EchoWrite \/ EchoStops \/ ResetArrives
  BY <1>4 DEF EchoRead, EchoWrite, EchoStops, ResetArrives
<1>5. CASE Type \/ EndOfInput \/ UNCHANGED tcVars
  BY <1>5 DEF Type, EndOfInput, tcVars
<1> QED
  BY <1>1, <1>2, <1>3, <1>4, <1>5 DEF TcNext, TcProcess, EchoServer

(* While the connection is up the loop's steps on it are these.            *)
LEMMA LoopSteps ==
  ASSUME Connection, [TcNext]_tcVars, fd_tcp, fd_tcp', link = "up", link' = "up"
  PROVE  \/ TcLoop /\ Tc!BuildFlags
         \/ TcLoop /\ Tc!SelectReady(TcReady)
         \/ ReadStdin \/ WriteTcp \/ ReadTcp \/ EchoRead \/ EchoWrite
         \/ Kept /\ UNCHANGED <<tcPc, tcFlags>>
<1> USE DEF loop, user, client, kernel, server, Kept
<1>1. CASE TcLoop
  BY <1>1 DEF TcLoop, Tc!Start, Tc!SelectFails, Tc!Terminate, Connection
<1>2. CASE Connect
  BY <1>2 DEF Connect, Connection
<1>3. CASE WriteFails \/ Sigpipe
  BY <1>3 DEF WriteFails, Sigpipe
<1>4. CASE TcHandler
  BY <1>4 DEF TcHandler, Tc!Handler
<1>5. CASE EchoStops \/ ResetArrives
  BY <1>5 DEF EchoStops, ResetArrives
<1>6. CASE Type \/ EndOfInput \/ UNCHANGED tcVars
  BY <1>6 DEF Type, EndOfInput, tcVars
<1> QED
  BY <1>1, <1>2, <1>3, <1>4, <1>5, <1>6 DEF TcNext, TcProcess, EchoServer

(* select reports the socket when there are bytes on it.                   *)
LEMMA Selects ==
  ASSUME Control, Connection, Flags, fd_tcp, link = "up", TcLoop, Tc!SelectReady(TcReady)
  PROVE  /\ tcPc = "select" /\ tcPc' \in {"readStdin", "readSocket"} /\ Kept
         /\ "socket" \in tcFlags' <=> back # <<>>
         /\ tcPc' = "readSocket" => "socket" \in tcFlags'
<1>1. "socket" \in TcReady <=> back # <<>>
  BY DEF TcReady, Readable, Connection
<1>2. /\ tcPc = "select" /\ tcFlags \cap TcReady # {} /\ tcFlags' = tcFlags \cap TcReady
      /\ tcPc' = IF "stdin" \in TcReady THEN "readStdin" ELSE "readSocket"
  BY DEF Tc!SelectReady
<1>3. tcFlags = {"stdin", "socket"}
  BY <1>2 DEF Flags
<1>4. Kept
  BY DEF TcLoop, client, kernel, server, Kept
<1> QED
  BY <1>1, <1>2, <1>3, <1>4

LEMMA NextFlags ==
  ASSUME Control, Bytes, Connection, Flags, [TcNext]_tcVars
  PROVE  Flags'
<1> SUFFICES ASSUME fd_tcp', link' = "up"
             PROVE  /\ tcPc' = "select" => tcFlags' = {"stdin", "socket"}
                    /\ Serving' /\ "socket" \in tcFlags' => back' # <<>>
                    /\ tcPc' = "readSocket" => "socket" \in tcFlags'
  BY DEF Flags
<1>1. CASE Connect
  BY <1>1 DEF Connect, Serving
<1>2. CASE ~Connect
  <2>u. fd_tcp /\ link = "up"
    BY <1>2, StaysUp
  <2>f. /\ tcPc = "select" => tcFlags = {"stdin", "socket"}
        /\ Serving /\ "socket" \in tcFlags => back # <<>>
        /\ tcPc = "readSocket" => "socket" \in tcFlags
    BY <2>u DEF Flags
  <2>1. CASE TcLoop /\ Tc!BuildFlags
    BY <2>1, <2>u DEF Tc!BuildFlags, Serving
  <2>2. CASE TcLoop /\ Tc!SelectReady(TcReady)
    <3>1. UNCHANGED back
      BY <2>2 DEF TcLoop, kernel
    <3> QED
      BY <2>2, <2>u, <3>1, Selects DEF Serving
  <2>3. CASE ReadStdin \/ WriteTcp
    <3>1. /\ UNCHANGED <<back, tcFlags>> /\ tcPc \in {"readStdin", "write"}
          /\ tcPc' \in {"write", Tc!AfterStdin}
      BY <2>3 DEF ReadStdin, WriteTcp, kernel
    <3> QED
      BY <2>f, <3>1 DEF Serving, Tc!AfterStdin
  <2>4. CASE ReadTcp
    BY <2>4 DEF ReadTcp, Serving
  <2>5. CASE EchoRead
    BY <2>5, <2>f DEF EchoRead, loop, Serving
  <2>6. CASE EchoWrite
    <3>1. back' # <<>>
      <4>1. PICK n \in Nat : n >= 1 /\ Moved(back, echoBuf, back', echoBuf', n)
        BY <2>6, EchoWriteEffect
      <4>2. Len(back') = Len(back) + n /\ Len(back) \in Nat
        BY <4>1 DEF Moved, Bytes
      <4>3. Len(back') # Len(<<>>)
        BY <4>1, <4>2
      <4> QED
        BY <4>3
    <3> QED
      BY <2>6, <2>f, <3>1 DEF EchoWrite, loop, Serving
  <2>7. CASE Kept /\ UNCHANGED <<tcPc, tcFlags>>
    BY <2>7, <2>f DEF Kept, Serving
  <2> QED
    BY <2>u, <2>1, <2>2, <2>3, <2>4, <2>5, <2>6, <2>7, LoopSteps
<1> QED
  BY <1>1, <1>2
-----------------------------------------------------------------------------
(* What is outstanding. *)

LEMMA NextLimited ==
  ASSUME Control, Counts, Bytes, ClientBuffer, ServerBuffer, Connection, Flags, Limited,
         [TcNext]_tcVars
  PROVE  Limited'
<1> SUFFICES ASSUME fd_tcp', link' = "up" PROVE Outstanding' <= FORWARD + ECHO_CHUNK + Extra'
  BY DEF Limited
<1>t. /\ Len(tcBuf) \in Nat /\ Len(forward) \in Nat /\ Len(echoBuf) \in Nat /\ Len(back) \in Nat
      /\ Len(forward) <= FORWARD /\ Len(echoBuf) <= ECHO_CHUNK
  BY DEF Bytes
<1>b. tcPc \notin {"write", "killed"} => tcBuf = <<>>
  BY DEF ClientBuffer
<1>z. Len(<<>>) = 0
  OBVIOUS
<1>1. CASE Connect
  <2>1. /\ back = <<>> /\ forward = <<>> /\ echoBuf = <<>> /\ tcBuf = <<>>
        /\ UNCHANGED <<back, forward, echoBuf, tcBuf>>
    BY <1>1, <1>b DEF Connect, client, Connection, ServerBuffer
  <2>2. Len(back') = 0 /\ Len(forward') = 0 /\ Len(echoBuf') = 0 /\ Len(tcBuf') = 0
    BY <2>1, <1>z
  <2>3. Extra' = CHUNK
    BY <1>1 DEF Connect, Extra
  <2> QED
    BY <2>2, <2>3, TcSizes DEF Outstanding
<1>2. CASE ~Connect
  <2>u. fd_tcp /\ link = "up"
    BY <1>2, StaysUp
  <2>o. Outstanding <= FORWARD + ECHO_CHUNK + Extra
    BY <2>u DEF Limited
  <2>1. CASE TcLoop /\ Tc!BuildFlags
    <3>1. Extra = CHUNK /\ Extra' = CHUNK
      BY <2>1, <2>u DEF Tc!BuildFlags, Extra
    <3>2. UNCHANGED <<back, forward, echoBuf, tcBuf>>
      BY <2>1 DEF TcLoop, client, kernel, server
    <3>3. Outstanding' = Outstanding
      BY <3>2 DEF Outstanding
    <3> QED
      BY <2>o, <3>1, <3>3
  <2>2. CASE TcLoop /\ Tc!SelectReady(TcReady)
    <3>1. /\ tcPc = "select" /\ tcPc' \in {"readStdin", "readSocket"} /\ Kept
          /\ "socket" \in tcFlags' <=> back # <<>>
          /\ tcPc' = "readSocket" => "socket" \in tcFlags'
      BY <2>2, <2>u, Selects
    <3>2. Outstanding' = Outstanding /\ Extra = CHUNK
      BY <3>1 DEF Outstanding, Kept, Extra
    <3>3. CASE "socket" \in tcFlags'
      <4>1. Extra' = CHUNK \/ Extra' = 2 * CHUNK
        BY <3>1, <3>3 DEF Extra
      <4> QED
        BY <4>1, <3>2, <2>o, <1>t, TcSizes DEF Outstanding
    <3>4. CASE "socket" \notin tcFlags'
      <4>1. Extra' = 0 /\ back = <<>> /\ tcBuf = <<>>
        BY <3>1, <3>4, <1>b DEF Extra
      <4>2. Len(back) = 0 /\ Len(tcBuf) = 0
        BY <4>1, <1>z
      <4>3. Outstanding <= FORWARD + ECHO_CHUNK
        BY <4>2, <1>t, TcSizes DEF Outstanding
      <4> QED
        BY <4>1, <4>3, <3>2, <1>t, TcSizes DEF Outstanding
    <3> QED
      BY <3>3, <3>4
  <2>3. CASE ReadStdin
    <3> DEFINE n == Lesser(CHUNK, typed - taken)
    <3>1. n \in Nat /\ n <= CHUNK /\ Len(tcBuf') = n
      BY <2>3, Reads
    <3>2. /\ tcPc = "readStdin" /\ UNCHANGED <<tcFlags, back, forward, echoBuf>>
          /\ tcPc' \in {"write", Tc!AfterStdin}
      BY <2>3 DEF ReadStdin, kernel, server
    <3> HIDE DEF n
    <3>3. Len(tcBuf) = 0
      BY <3>2, <1>b, <1>z
    <3>4. Outstanding' = Outstanding + n
      BY <3>1, <3>2, <3>3, <1>t DEF Outstanding
    <3>5. Outstanding \in Nat
      BY <1>t DEF Outstanding
    <3>6. CASE "socket" \in tcFlags
      <4>1. Extra = CHUNK /\ Extra' = 2 * CHUNK
        BY <3>2, <3>6 DEF Extra, Tc!AfterStdin
      <4> QED
        BY <4>1, <3>1, <3>4, <3>5, <2>o, TcSizes
    <3>7. CASE "socket" \notin tcFlags
      <4>1. Extra = 0 /\ Extra' = CHUNK
        BY <3>2, <3>7 DEF Extra, Tc!AfterStdin
      <4> QED
        BY <4>1, <3>1, <3>4, <3>5, <2>o, TcSizes
    <3> QED
      BY <3>6, <3>7
  <2>4. CASE WriteTcp
    <3>1. WriteMoves
      BY <2>4 DEF WriteTcp, WriteMoves, server
    <3>2. PICK n \in Nat : Moved(forward, tcBuf, forward', tcBuf', n)
      BY <3>1, WriteEffect
    <3>3. Outstanding' = Outstanding
      BY <3>1, <3>2, <1>t DEF Outstanding, Moved, WriteMoves
    <3>4. tcPc = "write" /\ tcPc' \in {"write", Tc!AfterStdin} /\ UNCHANGED tcFlags
      BY <2>4 DEF WriteTcp
    <3>5. Extra' = Extra
      BY <3>4 DEF Extra, Tc!AfterStdin
    <3> QED
      BY <3>3, <3>5, <2>o
  <2>5. CASE ReadTcp
    <3>1. tcPc = "readSocket" /\ tcPc' = "build" /\ "socket" \in tcFlags /\ back # <<>>
      BY <2>5, <2>u DEF ReadTcp, Flags, Serving
    <3>2. Prints
      BY <2>5, <2>u, <3>1 DEF ReadTcp, Prints, PrintedAfter, server
    <3>3. Extra = 2 * CHUNK /\ Extra' = CHUNK
      BY <3>1 DEF Extra
    <3>4. Len(tcBuf) = 0
      BY <3>1, <1>b, <1>z
    <3> DEFINE n == Lesser(CHUNK, Len(back))
    <3>5. Moved(printed, back, printed', back', n)
      BY <3>2, PrintEffect
    <3>6. n = CHUNK \/ n = Len(back)
      BY DEF Lesser
    <3>7. UNCHANGED <<tcBuf, forward, echoBuf>>
      BY <3>2 DEF Prints
    <3> HIDE DEF n
    <3>8. Len(back') = Len(back) - n
      BY <3>5 DEF Moved
    <3>9. Outstanding' = Len(back) - n + Len(echoBuf) + Len(forward)
      BY <3>4, <3>7, <3>8, <1>t DEF Outstanding
    <3>10. CASE n = CHUNK
      BY <3>3, <3>4, <3>9, <3>10, <2>o, <1>t, TcSizes DEF Outstanding
    <3>11. CASE n = Len(back)
      BY <3>3, <3>9, <3>11, <1>t, TcSizes
    <3> QED
      BY <3>6, <3>10, <3>11
  <2>6. CASE EchoRead
    <3>1. echoBuf = <<>>
      BY <2>6 DEF EchoRead, ServerBuffer
    <3>2. PICK n \in Nat : Moved(echoBuf, forward, echoBuf', forward', n)
      BY <2>6, <3>1, EchoReadEffect DEF Moved
    <3>3. UNCHANGED <<tcPc, tcFlags, tcBuf, back>>
      BY <2>6 DEF EchoRead, loop, client
    <3>4. Outstanding' = Outstanding
      BY <3>2, <3>3, <1>t DEF Outstanding, Moved
    <3> QED
      BY <3>3, <3>4, <2>o DEF Extra
  <2>7. CASE EchoWrite
    <3>2. PICK n \in Nat : Moved(back, echoBuf, back', echoBuf', n)
      BY <2>7, EchoWriteEffect
    <3>3. UNCHANGED <<tcPc, tcFlags, tcBuf, forward>>
      BY <2>7 DEF EchoWrite, loop, client
    <3>4. Outstanding' = Outstanding
      BY <3>2, <3>3, <1>t DEF Outstanding, Moved
    <3> QED
      BY <3>3, <3>4, <2>o DEF Extra
  <2>8. CASE Kept /\ UNCHANGED <<tcPc, tcFlags>>
    BY <2>8, <2>o DEF Kept, Outstanding, Extra
  <2> QED
    BY <2>u, <2>1, <2>2, <2>3, <2>4, <2>5, <2>6, <2>7, <2>8, LoopSteps
<1> QED
  BY <1>1, <1>2
-----------------------------------------------------------------------------
(* The chain of bytes. *)

InChain ==
  /\ Run(echoBuf, Len(printed) + Len(back))
  /\ Run(forward, Len(printed) + Len(back) + Len(echoBuf))
  /\ Run(tcBuf, Len(printed) + Len(back) + Len(echoBuf) + Len(forward))
  /\ Len(printed) + Len(back) + Len(echoBuf) + Len(forward) + Len(tcBuf) = taken

LEMMA EmptyRun == ASSUME NEW a PROVE Run(<<>>, a)
  BY DEF Run

LEMMA NextChain ==
  ASSUME Control, Counts, Bytes, ClientBuffer, ServerBuffer, Connection, Chain, [TcNext]_tcVars
  PROVE  Chain'
<1>t. /\ printed \in Seq(1 .. taken) /\ back \in Seq(1 .. taken) /\ echoBuf \in Seq(1 .. taken)
      /\ forward \in Seq(1 .. taken) /\ tcBuf \in Seq(1 .. taken)
  BY DEF Bytes
<1>l. /\ Len(printed) \in Nat /\ Len(back) \in Nat /\ Len(echoBuf) \in Nat
      /\ Len(forward) \in Nat /\ Len(tcBuf) \in Nat
  BY <1>t
<1>c. Run(printed, 0) /\ Run(back, Len(printed)) /\ (fd_tcp /\ link = "up" => InChain)
  BY DEF Chain, InChain
<1>n. ASSUME Run(printed', 0), Run(back', Len(printed')), fd_tcp' /\ link' = "up" => InChain'
      PROVE  Chain'
  BY <1>n DEF Chain, InChain
<1>z. Len(<<>>) = 0
  OBVIOUS
<1>1. CASE Kept
  <2>1. Run(printed', 0) /\ Run(back', Len(printed'))
    BY <1>1, <1>c DEF Kept
  <2>2. CASE Connect
    <3>1. /\ printed' = <<>> /\ back' = <<>> /\ forward' = <<>> /\ echoBuf' = <<>> /\ tcBuf' = <<>>
          /\ taken' = 0
      BY <2>2 DEF Connect, client, Connection, ServerBuffer, ClientBuffer
    <3>2. InChain'
      BY <3>1, <1>z, EmptyRun DEF InChain
    <3> QED
      BY <2>1, <3>2, <1>n
  <2>3. CASE ~Connect
    <3>1. fd_tcp' /\ link' = "up" => fd_tcp /\ link = "up"
      BY <2>3, StaysUp
    <3>2. InChain => InChain'
      BY <1>1 DEF Kept, InChain
    <3> QED
      BY <2>1, <3>1, <3>2, <1>c, <1>n
  <2> QED
    BY <2>2, <2>3
<1>2. CASE ReadStdin
  <2> DEFINE n == Lesser(CHUNK, typed - taken)
  <2>1. n \in Nat /\ taken' = taken + n /\ Len(tcBuf') = n /\ Run(tcBuf', taken)
    BY <1>2, Reads
  <2>2. UNCHANGED <<printed, back, echoBuf, forward, fd_tcp, link>> /\ tcBuf = <<>>
    BY <1>2 DEF ReadStdin, kernel, server, ClientBuffer
  <2> HIDE DEF n
  <2>3. ASSUME InChain PROVE InChain'
    <3>1. Len(printed) + Len(back) + Len(echoBuf) + Len(forward) = taken
      BY <2>2, <2>3, <1>z, <1>l DEF InChain
    <3>2. Len(printed) + Len(back) + Len(echoBuf) + Len(forward) + Len(tcBuf') = taken'
      BY <2>1, <3>1, <1>l
    <3>3. Run(tcBuf', Len(printed) + Len(back) + Len(echoBuf) + Len(forward))
      BY <2>1, <3>1
    <3>4. Run(echoBuf, Len(printed) + Len(back)) /\ Run(forward, Len(printed) + Len(back) + Len(echoBuf))
      BY <2>3 DEF InChain
    <3> QED
      BY <2>2, <3>2, <3>3, <3>4 DEF InChain
  <2> QED
    BY <1>c, <1>n, <2>2, <2>3
<1>3. CASE WriteMoves /\ WriteTcp
  <2>1. PICK n \in Nat : Moved(forward, tcBuf, forward', tcBuf', n)
    BY <1>3, WriteEffect
  <2>2. UNCHANGED <<printed, back, echoBuf, taken>> /\ fd_tcp /\ link = "up"
    BY <1>3 DEF WriteMoves
  <2>3. InChain
    BY <1>c, <2>2
  <2>4. PICK a \in Nat : a = Len(printed) + Len(back) + Len(echoBuf)
    BY <1>l
  <2>5. Run(forward, a) /\ Run(tcBuf, a + Len(forward)) /\ a + Len(forward) + Len(tcBuf) = taken
    BY <2>3, <2>4 DEF InChain
  <2>6. Run(forward', a) /\ Run(tcBuf', a + Len(forward) + n)
    BY <2>1, <2>5 DEF Moved
  <2>7. Len(forward') = Len(forward) + n /\ Len(tcBuf') = Len(tcBuf) - n
    BY <2>1 DEF Moved
  <2>8. a + Len(forward') = a + Len(forward) + n /\ a + Len(forward') + Len(tcBuf') = taken
    BY <2>4, <2>5, <2>7, <1>l
  <2>9. InChain'
    BY <2>2, <2>3, <2>4, <2>6, <2>8 DEF InChain
  <2> QED
    BY <1>c, <1>n, <2>2, <2>9
<1>4. CASE BufferDropped
  <2>1. UNCHANGED <<printed, back>> /\ ~(fd_tcp' /\ link' = "up")
    BY <1>4 DEF BufferDropped
  <2> QED
    BY <1>c, <1>n, <2>1
<1>5. CASE ReadTcp /\ Prints
  <2>1. PICK n \in Nat : Moved(printed, back, printed', back', n)
    BY <1>5, PrintEffect DEF Moved
  <2>2. UNCHANGED <<tcBuf, forward, echoBuf, taken, link, fd_tcp>>
    BY <1>5 DEF Prints, ReadTcp
  <2>3. Run(printed', 0) /\ Run(back', Len(printed'))
    <3>1. Run(back, 0 + Len(printed)) /\ 0 \in Nat
      BY <1>c, <1>l
    <3>2. Run(printed', 0) /\ Run(back', 0 + Len(printed) + n)
      BY <1>c, <2>1, <3>1 DEF Moved
    <3>3. Len(printed') = 0 + Len(printed) + n
      BY <2>1, <1>l DEF Moved
    <3> QED
      BY <3>2, <3>3
  <2>4. Len(printed') + Len(back') = Len(printed) + Len(back)
    BY <2>1, <1>l DEF Moved
  <2>5. InChain => InChain'
    BY <2>2, <2>4 DEF InChain
  <2> QED
    BY <1>c, <1>n, <2>2, <2>3, <2>5
<1>6. CASE EchoRead
  <2>0. echoBuf = <<>>
    BY <1>6 DEF EchoRead, ServerBuffer
  <2>1. PICK n \in Nat : Moved(echoBuf, forward, echoBuf', forward', n)
    BY <1>6, <2>0, EchoReadEffect DEF Moved
  <2>2. UNCHANGED <<printed, back, tcBuf, taken>> /\ fd_tcp /\ link = "up"
    BY <1>6 DEF EchoRead, client, Connection
  <2>3. InChain
    BY <1>c, <2>2
  <2>4. PICK a \in Nat : a = Len(printed) + Len(back)
    BY <1>l
  <2>5. Run(echoBuf, a) /\ Run(forward, a + Len(echoBuf))
    BY <2>3, <2>4 DEF InChain
  <2>6. Run(echoBuf', a) /\ Run(forward', a + Len(echoBuf) + n)
    BY <2>1, <2>5 DEF Moved
  <2>7. Len(echoBuf') = Len(echoBuf) + n /\ Len(forward') = Len(forward) - n
    BY <2>1 DEF Moved
  <2>8. /\ a + Len(echoBuf') = a + Len(echoBuf) + n
        /\ a + Len(echoBuf') + Len(forward') = a + Len(echoBuf) + Len(forward)
    BY <2>4, <2>7, <1>l
  <2>9. InChain'
    BY <2>2, <2>3, <2>4, <2>6, <2>8 DEF InChain
  <2> QED
    BY <1>c, <1>n, <2>2, <2>9
<1>7. CASE EchoWrite
  <2>1. PICK n \in Nat : Moved(back, echoBuf, back', echoBuf', n)
    BY <1>7, EchoWriteEffect
  <2>2. UNCHANGED <<printed, forward, tcBuf, taken>> /\ fd_tcp /\ link = "up"
    BY <1>7 DEF EchoWrite, client, Connection
  <2>3. InChain
    BY <1>c, <2>2
  <2>5. Run(back, Len(printed)) /\ Run(echoBuf, Len(printed) + Len(back))
    BY <1>c, <2>3 DEF InChain
  <2>6. Run(back', Len(printed)) /\ Run(echoBuf', Len(printed) + Len(back) + n)
    BY <2>1, <2>5, <1>l DEF Moved
  <2>7. Len(back') = Len(back) + n /\ Len(echoBuf') = Len(echoBuf) - n
    BY <2>1 DEF Moved
  <2>8. /\ Len(printed) + Len(back') = Len(printed) + Len(back) + n
        /\ Len(printed) + Len(back') + Len(echoBuf') = Len(printed) + Len(back) + Len(echoBuf)
    BY <2>7, <1>l
  <2>9. InChain'
    BY <2>2, <2>3, <2>6, <2>8 DEF InChain
  <2> QED
    BY <1>c, <1>n, <2>2, <2>6, <2>9
<1>8. CASE EchoStops
  <2>1. UNCHANGED <<printed, back>> /\ link' # "up"
    BY <1>8 DEF EchoStops, client
  <2> QED
    BY <1>c, <1>n, <2>1
<1> QED
  BY <1>1, <1>2, <1>3, <1>4, <1>5, <1>6, <1>7, <1>8, DataSteps
-----------------------------------------------------------------------------
(* The inductive invariant. *)

IInv == /\ Control /\ Counts /\ Bytes /\ ClientBuffer /\ ServerBuffer
        /\ Connection /\ Flags /\ Limited /\ Chain

LEMMA InitIInv == TcInit => IInv
<1> SUFFICES ASSUME TcInit PROVE IInv
  OBVIOUS
<1>1. /\ tcPc = "start" /\ fd_tcp = FALSE /\ tcFlags = {} /\ ended = FALSE
      /\ link = "none" /\ error = "none" /\ echoPc = "gone"
      /\ tcBuf = <<>> /\ printed = <<>> /\ forward = <<>> /\ back = <<>> /\ echoBuf = <<>>
  BY DEF TcInit, Tc!LoopInit
<1>2. typed = 0 /\ taken = 0
  BY DEF TcInit
<1>3. Len(<<>>) = 0 /\ <<>> \in Seq(1 .. taken)
  OBVIOUS
<1>4. Control
  BY <1>1 DEF Control, Tc!LoopTypeOK
<1>5. Counts
  BY <1>2, TcSizes DEF Counts
<1>6. Bytes
  <2>1. 0 <= CHUNK /\ 0 <= FORWARD /\ 0 <= ECHO_CHUNK /\ 0 <= BACK
    BY TcSizes
  <2> QED
    BY <1>1, <1>3, <2>1, Zenon DEF Bytes
<1>7. ClientBuffer /\ ServerBuffer /\ Flags /\ Limited
  BY <1>1 DEF ClientBuffer, ServerBuffer, Flags, Limited
<1>8. Connection
  BY <1>1, <1>2, Zenon DEF Connection
<1>9. Chain
  BY <1>1, EmptyRun DEF Chain
<1> QED
  BY <1>4, <1>5, <1>6, <1>7, <1>8, <1>9 DEF IInv

LEMMA NextIInv == IInv /\ [TcNext]_tcVars => IInv'
  BY NextControl, NextCounts, NextBytes, NextClientBuffer, NextServerBuffer, NextConnection,
     NextFlags, NextLimited, NextChain DEF IInv

LEMMA AlwaysIInv == TcSpec => []IInv
  BY InitIInv, NextIInv, PTL DEF TcSpec

(* The types hold of every reachable state. *)
THEOREM ClientTyping == TcSpec => []TcTypeOK
<1>1. IInv => TcTypeOK
  BY TypesInParts DEF IInv
<1> QED
  BY <1>1, AlwaysIInv, PTL

(* If both stood, more would be outstanding than the client can have       *)
(* written since it last looked for something to read.                     *)
LEMMA NotBothStand == IInv => NoStandstill
<1>1. ASSUME IInv, ClientStands, ServerStands PROVE FALSE
  <2>1. fd_tcp /\ link = "up" /\ tcPc = "write" /\ Len(forward) = FORWARD
    BY <1>1 DEF ClientStands
  <2>2. echoPc = "write" /\ Len(back) = BACK
    BY <1>1 DEF ServerStands
  <2>3. tcBuf # <<>> /\ echoBuf # <<>>
    BY <1>1, <2>1, <2>2 DEF IInv, ClientBuffer, ServerBuffer
  <2>4. Len(tcBuf) \in Nat /\ Len(tcBuf) >= 1 /\ Len(echoBuf) \in Nat /\ Len(echoBuf) >= 1
    BY <1>1, <2>3, EmptySeq DEF IInv, Bytes
  <2>5. Extra = CHUNK \/ Extra = 2 * CHUNK
    BY <2>1 DEF Extra
  <2>6. Outstanding <= FORWARD + ECHO_CHUNK + Extra
    BY <1>1, <2>1 DEF IInv, Limited
  <2>7. Len(forward) = FORWARD /\ Len(back) = BACK
    BY <2>1, <2>2
  <2> QED
    BY <2>4, <2>5, <2>6, <2>7, TcSizes DEF Outstanding
<1> QED
  BY <1>1 DEF NoStandstill

(* Client and server are never both stopped in a write                     *)
(* (tcp_client.c:182-195).                                                 *)
THEOREM NeverStandstill == TcSpec => []NoStandstill
  BY NotBothStand, AlwaysIInv, PTL
-----------------------------------------------------------------------------
(* The refinement. *)

Echoed == [u \in User |-> [k \in 1 .. Len(printed) |-> <<u, printed[k]>>]]
Sent   == [u \in User |-> typed]
Served == [u \in User |-> ~Tc!Ended]
EchoPassed(u) == Len(Echoed[u]) + [v \in User |-> 0][u]

(* What is printed are the first bytes that were typed. *)
PrintedTrue ==
  /\ Len(printed) \in Nat /\ Len(printed) <= typed
  /\ Echoed = [u \in User |-> [k \in 1 .. Len(printed) |-> <<u, k>>]]

LEMMA PrintedIsTyped == Counts /\ Bytes /\ Chain => PrintedTrue
<1> SUFFICES ASSUME Counts, Bytes, Chain PROVE PrintedTrue
  OBVIOUS
<1>1. printed \in Seq(1 .. taken) /\ Len(printed) \in Nat /\ typed \in Nat /\ taken \in 0 .. typed
  BY TcSizes DEF Bytes, Counts
<1>2. \A k \in 1 .. Len(printed) : printed[k] = k
  <2> SUFFICES ASSUME NEW k \in 1 .. Len(printed) PROVE printed[k] = k
    OBVIOUS
  <2>1. printed[k] = 0 + k
    BY DEF Chain, Run
  <2> QED
    BY <2>1
<1>3. Len(printed) <= typed
  <2>1. CASE Len(printed) = 0
    BY <1>1, <2>1
  <2>2. CASE Len(printed) >= 1
    <3>1. Len(printed) \in 1 .. Len(printed)
      BY <1>1, <2>2
    <3>2. printed[Len(printed)] \in 1 .. taken
      BY <1>1, <3>1, ElementOfSeq
    <3> QED
      BY <1>1, <1>2, <3>1, <3>2
  <2> QED
    BY <1>1, <2>1, <2>2
<1>4. Echoed = [u \in User |-> [k \in 1 .. Len(printed) |-> <<u, k>>]]
  BY <1>2, Zenon DEF Echoed
<1> QED
  BY <1>1, <1>3, <1>4 DEF PrintedTrue

(* Typing a byte is a Send of the service. *)
LEMMA TypeSends == Type => Typing!Send("user")
<1> SUFFICES ASSUME Type PROVE Typing!Send("user")
  OBVIOUS
<1>1. typed < MaxTyped /\ typed' = typed + 1 /\ UNCHANGED <<printed, tcPc>>
  BY DEF Type, loop, client
<1>2. [u \in User |-> typed]' = [[u \in User |-> typed] EXCEPT !["user"] = @ + 1]
  BY <1>1 DEF User
<1>3. [u \in User |-> typed]["user"] < [u \in User |-> MaxTyped]["user"]
  BY <1>1 DEF User
<1>4. UNCHANGED <<[u \in User |-> [k \in 1 .. Len(printed) |-> <<u, printed[k]>>]],
                  [u \in User |-> ~Tc!Ended]>>
  BY <1>1 DEF Tc!Ended
<1> QED
  BY <1>2, <1>3, <1>4 DEF Typing!Send

(* Counting on is counting from the start. *)
LEMMA CountOn ==
  \A p, m \in Nat :
    [k \in 1 .. p |-> <<"user", k>>] \o [k \in 1 .. m |-> <<"user", p + k>>]
      = [k \in 1 .. p + m |-> <<"user", k>>]
<1> TAKE p, m \in Nat
<1> DEFINE S == {"user"} \X Nat
           a == [k \in 1 .. p |-> <<"user", k>>]
           b == [k \in 1 .. m |-> <<"user", p + k>>]
           z == [k \in 1 .. p + m |-> <<"user", k>>]
<1>1. a \in Seq(S) /\ Len(a) = p /\ \A k \in 1 .. p : a[k] = <<"user", k>>
  OBVIOUS
<1>2. b \in Seq(S) /\ Len(b) = m /\ \A k \in 1 .. m : b[k] = <<"user", p + k>>
  OBVIOUS
<1>3. z \in Seq(S) /\ Len(z) = p + m /\ \A k \in 1 .. p + m : z[k] = <<"user", k>>
  OBVIOUS
<1> HIDE DEF S, a, b, z
<1>4. /\ a \o b \in Seq(S) /\ Len(a \o b) = p + m
      /\ \A k \in 1 .. p + m : (a \o b)[k] = IF k <= p THEN a[k] ELSE b[k - p]
  BY <1>1, <1>2, ConcatProperties
<1>5. ASSUME NEW k \in 1 .. p + m PROVE (a \o b)[k] = z[k]
  <2>1. CASE k <= p
    <3>1. k \in 1 .. p
      BY <2>1
    <3> QED
      BY <1>1, <1>3, <1>4, <2>1, <3>1
  <2>2. CASE ~(k <= p)
    <3>1. k - p \in 1 .. m /\ p + (k - p) = k
      BY <2>2
    <3>2. b[k - p] = <<"user", p + (k - p)>>
      BY <1>2, <3>1, Zenon
    <3> QED
      BY <1>3, <1>4, <2>2, <3>1, <3>2
  <2> QED
    BY <2>1, <2>2
<1>6. a \o b = z
  BY <1>3, <1>4, <1>5, SeqEqual
<1> QED
  BY <1>6 DEF a, b, z

(* Printing bytes is an Echo of the service. *)
LEMMA PrintEchoes ==
  ASSUME Bytes, Bytes', Counts', PrintedTrue, PrintedTrue', ReadTcp, Prints
  PROVE  Typing!Echo("user")
<1>1. PICK n \in Nat : n >= 1 /\ Moved(printed, back, printed', back', n)
  BY PrintEffect DEF Moved
<1>2. PICK upto \in Nat : upto = Len(printed')
  BY DEF PrintedTrue
<1>3. Len(printed) \in Nat /\ upto = Len(printed) + n
  BY <1>1, <1>2 DEF Moved, PrintedTrue
<1>4. typed' = typed /\ tcPc = "readSocket" /\ tcPc' = "build"
  BY DEF ReadTcp, user
<1>5. "user" \in User /\ \A u \in User : u = "user"
  BY DEF User
<1> DEFINE p == Len(printed)
<1>6. /\ Echoed["user"] = [k \in 1 .. p |-> <<"user", k>>] /\ Len(Echoed["user"]) = p
      /\ EchoPassed("user") = p /\ n \in 1 .. Sent["user"] - EchoPassed("user")
  <2>1. Echoed["user"] = [k \in 1 .. p |-> <<"user", k>>]
    BY <1>5 DEF PrintedTrue
  <2>2. Len(Echoed["user"]) = p
    BY <1>3, <2>1
  <2>3. Sent["user"] = typed
    BY <1>5 DEF Sent
  <2>4. upto <= typed
    BY <1>2, <1>4 DEF PrintedTrue
  <2>5. typed \in Nat
    BY <1>4, TcSizes DEF Counts
  <2>6. EchoPassed("user") = p
    BY <1>3, <1>5, <2>2 DEF EchoPassed
  <2> QED
    BY <1>1, <1>3, <2>1, <2>2, <2>3, <2>4, <2>5, <2>6
<1>7. Echoed' = [Echoed EXCEPT !["user"] =
                   @ \o [k \in 1 .. n |-> Typing!Byte("user", EchoPassed("user") + k)]]
  <2>1. Echoed' = [u \in User |-> [k \in 1 .. upto |-> <<u, k>>]]
    BY <1>2 DEF PrintedTrue
  <2> DEFINE f == [k \in 1 .. upto |-> <<"user", k>>]
             g == [k \in 1 .. n |-> Typing!Byte("user", EchoPassed("user") + k)]
  <2>2. Echoed' = [u \in User |-> f]
    BY <2>1, <1>5, Zenon
  <2>3. g = [k \in 1 .. n |-> <<"user", p + k>>]
    BY <1>6, Zenon DEF Typing!Byte
  <2>4. Echoed = [u \in User |-> Echoed[u]]
    BY DEF Echoed
  <2>5. f = Echoed["user"] \o g
    <3>1. p \in Nat /\ n \in Nat /\ upto = p + n
      BY <1>1, <1>3
    <3> HIDE DEF p, g
    <3> QED
      BY <1>6, <2>3, <3>1, CountOn, Zenon
  <2>7. g = [k \in 1 .. n |-> Typing!Byte("user", EchoPassed("user") + k)]
    OBVIOUS
  <2> HIDE DEF f, g
  <2>6. [Echoed EXCEPT !["user"] = @ \o g] = [u \in User |-> f]
    <3>1. [Echoed EXCEPT !["user"] = Echoed["user"] \o g] = [Echoed EXCEPT !["user"] = f]
      BY <2>5, Zenon
    <3>2. [Echoed EXCEPT !["user"] = f] = [u \in User |-> f]
      BY <1>5, <2>4
    <3> QED
      BY <3>1, <3>2
  <2> QED
    BY <2>2, <2>6, <2>7, Zenon
<1>8. Sent' = Sent
  BY <1>4 DEF Sent
<1>9. Served' = Served /\ Served["user"]
  BY <1>4, <1>5 DEF Served, Tc!Ended
<1> QED
  BY <1>6, <1>7, <1>8, <1>9, Zenon DEF Typing!Echo, Typing!Passed, EchoPassed, Echoed, Sent, Served

(* A client that has ended stays so. *)
LEMMA EndsForGood == Tc!Ended /\ [TcNext]_tcVars => Tc!Ended'
<1> SUFFICES ASSUME tcPc \in {"exit", "killed"}, [TcNext]_tcVars PROVE tcPc' = tcPc
  BY DEF Tc!Ended
<1> USE DEF loop, user, client, kernel, server
<1>1. CASE TcLoop
  BY <1>1 DEF TcLoop, Tc!Start, Tc!BuildFlags, Tc!SelectReady, Tc!SelectFails, Tc!Terminate
<1>2. CASE Connect \/ ReadStdin \/ WriteTcp \/ WriteFails \/ Sigpipe \/ ReadTcp
  BY <1>2 DEF Connect, ReadStdin, WriteTcp, WriteFails, Sigpipe, ReadTcp
<1>3. CASE TcHandler
  BY <1>3 DEF TcHandler, Tc!Handler, Tc!Ended
<1>4. CASE EchoServer \/ EchoStops \/ ResetArrives \/ Type \/ EndOfInput \/ UNCHANGED tcVars
  BY <1>4 DEF EchoServer, EchoRead, EchoWrite, EchoStops, ResetArrives, Type, EndOfInput, tcVars
<1> QED
  BY <1>1, <1>2, <1>3, <1>4 DEF TcNext, TcProcess

(* All other steps print and type nothing: the client may end with them.   *)
LEMMA OtherSteps ==
  ASSUME [TcNext]_tcVars, UNCHANGED <<typed, printed>>
  PROVE  \E gone \in SUBSET User : Typing!Drop(gone)
<1> DEFINE gone == {u \in User : Tc!Ended'}
<1>1. Sent' = Sent /\ Echoed' = Echoed
  BY DEF Sent, Echoed
<1>2. (~Tc!Ended') = (~Tc!Ended /\ ~Tc!Ended')
  BY EndsForGood, Zenon
<1>3. Served' = [u \in User |-> ~Tc!Ended']
  BY DEF Served
<1>4. \A u \in User : (~Tc!Ended') = (Served[u] /\ u \notin gone)
  BY <1>2, Zenon DEF Served
<1>5. Served' = [u \in User |-> Served[u] /\ u \notin gone]
  BY <1>3, <1>4, Zenon
<1>6. gone \in SUBSET User
  OBVIOUS
<1> QED
  BY <1>1, <1>5, <1>6, Zenon DEF Typing!Drop, Sent, Echoed, Served

LEMMA WhatIsSeen ==
  [TcNext]_tcVars => Type \/ (ReadTcp /\ Prints) \/ UNCHANGED <<typed, printed>>
<1> SUFFICES ASSUME [TcNext]_tcVars
             PROVE  Type \/ (ReadTcp /\ Prints) \/ UNCHANGED <<typed, printed>>
  OBVIOUS
<1> USE DEF loop, user, client, kernel, server
<1>1. CASE TcLoop \/ Connect \/ Sigpipe \/ TcHandler \/ ResetArrives \/ EndOfInput
  BY <1>1 DEF TcLoop, Connect, Sigpipe, TcHandler, ResetArrives, EndOfInput
<1>2. CASE ReadStdin \/ WriteTcp \/ WriteFails \/ EchoServer \/ EchoStops \/ UNCHANGED tcVars
  BY <1>2 DEF ReadStdin, WriteTcp, WriteFails, EchoServer, EchoRead, EchoWrite, EchoStops, tcVars
<1>3. CASE ReadTcp
  BY <1>3 DEF ReadTcp, Prints, PrintedAfter
<1>4. CASE Type
  BY <1>4
<1> QED
  BY <1>1, <1>2, <1>3, <1>4 DEF TcNext, TcProcess

LEMMA StepEchoes ==
  ASSUME IInv, IInv', PrintedTrue, PrintedTrue', [TcNext]_tcVars
  PROVE  [Typing!Next]_(Typing!vars)
<1>u. "user" \in User
  BY DEF User
<1>1. CASE Type
  BY <1>u, <1>1, TypeSends, Zenon DEF Typing!Next
<1>2. CASE ReadTcp /\ Prints
  BY <1>u, <1>2, PrintEchoes, Zenon DEF Typing!Next, IInv
<1>3. CASE UNCHANGED <<typed, printed>>
  BY <1>3, OtherSteps, Zenon DEF Typing!Next, Typing!Interrupt
<1> QED
  BY <1>1, <1>2, <1>3, WhatIsSeen

(* Client and server together implement the echo service for the user      *)
(* (tcp_client.c:184-204): what is printed is what was typed, in order and *)
(* once, and nothing after the client has ended.                           *)
THEOREM EchoesAsTyped == TcSpec => EchoesTyped
<1>1. TcInit => Typing!Init
  <2> SUFFICES ASSUME TcInit PROVE Typing!Init
    OBVIOUS
  <2>1. Sent = [u \in User |-> 0]
    BY DEF TcInit, Sent
  <2>2. Echoed = [u \in User |-> <<>>]
    <3>1. printed = <<>>
      BY DEF TcInit
    <3>2. 1 .. Len(printed) = {}
      BY <3>1
    <3>3. \A u \in User : [k \in 1 .. Len(printed) |-> <<u, printed[k]>>] = <<>>
      BY <3>2
    <3> QED
      BY <3>3, Zenon DEF Echoed
  <2>3. (~Tc!Ended) \in BOOLEAN
    OBVIOUS
  <2>4. Served \in [User -> BOOLEAN]
    BY <2>3, Zenon DEF Served
  <2> QED
    BY <2>1, <2>2, <2>4, Zenon DEF Typing!Init, Sent, Echoed, Served
<1>2. IInv => PrintedTrue
  BY PrintedIsTyped DEF IInv
<1>3. IInv /\ IInv' /\ PrintedTrue /\ PrintedTrue' /\ [TcNext]_tcVars => [Typing!Next]_(Typing!vars)
  BY StepEchoes
<1> QED
  BY <1>1, <1>2, <1>3, AlwaysIInv, PTL DEF TcSpec, EchoesTyped, Typing!Spec
=============================================================================
