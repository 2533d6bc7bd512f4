---------------------------- MODULE EchoService -----------------------------
(***************************************************************************)
(* What an echo server promises each of its clients: the bytes it returns  *)
(* are the bytes the client sent, in order, none twice and none of another *)
(* client, it leaves none out unless a signal interrupts it, and once it   *)
(* has dropped a client it returns nothing more.                           *)
(***************************************************************************)
EXTENDS Integers, Sequences

CONSTANTS Clients, MaxBytes

VARIABLES
  sent,     \* sent[c]: how many bytes client c has sent
  echoed,   \* echoed[c]: the bytes that came back to client c
  lost,     \* lost[c]: how many of its bytes never will
  served,   \* served[c]: may still get an answer
  signals   \* how many signals the server has received

vars == <<sent, echoed, lost, served, signals>>

(* The nth byte of a client, and how many bytes were dealt with. *)
Byte(c, n) == <<c, n>>
Passed(c) == Len(echoed[c]) + lost[c]

Init ==
  /\ sent = [c \in Clients |-> 0]
  /\ echoed = [c \in Clients |-> <<>>]
  /\ lost = [c \in Clients |-> 0]
  /\ served \in [Clients -> BOOLEAN]
  /\ signals = 0

Send(c) ==
  /\ sent[c] < MaxBytes[c]
  /\ sent' = [sent EXCEPT ![c] = @ + 1]
  /\ UNCHANGED <<echoed, lost, served, signals>>

(* Some of the outstanding bytes come back, from the oldest on. *)
Echo(c) ==
  /\ served[c]
  /\ \E k \in 1 .. sent[c] - Passed(c) :
       echoed' = [echoed EXCEPT ![c] = @ \o [n \in 1 .. k |-> Byte(c, Passed(c) + n)]]
  /\ UNCHANGED <<sent, lost, served, signals>>

(* Clients go for good, several at once when the server stops. *)
Drop(gone) ==
  /\ served' = [c \in Clients |-> served[c] /\ c \notin gone]
  /\ UNCHANGED <<sent, echoed>>

(* A signal may take the oldest outstanding bytes of one client. *)
Interrupt ==
  /\ signals' = signals + 1
  /\ \/ UNCHANGED lost
     \/ \E c \in Clients : \E k \in 1 .. sent[c] - Passed(c) :
          lost' = [lost EXCEPT ![c] = @ + k]

Next ==
  \/ \E c \in Clients : Send(c) \/ Echo(c)
  \/ \E gone \in SUBSET Clients : Drop(gone) /\ (Interrupt \/ UNCHANGED <<lost, signals>>)

Spec == Init /\ [][Next]_vars
=============================================================================
