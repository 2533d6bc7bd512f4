-------------------------------- MODULE Icmp --------------------------------
(***************************************************************************)
(* icmp/icmp.c and icmp/icmpv6.c: compose a message of a type, send it,    *)
(* and tell what the first message says that the raw socket receives.  The *)
(* other messages on the network are those another icmp has sent.          *)
(***************************************************************************)
EXTENDS Integers, Sequences, FiniteSets, Bytes

CONSTANTS
  IcmpJobs,     \* the calls: [v, type, code, recv], v 4 or 6, recv FALSE with -s
  IcmpPeers,    \* what others send: [type, code]
  IpHeaders,    \* lengths of the IP header in words, 5 and more with options
  IcmpId        \* the process ID and the time, in four bytes

ASSUME IcmpOK == IpHeaders \subseteq 5..15 /\ IcmpId \in [1..4 -> 0..255]

VARIABLES
  icPc,       \* what is done next
  icJob,      \* the call
  txBuff,     \* the message that is sent
  arrived,    \* the packets in the socket
  said,       \* what the senders of these packets meant
  told        \* what was printed of the first of them

icVars == <<icPc, icJob, txBuff, arrived, said, told>>

Nothing == [type |-> -1, code |-> -1, length |-> -1, data |-> <<>>]

IcmpInit ==
  /\ icJob \in IcmpJobs /\ icPc = "send"
  /\ txBuff = <<>> /\ arrived = <<>> /\ said = <<>> /\ told = Nothing
-----------------------------------------------------------------------------
(* The messages. *)

Fill(n, byte) == [k \in 1..n |-> byte]
g_packet  == <<69, 0, 0, 84, 0, 0, 64, 0, 64, 1, 181, 74, 192, 168, 2, 2, 192, 168, 2, 12,
               8, 0, 46, 19, 122, 63, 0, 1>>
Prefix    == <<32, 1, 13, 184, 0, 1, 0, 2, 0, 0, 0, 0, 0, 0, 16>>
g_packet6 == <<96, 0, 0, 0, 0, 40, 58, 128>> \o Prefix \o <<5>> \o Prefix \o <<0>>
             \o <<128, 0, 89, 101, 0, 1, 0, 22>> \o [k \in 1..32 |-> 97 + ((k - 1) % 23)]
Target     == <<32, 1, 13, 184>> \o Zeroes(10) \o <<1, 35>>
NextHop    == <<32, 1, 13, 185>> \o Zeroes(11) \o <<1>>
LinkOption == <<1, 1, 0, 35, 36, 55, 123, 252>>

Types4 == {0, 3, 4, 5, 8} \cup 11..14 \cup {17, 18}
Types6 == 1..4 \cup {128, 129} \cup 133..137
Types(v) == IF v = 4 THEN Types4 ELSE Types6

(* The second word of the header, and what follows it.                     *)
Rest4(type) ==
  CASE type \in {0, 8, 13, 14, 17, 18} -> IcmpId
    [] type = 3       -> <<0, 0>> \o Two(1500)
    [] type = 5       -> <<192, 168, 96, 123>>
    [] type = 12      -> <<5, 0, 0, 0>>
    [] type \in {4, 11} -> Zeroes(4)
Data4(type) ==
  CASE type \in {0, 8} -> Fill(56, 255)
    [] type \in {3, 4, 5, 11, 12} -> g_packet
    [] type = 13 -> Fill(4, 17) \o Fill(4, 34) \o Fill(4, 51)
    [] type = 14 -> Fill(4, 68) \o Fill(4, 85) \o Fill(4, 102)
    [] type = 17 -> Zeroes(4)
    [] type = 18 -> <<0, 255, 255, 255>>
Rest6(type) ==
  CASE type \in {128, 129} -> IcmpId
    [] type = 2   -> <<0, 0>> \o Two(1500)
    [] type = 4   -> <<0, 0, 0, 5>>
    [] type = 134 -> <<64, 192>> \o Two(20)
    [] type = 136 -> <<96, 0, 0, 0>>
    [] type \in {1, 3, 133, 135, 137} -> Zeroes(4)
Data6(type) ==
  CASE type \in 1..4 -> g_packet6
    [] type \in {128, 129} -> Fill(56, 255)
    [] type = 133 -> LinkOption
    [] type = 134 -> <<0, 0, 0, 100, 0, 0, 0, 100>>
    [] type = 135 -> Target \o LinkOption
    [] type = 136 -> Target
    [] type = 137 -> Target \o NextHop \o LinkOption
(* Some types take the code of the command line, of which a byte is sent.  *)
Coded(v, m) == IF m.type \in (IF v = 4 THEN {3} ELSE {1, 3, 4}) THEN m.code % 256 ELSE 0

FoldedOnce(sum) == (sum % 65536) + (sum \div 65536)
OnceOnly(sum)   == (65535 - FoldedOnce(sum)) % 65536               \* mutant
(* For version 6 the kernel puts in the one of the pseudo header, too.     *)
InternetSum(sum) == 65535 - FoldedOnce(FoldedOnce(sum))
IcmpCheck(bytes) == InternetSum(Weighted(bytes, {}))

Composed(v, m) ==
  LET head == <<m.type, Coded(v, m)>>
      body == IF v = 4 THEN Rest4(m.type) \o Data4(m.type) ELSE Rest6(m.type) \o Data6(m.type)
  IN  head \o Two(IcmpCheck(head \o Zeroes(2) \o body)) \o body
-----------------------------------------------------------------------------
(* A raw socket of version 4 gives the IP header, too.                     *)
Packet(v, words, message) == IF v = 4 THEN <<64 + words>> \o Zeroes(words * 4 - 1) \o message ELSE message

(* The message goes out, or not: a type that is not known is not sent, and *)
(* sendto may fail.  main waits for an answer all the same.                *)
SendIcmp ==
  /\ icPc = "send" /\ icPc' = IF icJob.recv THEN "receive" ELSE "exit"
  /\ txBuff' = IF icJob.type \in Types(icJob.v) THEN Composed(icJob.v, icJob) ELSE <<>>
  /\ \/ UNCHANGED <<arrived, said>>
     \/ /\ txBuff' # <<>> /\ arrived' = Append(arrived, Packet(icJob.v, 5, txBuff'))
        /\ said' = Append(said, [type |-> icJob.type, code |-> icJob.code])    \* to this host itself
  /\ UNCHANGED <<icJob, told>>

PeerSends ==
  /\ icPc # "exit" /\ Len(arrived) < 2
  /\ \E m \in IcmpPeers, words \in IpHeaders :
       /\ m.type \in Types(icJob.v)
       /\ arrived' = Append(arrived, Packet(icJob.v, words, Composed(icJob.v, m)))
       /\ said' = Append(said, m)
  /\ UNCHANGED <<icPc, icJob, txBuff, told>>

(* Where the message begins in the packet.                                 *)
NoOptions(v, packet) == IF v = 4 THEN 20 ELSE 0                    \* mutant
MessageAt(v, packet) == IF v = 4 THEN (packet[1] % 16) * 4 ELSE 0

Quad(bytes) == SubSeq(bytes, 1, 4)

(* The gateway of a redirect is taken from the data, and of the MTU the    *)
(* first two bytes.                                                        *)
Told4(type, rest, data) ==
  CASE type \in {0, 8, 13, 14} -> data
    [] type \in {5, 18} -> Quad(data)
    [] OTHER -> <<>>
Told6(type, rest, data) ==
  CASE type \in {128, 129} -> data
    [] type = 2 -> <<rest[1] * 256 + rest[2]>>
    [] OTHER -> <<>>
CodeTold(v) == IF v = 4 THEN {3, 5, 11, 12} ELSE {1, 3, 4}

Telling(v, packet) ==
  LET start   == MessageAt(v, packet)
      message == SubSeq(packet, start + 1, Len(packet))
      rest    == SubSeq(message, 5, 8)
      data    == SubSeq(message, 9, Len(message))
      type    == message[1]
  IN  [type |-> type, code |-> IF type \in CodeTold(v) THEN message[2] ELSE -1, length |-> Len(data),
       data |-> IF v = 4 THEN Told4(type, rest, data) ELSE Told6(type, rest, data)]

(* The first packet is told, whoever has sent it; or recvfrom fails.       *)
ReceiveIcmp ==
  /\ icPc = "receive" /\ icPc' = "exit"
  /\ \/ arrived # <<>> /\ told' = Telling(icJob.v, Head(arrived))
     \/ UNCHANGED told
  /\ UNCHANGED <<icJob, txBuff, arrived, said>>

IcmpNext == SendIcmp \/ PeerSends \/ ReceiveIcmp
-----------------------------------------------------------------------------
(* Properties.                                                             *)

IcmpTypeOK ==
  /\ icPc \in {"send", "receive", "exit"} /\ icJob \in IcmpJobs
  /\ txBuff \in Seq(0..255) /\ Len(arrived) <= 3 /\ Len(said) = Len(arrived)
  /\ told.length \in -1..80 /\ told.data \in Seq(0..65535)

(* What a message has to say, by the layouts of RFC 792, 950 and 4443, for *)
(* the values its sender meant.                                            *)
Meant(v, m) ==
  CASE v = 4 /\ m.type = 5 -> Rest4(5)
    [] v = 4 /\ m.type \in {0, 8, 13, 14, 18} -> Data4(m.type)
    [] v = 6 /\ m.type = 2 -> <<1500>>
    [] v = 6 /\ m.type \in {128, 129} -> Data6(m.type)
    [] OTHER -> <<>>
MeantCode(v, m) ==
  IF m.type \notin CodeTold(v) THEN -1
  ELSE IF v = 4 /\ m.type # 3 THEN 0 ELSE m.code % 256
Misread(v) == IF v = 4 THEN {5} ELSE {2}

(* One icmp tells what another one meant (icmp.c:95-331, icmpv6.c:104-345),*)
(* of every type, with IP options before it or not, except the gateway of  *)
(* a redirect and an MTU; and the checksum of each message verifies, where *)
(* the sum has to be folded twice, too.                                    *)
IcmpIsTrue ==
  /\ txBuff # <<>> => Weighted(txBuff, {}) % 65535 = 0
  /\ told # Nothing =>
       LET m == said[1] IN
         /\ told.type = m.type /\ told.code = MeantCode(icJob.v, m)
         /\ told.length = Len(IF icJob.v = 4 THEN Data4(m.type) ELSE Data6(m.type))
         /\ told.data = Meant(icJob.v, m) <=> m.type \notin Misread(icJob.v)
=============================================================================
