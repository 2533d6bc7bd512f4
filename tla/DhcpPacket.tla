----------------------------- MODULE DhcpPacket -----------------------------
(***************************************************************************)
(* What dhcp_probe puts on the wire and reads from it: dhcp_options.c,     *)
(* dhcp_packet.c and the two functions of dhcp_main.c for the raw socket.  *)
(* A call composes and sends the DISCOVER, or receives the answer of a     *)
(* server, which may arrive damaged, and looks for one of its options.     *)
(*                                                                         *)
(* Bytes are in the order of the packet.  The host adds up words in its    *)
(* own order, which gives the same checksum in that order.                 *)
(***************************************************************************)
EXTENDS Integers, Sequences, FiniteSets, Bytes

CONSTANTS
  DhcpJobs,      \* the calls: [kind |-> "discover", xid, arp], or
                 \* [kind |-> "reply", message, unchecked, damage, arrive,
                 \*  before, beyond, code]
  OPTIONS_LEN,   \* sizes of the fields of a message: 308
  FILE_LEN,      \* 128
  SNAME_LEN      \* 64

(* The DISCOVER fits into its field.                                       *)
ASSUME DhcpConstantsOK ==
  {OPTIONS_LEN, FILE_LEN, SNAME_LEN} \subseteq Nat \ {0} /\ OPTIONS_LEN >= 40

VARIABLES
  dpPc,      \* what is done next
  dpJob,     \* the call
  options,   \* the options of the message that is composed
  wire,      \* the packet, from its IP header on
  payload,   \* what raw_sock_recv has copied to its caller
  field,     \* get_option: curr,
  optAt,     \* i
  over,      \* and over
  pointer    \* get_option: where the value begins in the message

dpVars == <<dpPc, dpJob, options, wire, payload, field, optAt, over, pointer>>

DHCP_PADDING     == 0
DHCP_OPTION_OVER == 52
DHCP_MESSAGE_TYPE == 53
DHCP_PARAM_REQ   == 55
DHCP_VENDOR      == 60
DHCP_CLIENT_ID   == 61
DHCP_END         == 255
DHCP_MAGIC       == <<99, 130, 83, 99>>
SERVER_PORT      == 67
CLIENT_PORT      == 68

(* Where the fields of a message begin.                                    *)
SnameAt   == 44
FileAt    == SnameAt + SNAME_LEN
CookieAt  == FileAt + FILE_LEN
OptionsAt == CookieAt + 4
MESSAGE   == OptionsAt + OPTIONS_LEN
Headers   == 28

DhcpInit ==
  /\ dpJob \in DhcpJobs
  /\ dpPc = IF dpJob.kind = "discover" THEN "header" ELSE "answer"
  /\ options = <<>> /\ wire = <<>>
  /\ payload = IF dpJob.kind = "reply" THEN dpJob.before ELSE <<>>
  /\ field = "options" /\ optAt = 0 /\ over = 0 /\ pointer = -1
-----------------------------------------------------------------------------
(* The options of the DISCOVER. *)

(* Code, length and whether the probe asks for it.                         *)
OptionTable ==
  << <<1, 4, TRUE>>, <<2, 4, FALSE>>, <<3, 4, TRUE>>, <<4, 4, FALSE>>, <<5, 4, FALSE>>,
     <<6, 4, TRUE>>, <<7, 4, FALSE>>, <<8, 4, FALSE>>, <<9, 4, FALSE>>, <<12, 1, TRUE>>,
     <<13, 2, FALSE>>, <<15, 1, TRUE>>, <<16, 4, FALSE>>, <<17, 1, FALSE>>, <<23, 1, FALSE>>,
     <<26, 2, FALSE>>, <<28, 4, TRUE>>, <<42, 4, FALSE>>, <<44, 4, FALSE>>, <<50, 4, FALSE>>,
     <<51, 4, FALSE>>, <<53, 1, FALSE>>, <<54, 4, FALSE>>, <<56, 1, FALSE>>, <<66, 1, FALSE>>,
     <<67, 1, FALSE>> >>

Put(area, at_, bytes) ==
  [k \in DOMAIN area |-> IF k \in at_ + 1..at_ + Len(bytes) THEN bytes[k - at_] ELSE area[k]]

end_option(area) ==
  LET from[k \in 0..Len(area) - 1] ==
        CASE area[k + 1] = DHCP_END     -> k
          [] area[k + 1] = DHCP_PADDING -> from[k + 1]
          [] OTHER                      -> from[k + area[k + 2] + 2]
  IN  from[0]

add_option_string(area, str) ==
  IF end_option(area) + str[2] + 3 >= OPTIONS_LEN THEN area
  ELSE Put(area, end_option(area), SubSeq(str, 1, str[2] + 2) \o <<DHCP_END>>)

(* The value is cut to the length of its type.                             *)
add_simple_option(area, code, value) ==
  LET rows == SelectSeq(OptionTable, LAMBDA row : row[1] = code)
  IN  IF rows = <<>> THEN area
      ELSE add_option_string(area, <<code, rows[1][2]>> \o SubSeq(value, 1, rows[1][2]))

ClientId == <<DHCP_CLIENT_ID, 7, 1>> \o dpJob.arp
VendorId == <<DHCP_VENDOR, 15, 117, 100, 104, 99, 112, 32, 48, 46, 57, 46, 56, 45, 112, 114, 101>>
Requested == LET rows == SelectSeq(OptionTable, LAMBDA row : row[3])
             IN  [k \in DOMAIN rows |-> rows[k][1]]

init_header ==
  /\ dpPc = "header" /\ dpPc' = "client"
  /\ options' = add_simple_option(Put(Zeroes(OPTIONS_LEN), 0, <<DHCP_END>>),
                                  DHCP_MESSAGE_TYPE, <<1, 0, 0, 0>>)
  /\ UNCHANGED <<dpJob, wire, payload, field, optAt, over, pointer>>

init_packet ==
  /\ dpPc = "client" /\ dpPc' = "requests"
  /\ options' = add_option_string(add_option_string(options, ClientId), VendorId)
  /\ UNCHANGED <<dpJob, wire, payload, field, optAt, over, pointer>>

add_requests ==
  /\ dpPc = "requests" /\ dpPc' = "send"
  /\ options' = Put(options, end_option(options),
                    <<DHCP_PARAM_REQ, Len(Requested)>> \o Requested \o <<DHCP_END>>)
  /\ UNCHANGED <<dpJob, wire, payload, field, optAt, over, pointer>>
-----------------------------------------------------------------------------
(* The packet. *)

(* Two folds do what the loop does: the sum is below 2^31.                 *)
Folded(sum)     == (sum % 65536) + (sum \div 65536)
checksum(bytes) == 65535 - Folded(Folded(Weighted(bytes, {})))

Message(op, xid_, yiaddr, arp, options_) ==
  <<op, 1, 6, 0>> \o xid_ \o Zeroes(8) \o yiaddr \o Zeroes(8) \o arp \o Zeroes(10)
    \o Zeroes(SNAME_LEN + FILE_LEN) \o DHCP_MAGIC \o options_

Anyone    == Zeroes(4)
Broadcast == <<255, 255, 255, 255>>
Pseudo(source, dest, length) == Zeroes(2) \o Two(length) \o Zeroes(5) \o <<17>> \o Zeroes(2) \o source \o dest
IpHeader(source, dest, length, check) ==
  <<69, 0>> \o Two(length) \o Zeroes(4) \o <<64, 17>> \o Two(check) \o source \o dest
UdpHeader(from, to, length, check) == Two(from) \o Two(to) \o Two(length) \o Two(check)

UdpCheck(source, from, to, data) ==
  checksum(Pseudo(source, Broadcast, Len(data) + 8) \o UdpHeader(from, to, Len(data) + 8, 0) \o data)
Sent(source, from, to, data, check) ==
  IpHeader(source, Broadcast, Len(data) + Headers,
           checksum(IpHeader(source, Broadcast, Len(data) + Headers, 0)))
    \o UdpHeader(from, to, Len(data) + 8, check) \o data

(* The socket, its binding or the sending may fail.                        *)
raw_sock_send ==
  /\ dpPc = "send"
  /\ \/ dpPc' = "unsent" /\ UNCHANGED wire
     \/ /\ dpPc' = "sent"
        /\ LET data == Message(1, dpJob.xid, Zeroes(4), dpJob.arp, options)
           IN  wire' = Sent(Anyone, CLIENT_PORT, SERVER_PORT, data,
                            UdpCheck(Anyone, CLIENT_PORT, SERVER_PORT, data))
  /\ UNCHANGED <<dpJob, options, payload, field, optAt, over, pointer>>

(* A server sends any part of a message; a checksum that is zero is sent   *)
(* as all ones, and zero for none.                                         *)
ServerAt == <<10, 0, 0, 1>>
Answer ==
  /\ dpPc = "answer" /\ dpPc' = "travel"
  /\ LET data  == dpJob.message
         check == UdpCheck(ServerAt, SERVER_PORT, CLIENT_PORT, data)
     IN  wire' = Sent(ServerAt, SERVER_PORT, CLIENT_PORT, data,
                      IF dpJob.unchecked THEN 0 ELSE IF check = 0 THEN 65535 ELSE check)
  /\ UNCHANGED <<dpJob, options, payload, field, optAt, over, pointer>>

(* On its way a byte changes, the end is lost, or something is appended.   *)
Travel ==
  /\ dpPc = "travel" /\ dpPc' = "receive"
  /\ LET d == dpJob.damage
         long == IF dpJob.arrive <= Len(wire) THEN SubSeq(wire, 1, dpJob.arrive)
                 ELSE wire \o Zeroes(dpJob.arrive - Len(wire))
     IN  wire' = IF d.at_ \in DOMAIN long THEN [long EXCEPT ![d.at_] = (@ + d.by) % 256] ELSE long
  /\ UNCHANGED <<dpJob, options, payload, field, optAt, over, pointer>>
-----------------------------------------------------------------------------
(* Receiving. *)

Number(bytes, k) == bytes[k] * 256 + bytes[k + 1]
Total  == Number(wire, 3)          \* length by the IP header
Source == SubSeq(wire, 13, 16)
Dest   == SubSeq(wire, 17, 20)
Check  == Number(wire, 27)         \* checksum of UDP

(* The read takes no more than fits into the packet.                       *)
Arrived == IF Len(wire) < MESSAGE + Headers THEN Len(wire) ELSE MESSAGE + Headers

ForClient ==
  /\ Arrived >= Headers /\ Arrived >= Total /\ Total <= MESSAGE + Headers
  /\ wire[10] = 17 /\ wire[1] = 69
  /\ Number(wire, 23) = CLIENT_PORT /\ Number(wire, 25) = Total - 20
HeaderIntact == Number(wire, 11) = checksum(Put(SubSeq(wire, 1, 20), 10, <<0, 0>>))
DataIntact ==
  Check = 0 \/ Check = checksum(Pseudo(Source, Dest, Number(wire, 25))
                                  \o Put(SubSeq(wire, 21, Total), 6, <<0, 0>>))

(* The message is copied over the last one.  A total length below the      *)
(* headers would make the length of the copy negative.                     *)
CopiedMessage == [k \in 1..MESSAGE |-> IF k <= Total - Headers THEN wire[Headers + k] ELSE payload[k]]
HasMagic(message) == SubSeq(message, CookieAt + 1, CookieAt + 4) = DHCP_MAGIC

raw_sock_recv ==
  /\ dpPc = "receive"
  /\ IF ~(ForClient /\ HeaderIntact /\ DataIntact) THEN dpPc' = "refused" /\ UNCHANGED payload
     ELSE IF Total < Headers THEN dpPc' = "undefined" /\ UNCHANGED payload
     ELSE /\ payload' = CopiedMessage
          /\ dpPc' = IF HasMagic(payload') /\ Total > Headers THEN "find" ELSE "refused"
  /\ UNCHANGED <<dpJob, options, wire, field, optAt, over, pointer>>
-----------------------------------------------------------------------------
(* get_option, with a turn of its loop in a step. *)

FieldAt  == CASE field = "options" -> OptionsAt [] field = "file" -> FileAt [] field = "sname" -> SnameAt
FieldLen == CASE field = "options" -> OPTIONS_LEN [] field = "file" -> FILE_LEN [] field = "sname" -> SNAME_LEN
(* A byte of the field, or behind it; behind the message is anything.      *)
OptionByte(k) == IF FieldAt + k < MESSAGE THEN payload[FieldAt + k + 1] ELSE dpJob.beyond
(* Mutant: one byte more.                                                 *)
FitsLoosely == optAt + 1 + OptionByte(optAt + 1) <= FieldLen
FitsIn == optAt + 1 + OptionByte(optAt + 1) < FieldLen

Turning == dpPc = "find" /\ UNCHANGED <<dpJob, options, wire, payload>>
NotFound == dpPc' = "none" /\ UNCHANGED <<field, optAt, over, pointer>>

FieldEnds == Turning /\ optAt >= FieldLen /\ NotFound

TakeOption ==
  /\ Turning /\ optAt < FieldLen /\ OptionByte(optAt) = dpJob.code
  /\ IF FitsIn THEN dpPc' = "found" /\ pointer' = FieldAt + optAt + 2 /\ UNCHANGED <<field, optAt, over>>
               ELSE NotFound

(* The length that is skipped is that of the first option of the field,    *)
(* and the byte behind the value is taken for the value.                   *)
Overload ==
  IF FitsIn THEN /\ over' = OptionByte(optAt + 3) /\ optAt' = optAt + OptionByte(1) + 2
                 /\ UNCHANGED <<dpPc, field, pointer>>
            ELSE NotFound

(* The file is searched if over has bit 0, then sname if it has bit 1.     *)
NextField ==
  LET next_ == CASE field = "options" /\ over % 2 = 1          -> "file"
                 [] field = "file" /\ (over \div 2) % 2 = 1 -> "sname"
                 [] OTHER                                   -> "no more"
  IN  IF next_ = "no more" THEN NotFound
      ELSE field' = next_ /\ optAt' = 0 /\ UNCHANGED <<dpPc, over, pointer>>

Skip(n) == optAt' = optAt + n /\ UNCHANGED <<dpPc, field, over, pointer>>

SkipOption ==
  /\ Turning /\ optAt < FieldLen
  /\ LET code == OptionByte(optAt)
     IN  CASE code = dpJob.code        -> FALSE
           [] code # dpJob.code /\ code = DHCP_PADDING -> Skip(1)
           [] code # dpJob.code /\ code = DHCP_OPTION_OVER -> Overload
           [] code # dpJob.code /\ code = DHCP_END -> NextField
           [] OTHER -> Skip(OptionByte(optAt + 1) + 2)

get_option == FieldEnds \/ TakeOption \/ SkipOption

DhcpNext == init_header \/ init_packet \/ add_requests \/ raw_sock_send
            \/ Answer \/ Travel \/ raw_sock_recv \/ get_option

DhcpSpec == DhcpInit /\ [][DhcpNext]_dpVars
-----------------------------------------------------------------------------
(* Properties. *)

DhcpTypeOK ==
  /\ dpPc \in {"header", "client", "requests", "send", "unsent", "sent", "answer", "travel",
               "receive", "refused", "undefined", "find", "found", "none"}
  /\ field \in {"options", "file", "sname"} /\ optAt \in Nat /\ over \in 0..255
  /\ options = <<>> \/ Len(options) = OPTIONS_LEN
  /\ pointer \in -1..MESSAGE

(* The options of a field as RFC 2132 reads them: codes and places.        *)
Parsed(area) ==
  LET from[k \in 0..Len(area) + 256] ==
        IF k + 1 >= Len(area) \/ area[k + 1] = 255 THEN <<>>
        ELSE IF area[k + 1] = 0 THEN from[k + 1]
        ELSE <<[code |-> area[k + 1], at |-> k + 2, len |-> area[k + 2]]>> \o from[k + area[k + 2] + 2]
  IN  from[0]
ValueOf(area, option) == SubSeq(area, option.at + 1, option.at + option.len)

(* The DISCOVER on the wire is whole: both checksums verify, the lengths   *)
(* agree, and its options are the type, the client, the vendor and the     *)
(* list of what the probe asks for, closed by an end inside the field.     *)
DiscoverIsWhole ==
  LET message == SubSeq(wire, Headers + 1, Len(wire))
      area    == SubSeq(message, OptionsAt + 1, MESSAGE)
      parsed  == Parsed(area)
  IN  /\ Len(message) = MESSAGE /\ Number(wire, 3) = Len(wire) /\ Number(wire, 25) = Len(wire) - 20
      /\ Weighted(SubSeq(wire, 1, 20), {}) % 65535 = 0
      /\ (Weighted(SubSeq(wire, 13, Len(wire)), {}) + 17 + Number(wire, 25)) % 65535 = 0
      /\ SubSeq(message, 5, 8) = dpJob.xid /\ SubSeq(message, 29, 34) = dpJob.arp
      /\ [n \in DOMAIN parsed |-> parsed[n].code] = <<53, 61, 60, 55>>
      /\ ValueOf(area, parsed[1]) = <<1>>
      /\ ValueOf(area, parsed[2]) = <<1>> \o dpJob.arp
      /\ {ValueOf(area, parsed[4])[k] : k \in 1..parsed[4].len} = {1, 3, 6, 12, 15, 28}
      /\ parsed[4].at + parsed[4].len < OPTIONS_LEN /\ area[parsed[4].at + parsed[4].len + 1] = 255

(* What a server sends arrives as it was sent or not at all, unless it     *)
(* is sent without a checksum; and an undamaged one arrives, unless its    *)
(* checksum happens to be zero, which is sent as all ones.                 *)
Undamaged(d) == d.damage.by = 0 /\ d.arrive >= Headers + Len(d.message)
ReplyIsTrue ==
  /\ dpPc = "refused" /\ Undamaged(dpJob) /\ HasMagic(dpJob.message) => Check = 65535
  /\ dpPc \in {"find", "found", "none"} =>
       Check = 0 \/ SubSeq(payload, 1, Len(dpJob.message)) = dpJob.message

(* The option that is found is the first one with its code, and it is      *)
(* inside the field.  Messages that use other fields for options are left  *)
(* out.                                                                    *)
OptionIsFound ==
  LET area   == SubSeq(payload, OptionsAt + 1, MESSAGE)
      parsed == Parsed(area)
      first  == {n \in DOMAIN parsed : parsed[n].code = dpJob.code
                                       /\ \A m \in 1..n - 1 : parsed[m].code # dpJob.code}
      fits   == {n \in first : parsed[n].at + parsed[n].len <= OPTIONS_LEN}
  IN  (\A n \in DOMAIN parsed : parsed[n].code # DHCP_OPTION_OVER) =>
        IF dpPc = "found" THEN \E n \in fits : pointer = OptionsAt + parsed[n].at
                          ELSE fits = {}

(* The probe says and hears what it should: see the three parts.           *)
DhcpIsTrue ==
  /\ dpPc = "sent" => DiscoverIsWhole
  /\ ReplyIsTrue
  /\ dpPc \in {"found", "none"} => OptionIsFound
=============================================================================
