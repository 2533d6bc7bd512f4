------------------------------ MODULE MCTools ------------------------------
(***************************************************************************)
(* Small instances of the file tools for TLC.  They do not interact: a     *)
(* behaviour is one run of one of them, the others are idle.               *)
(***************************************************************************)
EXTENDS IntelHex, PcapNg, Base64, BinTools, QrCode, Checksums,
        DhcpPacket, Icmp, TextPackets, Certs, Digests, UuidNames

HexFileSet == UNION {[1..n -> {0, 2}] : n \in 0..3}
              \cup UNION {{[k \in 1..n |-> IF k = h THEN 5 ELSE k % 3] : h \in 1..n} : n \in 4..9}

HexLines == {Record("data", 0, <<0, 1>>), Record("data", 2, <<2>>), Record("data", 1, <<1, 2, 0>>),
             ExtLinearAddr(0), ExtLinearAddr(1), ExtLinearAddr(2),
             Record("start", 0, <<0, 0, 0, 0>>), TextLine, BlankLine}
ListingSet == {Append(s, EofRecord) : s \in UNION {[1..n -> HexLines] : n \in 0..4}}

Whole(b) == b @@ [long |-> TRUE, empty |-> FALSE, agree |-> TRUE]
Section  == Whole([kind |-> "section", little |-> TRUE])
NgBlocks == {Section, Whole([kind |-> "section", little |-> FALSE]),
             Whole([kind |-> "interface", link |-> "ether"]),
             Whole([kind |-> "interface", link |-> "wlan"]),
             Whole([kind |-> "packet", id |-> 0, data |-> "p"]),
             Whole([kind |-> "packet", id |-> 1, data |-> "q"]),
             Whole([kind |-> "other"]),
             [Whole([kind |-> "packet", id |-> 0, data |-> "r"]) EXCEPT !.agree = FALSE]}
BadBlocks == {[Whole([kind |-> "other"]) EXCEPT !.long = FALSE],
              [Whole([kind |-> "other"]) EXCEPT !.empty = TRUE]}
Captures(blocks, cuts) == {[blocks |-> b, cut |-> c] : b \in blocks, c \in cuts}
CaptureSet ==
  Captures({<<Section>> \o s : s \in UNION {[1..n -> NgBlocks] : n \in 0..4}}, {"no", "body", "trailer"})
  \cup Captures(UNION {[1..n -> NgBlocks \cup BadBlocks] : n \in 0..2},
                 {"no", "type", "length", "body", "trailer"})

PlainFiles == UNION {[1..n -> {147, 255}] : n \in 0..3}
              \cup {[k \in 1..n |-> ((k - 1) * 37) % 256] : n \in 3..7}
(* '=', '$', line feed, the first character above 'z', a byte above 127.   *)
NoiseSet == {61, 36, 10, 123, 200}

Strings(chars, n) == UNION {[1..l -> chars] : l \in 0..n}
Tuples(chars, n)  == [1..n -> chars]
JobSet ==
  {[tool |-> "bincpy", file |-> f, start |-> s, length |-> l] :
     f \in Strings({1, 2}, 3), s \in 0..4, l \in 0..5}
  \cup {[tool |-> "binedit", file |-> f, start |-> s, value |-> v] :
          f \in Strings({1, 2}, 3), s \in 0..4, v \in Strings({3, 4}, 2)}
  \cup {[tool |-> "binendian", file |-> [k \in 1..n |-> k], width |-> w] : n \in 1..9, w \in {2, 4}}
  \cup {[tool |-> "binfind", file |-> f, pattern |-> p] :
          f \in Strings({1, 2}, 6), p \in Strings({1, 2}, 4) \ {<<>>}}
  \cup {[tool |-> "bincomb", files |-> f, missing |-> <<0>>] :
          f \in UNION {[1..n -> {<<>>, <<1>>, <<1, 2>>, <<0>>}] : n \in 2..3}}
  \cup {[tool |-> "bingen", file |-> f] :
          f \in Strings({1, 12, Blank, Hash, Other, LineEnd}, 5)}
  \cup {[tool |-> "bindump", file |-> [k \in 1..n |-> k], start |-> s, length |-> l] :
          n \in 0..5, s \in -2..6, l \in -1..6}
  \cup {[tool |-> "bindiff", file |-> f, other |-> o] :
          f \in Strings({1, 2}, 5), o \in {<<>>, <<1>>, <<1, 1, 1, 1>>, <<2, 1, 2, 2, 1>>}}
  \cup {[tool |-> "binmega", megabytes |-> n, pattern |-> p] : n \in 0..5, p \in {<<>>, <<7>>}}
  \cup {[tool |-> "binxor", text1 |-> x, text2 |-> y] :
          x \in Strings({0, 9, Other}, 4), y \in {<<>>, <<15, 1>>, <<1>>, <<6, 5, 4, 3>>, <<0, 0, 1, 2, 3, 4>>}}

(* For each version and level a string that just fits and one that does    *)
(* not, and a short one for versions in and out of range.                  *)
Patterned(n) == [k \in 1..n |-> (k * 7) % 256]
QrJobSet ==
  {[string |-> Patterned(g_codewords[v][l + 1] + more), version |-> 1, level |-> l] :
     v \in 1..40, l \in 1..4, more \in {0, 1}}
  \cup {[string |-> <<104, 255>>, version |-> v, level |-> 2] : v \in {0, 5, 7, 10, 41}}

(* Packets of bytes, two on a line; texts of any characters; addresses.    *)
PacketText(bytes) ==
  FlattenSeq([k \in DOMAIN bytes |->
    <<bytes[k] \div 16, bytes[k] % 16, IF k % 2 = 0 THEN LineEnd ELSE Blank>>])
PacketsOf(lengths) == UNION {{[k \in 1..n |-> (k * 37) % 256], [k \in 1..n |-> 255],
                   [k \in 1..n |-> IF k = n THEN 1 ELSE IF k = n - 1 THEN 0 ELSE 255]} : n \in lengths}
Quads   == {<<10, Dot>>, <<1, Dot, 2, 5, 5, Dot, 0, Dot, 9>>}
Colons  == {<<Colon, Colon, 1>>, <<1, 2, 3, 4, Colon, 15, Colon, 15, 15, 15, 15>>}
Register == {{}, 0..15}
SumJobSet ==
  {[tool |-> "ip", text |-> t] : t \in Strings({1, Blank, Hash, Other, LineEnd, Return}, 5)}
  \cup {[tool |-> f, text |-> PacketText(p)] : f \in {"ip", "icmp"}, p \in PacketsOf(0..21)}
  \cup {[tool |-> f, text |-> PacketText(p), src |-> s, dst |-> d] :
          f \in {"tcp", "udp"}, p \in PacketsOf({1, 8, 18, 19, 20}), s \in Quads \cup Colons, d \in Quads \cup Colons}
  \cup {[tool |-> "udp", text |-> <<7>>, src |-> s, dst |-> <<Colon, Colon>>] :
          s \in Strings({1, 11, Colon}, 7) \cup Strings({2, 11, Dot}, 7)}
  \cup {[tool |-> "crc16", from |-> f, data |-> d, poly |-> p, init |-> i_, reflect |-> r, xout |-> x] :
          f \in {"file", "string"}, d \in Strings({Byte(49), Byte(128), Byte(7)}, 3),
          p \in {{15, 2, 0}, {12, 5, 0}}, i_ \in Register, r \in BOOLEAN, x \in Register}

(* Messages of a server: an OFFER, one cut behind its last option, one     *)
(* whose checksum is zero, options of any form at the end of the field or  *)
(* with more of them in the file and in sname.                             *)
Arp         == <<2, 0, 0, 0, 0, 1>>
Reply(xid_, area) == Message(2, xid_, <<10, 0, 0, 9>>, Arp, Put(Zeroes(OPTIONS_LEN), 0, area))
OfferArea   == <<53, 1, 2, 54, 4, 10, 0, 0, 1, 255>>
Offer       == Reply(<<1, 2, 3, 4>>, OfferArea)
ShortOffer  == SubSeq(Offer, 1, OptionsAt + Len(OfferArea))
OtherReply  == Reply(<<1, 2, 3, 4>>, <<54, 4, 10, 0, 0, 2, 1, 4, 9, 9, 9, 9, 53, 1, 6, 255>>)
Unlucky     == LET check == UdpCheck(ServerAt, SERVER_PORT, CLIENT_PORT, Reply(<<1, 2, 0, 0>>, OfferArea))
               IN  Reply(<<1, 2>> \o Two(check), OfferArea)
Tails       == {Reply(<<1, 2, 3, 4>>, <<1, OPTIONS_LEN - 7>> \o Zeroes(OPTIONS_LEN - 7) \o t) :
                  t \in [1..5 -> {0, 1, 52, 53, 255}]}
Overloaded  == {Put(Put(Reply(<<1, 2, 3, 4>>, <<52, 1, 3, 3, 0, 255>>), FileAt, f), SnameAt, <<53, 1, 2>>) :
                  f \in {<<53, 1, 2, 255>>, <<0, 0, 0, 255>>}}
NoDamage    == [at_ |-> 1, by |-> 0]
Receive(message, unchecked, damage, arrive) ==
  [kind |-> "reply", message |-> message, unchecked |-> unchecked, damage |-> damage, arrive |-> arrive,
   before |-> OtherReply, beyond |-> 255, code |-> 53]
DhcpJobSet ==
  {[kind |-> "discover", xid |-> x, arp |-> Arp] : x \in {<<1, 2, 3, 4>>, <<255, 255, 255, 255>>}}
  \cup {Receive(o, u, [at_ |-> k, by |-> b], Headers + Len(o)) :
          o \in {Offer, ShortOffer}, u \in BOOLEAN, k \in 1..Headers + MESSAGE, b \in {1, 255}}
  \cup {Receive(o, FALSE, NoDamage, l) :
          o \in {Offer, ShortOffer, Unlucky}, l \in {0, 19, 28, 60, 100, 118, 119, 120, 140}}
  \cup {[Receive(o, FALSE, NoDamage, Headers + MESSAGE) EXCEPT !.code = c, !.beyond = b] :
          o \in Tails \cup Overloaded \cup {Offer, OtherReply}, c \in {53}, b \in {1, 255}}

(* Messages of every type with a code above a byte, and one of a type that *)
(* is not known; the ID makes a sum that has to be folded twice.           *)
IcmpJobSet  == {[v |-> v, type |-> t, code |-> 257, recv |-> r] :
                  v \in {4, 6}, t \in Types4 \cup Types6 \cup {7}, r \in BOOLEAN}
IcmpPeerSet == {[type |-> t, code |-> 3] : t \in {2, 3, 5, 8, 13, 18, 129}}
IcmpBytes   == <<248, 4, 0, 0>>

(* Any short text alone, and texts of lines, comments and too many bytes,  *)
(* of no bytes or missing in files one after the other.                    *)
PacketTexts == {<<1, 2, Blank, 3, LineEnd, Hash, 4>>, <<1, 2, 3, 4, 5>>, <<1, LineEnd, 2, LineEnd, 3, LineEnd, 4>>,
                Missing, <<>>}
TextJob(tool_, files, append_) == [tool |-> tool_, files |-> files, append |-> append_, dlt |-> 150]
PacketJobSet ==
  {TextJob("raw_send", <<t>>, <<>>) : t \in Strings({1, Blank, Hash, Other, LineEnd, Return}, 3) \cup PacketTexts
                                               \cup {<<1, Blank, Hash, 2, LineEnd, 3>>}}
  \cup {TextJob(tool_, f, <<>>) : tool_ \in {"raw_send", "pcap_dlt_user"}, f \in Tuples(PacketTexts, 3)}
  \cup {TextJob("pcap_gen", f, a) :
          f \in Tuples(PacketTexts, 3), a \in {<<FALSE, TRUE, TRUE>>, <<TRUE, TRUE, FALSE>>, <<TRUE, TRUE, TRUE>>}}

(* Every program, with and without a root key or an output; the extensions *)
(* of the names; the output is new or there from before.                   *)
CertJob(tool_, a_, b_, root_) == [tool |-> tool_, a |-> a_, b |-> b_, root |-> root_]
Extensions == {"der", "pem", "other", "none"}
CertJobSet ==
  {CertJob("create_cert", f, "none", r) : f \in {"name", "none"}, r \in BOOLEAN}
  \cup {CertJob(t, "none", "none", FALSE) : t \in {"get_prikey", "verify_der", "verify_pem"}}
  \cup {CertJob("get_pubkey", x, "none", FALSE) : x \in Extensions}
  \cup {CertJob("convert_cert", x, y, FALSE) : x \in Extensions, y \in Extensions}
Older(item_) == [item |-> item_, of |-> "old"]
OldFileSet == {[pem |-> <<>>, der |-> <<>>],
               [pem |-> <<Older("key"), Older("cert")>>, der |-> <<Older("cert")>>],
               [pem |-> <<Older("key")>>, der |-> <<>>],
               [pem |-> <<Older("cert")>>, der |-> <<Older("cert")>>],
               [pem |-> <<[Older("key") EXCEPT !.of = "older"], Older("cert")>>, der |-> <<Older("cert")>>]}

(* MD5 of every length about the ends of a block and of the count, and of  *)
(* files that changed; every entry of the table of CRC-32.                 *)
DigestJob(tool_, from_, data, size) == [tool |-> tool_, from |-> from_, data |-> data, size |-> size]
Ramp(n) == [k \in 1..n |-> (k * 37) % 256]
DigestJobSet ==
  {DigestJob("md5", "string", Ramp(n), n) : n \in 0..70}
  \cup {DigestJob("md5", "file", Ramp(n), n + d) : n \in 1..70, d \in {-1, 0, 1}}
  \cup {DigestJob("crc32", "file", <<b>>, 1) : b \in 0..255}
  \cup {DigestJob("crc32", f, Ramp(n), n) : f \in {"file", "string"}, n \in 0..6}
  \cup {DigestJob("crc32", "file", Ramp(4), n) : n \in 3..5}

(* Hosts of both byte orders and both sizes of a long; UUIDs that differ   *)
(* in some of their fields.                                                *)
Host(little, long) == [little |-> little, long |-> long]
UuidOf(low, mid, hi, clock_, node_) ==
  [time_low |-> low, time_mid |-> mid, time_hi_and_version |-> hi, clock_seq |-> clock_, node |-> node_]
NameSpaceDNS(long) == UuidOf(Zeroes(long - 4) \o <<107, 167, 184, 16>>, <<157, 173>>, <<17, 209>>,
                             <<128, 180>>, <<0, 192, 79, 212, 48, 200>>)
Fours(b) == <<b, b, b, b>>
FewUuids == {UuidOf(<<0, 0, 0, a>>, <<0, b>>, <<c, 0>>, <<d, e>>, <<0, 0, 0, f, 0, 0>>) :
               a \in {0, 1}, b \in {0, 1}, c \in {0, 128}, d \in {0, 1}, e \in {0, 255}, f \in {0, 200}}
NameJobSet ==
  UNION {{[call |-> "create", host |-> Host(little, long), version |-> v, nsid |-> NameSpaceDNS(long),
           name |-> n, padding |-> p, behind |-> b] :
            little \in BOOLEAN, v \in {3, 5}, n \in {<<>>, <<119>>, <<119, 105>>},
            p \in {Fours(0), Fours(255)}, b \in {Fours(0), Fours(1)}} : long \in {4, 8}}
  \cup {[call |-> "compare", host |-> Host(TRUE, 4), u1 |-> a, u2 |-> b] : a \in FewUuids, b \in FewUuids}
-----------------------------------------------------------------------------
HexIdle == /\ hexPc = "done" /\ bin = <<>> /\ mcs = <<>> /\ written = FALSE /\ damaged = FALSE
           /\ i = 0 /\ j = 0 /\ addrExt = 0 /\ remainSize = 0 /\ lineCount = 0
           /\ binBuff = EmptyBuff /\ binLen = 0 /\ addrInit = 0 /\ addrNext = 0 /\ image = <<>>
NgIdle == /\ ngPc = "exit" /\ ngFile = [blocks |-> <<>>, cut |-> "no"] /\ blockNum = 0
          /\ g_ifLinkType = <<>> /\ firstPacket = TRUE /\ pcap = <<>>
B64Idle == /\ b64Pc = "done" /\ plain = <<>> /\ linesize = 4 /\ inAt = 0 /\ blocksout = 0
           /\ text = <<>> /\ noise = 0 /\ decoded = <<>>

BinIdle == /\ binPc = "done" /\ job = [tool |-> "bincomb", files |-> <<>>, missing |-> <<0>>]
           /\ at = 0 /\ pos = 0 /\ eof = FALSE /\ acc = <<>> /\ next = 0 /\ matched = FALSE
           /\ offset = 0 /\ out = <<>>

QrIdle == qrPc = "spins" /\ qrJob = [string |-> <<>>, version |-> 1, level |-> 1] /\ QrRest
SumIdle == /\ sumPc = "refused" /\ sumJob = [tool |-> "ip", text |-> <<>>] /\ textAt = 0
           /\ textEnd = FALSE /\ line = <<>> /\ pBuf = <<>> /\ crc = {} /\ csum = -1
DhcpIdle == /\ dpPc = "unsent" /\ dpJob = [kind |-> "discover", xid |-> Zeroes(4), arp |-> Arp]
            /\ options = <<>> /\ wire = <<>> /\ payload = <<>> /\ field = "options"
            /\ optAt = 0 /\ over = 0 /\ pointer = -1

IcmpIdle == /\ icPc = "exit" /\ icJob = [v |-> 4, type |-> 7, code |-> 257, recv |-> FALSE]
            /\ txBuff = <<>> /\ arrived = <<>> /\ said = <<>> /\ told = Nothing
TextIdle == /\ tpPc = "done" /\ tpJob = TextJob("raw_send", <<>>, <<>>) /\ fileNo = 1 /\ tpAt = 0
            /\ tpLine = <<>> /\ converted = 0 /\ tpBuf = <<>> /\ output = <<>> /\ transmitted = 0
CertIdle == /\ ceEnd = "crashed" /\ ceJob = CertJob("get_pubkey", "none", "none", FALSE) /\ ceAt = 1
            /\ ptr = {} /\ alive = {} /\ misused = FALSE /\ pemFile = <<>> /\ derFile = <<>>
            /\ full = FALSE /\ missed = {}

DigestIdle == /\ dgPc = "refused" /\ dgJob = DigestJob("md5", "file", <<>>, 0) /\ dgAt = 0
              /\ md5 = NoDigest /\ crc32 = Ones
NamesIdle == /\ nmPc = "returned" /\ nmJob = [call |-> "none"] /\ hash = <<>>
             /\ uuid = NoUuid /\ verdict = 2

Lanes == {"hex", "ng", "b64", "bin", "qr", "sum", "dhcp", "icmp", "text", "cert", "digest", "name"}
ToolsInit == \E lane \in Lanes :
  /\ IF lane = "hex" THEN HexInit ELSE HexIdle
  /\ IF lane = "ng" THEN NgInit ELSE NgIdle
  /\ IF lane = "b64" THEN B64Init ELSE B64Idle
  /\ IF lane = "bin" THEN BinInit ELSE BinIdle
  /\ IF lane = "qr" THEN QrInit ELSE QrIdle
  /\ IF lane = "sum" THEN SumInit ELSE SumIdle
  /\ IF lane = "dhcp" THEN DhcpInit ELSE DhcpIdle
  /\ IF lane = "icmp" THEN IcmpInit ELSE IcmpIdle
  /\ IF lane = "text" THEN TextInit ELSE TextIdle
  /\ IF lane = "cert" THEN CertInit ELSE CertIdle
  /\ IF lane = "digest" THEN DigestInit ELSE DigestIdle
  /\ IF lane = "name" THEN NamesInit ELSE NamesIdle

ToolsVars == <<hexVars, ngVars, b64Vars, binVars, qrVars, sumVars, dpVars, icVars,
               tpVars, ceVars, dgVars, nmVars>>

ToolsNext == \/ HexNext    /\ UNCHANGED <<ngVars, b64Vars, binVars, qrVars, sumVars, dpVars, icVars, tpVars, ceVars, dgVars, nmVars>>
             \/ NgNext     /\ UNCHANGED <<hexVars, b64Vars, binVars, qrVars, sumVars, dpVars, icVars, tpVars, ceVars, dgVars, nmVars>>
             \/ B64Next    /\ UNCHANGED <<hexVars, ngVars, binVars, qrVars, sumVars, dpVars, icVars, tpVars, ceVars, dgVars, nmVars>>
             \/ BinNext    /\ UNCHANGED <<hexVars, ngVars, b64Vars, qrVars, sumVars, dpVars, icVars, tpVars, ceVars, dgVars, nmVars>>
             \/ QrNext     /\ UNCHANGED <<hexVars, ngVars, b64Vars, binVars, sumVars, dpVars, icVars, tpVars, ceVars, dgVars, nmVars>>
             \/ SumNext    /\ UNCHANGED <<hexVars, ngVars, b64Vars, binVars, qrVars, dpVars, icVars, tpVars, ceVars, dgVars, nmVars>>
             \/ DhcpNext   /\ UNCHANGED <<hexVars, ngVars, b64Vars, binVars, qrVars, sumVars, icVars, tpVars, ceVars, dgVars, nmVars>>
             \/ IcmpNext   /\ UNCHANGED <<hexVars, ngVars, b64Vars, binVars, qrVars, sumVars, dpVars, tpVars, ceVars, dgVars, nmVars>>
             \/ TextNext   /\ UNCHANGED <<hexVars, ngVars, b64Vars, binVars, qrVars, sumVars, dpVars, icVars, ceVars, dgVars, nmVars>>
             \/ CertNext   /\ UNCHANGED <<hexVars, ngVars, b64Vars, binVars, qrVars, sumVars, dpVars, icVars, tpVars, dgVars, nmVars>>
             \/ DigestNext /\ UNCHANGED <<hexVars, ngVars, b64Vars, binVars, qrVars, sumVars, dpVars, icVars, tpVars, ceVars, nmVars>>
             \/ NamesNext  /\ UNCHANGED <<hexVars, ngVars, b64Vars, binVars, qrVars, sumVars, dpVars, icVars, tpVars, ceVars, dgVars>>

ToolsSpec == ToolsInit /\ [][ToolsNext]_ToolsVars

(* The variables of all tools have their types.                            *)
ToolsTypeOK == HexTypeOK /\ NgTypeOK /\ B64TypeOK /\ BinTypeOK /\ QrTypeOK
               /\ SumTypeOK /\ DhcpTypeOK /\ IcmpTypeOK /\ TextTypeOK /\ CertTypeOK
               /\ DigestTypeOK /\ NamesTypeOK

(* What is sent is what its standard says, and what is told of a message   *)
(* is what its sender meant: DHCP (dhcp_packet.c:104-397,                  *)
(* dhcp_options.c:33-181) and ICMP of both versions (icmp.c:95-331,        *)
(* icmpv6.c:104-345).                                                      *)
MessagesAreTrue == DhcpIsTrue /\ IcmpIsTrue

(* The converters of files: mcs2bin undoes bin2mcs, whatever byte of a     *)
(* record changes on the way but its ':', and writes what the records of   *)
(* any orderly listing say (intel_hex.c); a pcap file has the packets of   *)
(* its pcapng file (pcapng_to_pcap.c).                                     *)
ConvertersAreTrue == RestoresFile /\ ImageIsExact /\ PacketsAreKept

(* However the bytes come and whatever host takes them: digests are those  *)
(* of their standards (md5.c, crc32.c), and so are the UUIDs made from     *)
(* names where a long has four bytes; the order of UUIDs is that of their  *)
(* print (uuid.c:188-269).                                                 *)
DigestsAreTrue == DigestIsTrue /\ NamesAreStable /\ OrderIsLexical

(* What is read of a text arrives in the output: decoding undoes encoding, *)
(* whatever characters are strewn in (base64.c), packets have the bytes of *)
(* their texts (pcap/util.c, raw_send.c), files those of their numbers     *)
(* (bingen.c, binxor.c).                                                   *)
TextsAreTrue == DecodesNoise /\ TextIsTrue /\ NumbersAreExact

(* A symbol is of the smallest version that holds the string, and an       *)
(* independent reader finds the string in it (qrcode/encode.c, format.c).  *)
SymbolIsRead == QrReadable /\ VersionFits
=============================================================================
