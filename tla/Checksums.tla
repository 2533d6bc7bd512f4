----------------------------- MODULE Checksums ------------------------------
(***************************************************************************)
(* The checksum tools: ip_csum, icmp_csum, tcp_csum and udp_csum, which    *)
(* read the HEX bytes of a packet from a text line by line and token by    *)
(* token, put a pseudo header before it and add up words; and crc16_csum.  *)
(***************************************************************************)
EXTENDS Integers, Sequences, FiniteSets, SequencesExt, Bytes

CONSTANTS
  SumJobs,        \* the calls: [tool, text], with src and dst for tcp and udp;
                  \* for crc16 [tool, from, data, poly, init, reflect, xout]
  LINE_SIZE,      \* size of the line buffer, 1023
  HEADER_MAX,     \* bytes ip_csum takes into an array of this size, 60
  PACKET_MAX,     \* bytes the others take into an array of one more, 1499
  NS_IN6ADDRSZ    \* bytes of an IPv6 address, 16

ASSUME SumConstantsOK ==
  /\ LINE_SIZE \in Nat \ {0, 1} /\ HEADER_MAX \in Nat /\ HEADER_MAX % 2 = 0
  /\ PACKET_MAX \in 1..65534 /\ PACKET_MAX % 2 = 1
  /\ NS_IN6ADDRSZ \in Nat \ {0} /\ NS_IN6ADDRSZ % 2 = 0

VARIABLES
  sumPc,      \* what is done next
  sumJob,     \* the call
  textAt,     \* characters, or bytes for the CRC, that were read
  textEnd,    \* feof of the text
  line,       \* the rest of the line after pNext
  pBuf,       \* the bytes of the packet
  crc,        \* the register of crc16
  csum        \* what is printed

sumVars == <<sumPc, sumJob, textAt, textEnd, line, pBuf, crc, csum>>

(* The version of IP follows from the first '.' or ':' of the source.      *)
Family(address) ==
  LET marks == SelectSeq(address, LAMBDA c : c \in {Dot, Colon})
  IN  IF marks = <<>> THEN 0 ELSE IF marks[1] = Dot THEN 4 ELSE 6

Refused(call) == CASE call.tool \in {"ip", "icmp"} -> FALSE
                   [] call.tool \in {"tcp", "udp"} -> Family(call.src) = 0
                   [] call.tool = "crc16" -> call.from = "file" /\ call.data = <<>>

SumInit ==
  /\ sumJob \in SumJobs /\ textAt = 0 /\ textEnd = FALSE /\ line = <<>> /\ pBuf = <<>>
  /\ crc = IF sumJob.tool = "crc16" THEN sumJob.init ELSE {}
  /\ csum = -1
  /\ sumPc = IF Refused(sumJob) THEN "refused"
             ELSE IF sumJob.tool = "crc16" THEN "crc" ELSE "read"
-----------------------------------------------------------------------------
(* The text. *)

(* fgets takes LINE_SIZE - 1 characters at most, the line feed with them.  *)
Taken ==
  LET room == Min({LINE_SIZE - 1, Len(sumJob.text) - textAt})
      ends == {k \in 1..room : sumJob.text[textAt + k] = LineEnd}
  IN  SubSeq(sumJob.text, textAt + 1, textAt + IF ends = {} THEN room ELSE Min(ends))

Without(c, chars) == IF chars # <<>> /\ Last(chars) = c THEN Front(chars) ELSE chars

parse_line ==
  /\ sumPc = "read" /\ ~textEnd
  /\ textAt' = textAt + Len(Taken)
  /\ textEnd' = (Len(Taken) < LINE_SIZE - 1 /\ (Taken = <<>> \/ Last(Taken) # LineEnd))
  /\ line' = Without(Return, Without(LineEnd, Taken))
  /\ sumPc' = IF line' = <<>> THEN "read" ELSE "token"
  /\ UNCHANGED <<sumJob, pBuf, crc, csum>>

EndOfText == sumPc = "read" /\ textEnd /\ sumPc' = "sum"
             /\ UNCHANGED <<sumJob, textAt, textEnd, line, pBuf, crc, csum>>

(* The first token of the line and what stands behind it.                  *)
TokenStart == Min({k \in DOMAIN line : line[k] # Blank} \cup {Len(line) + 1})
TokenEnd   == Min({k \in TokenStart..Len(line) : line[k] = Blank} \cup {Len(line) + 1})
Token      == SubSeq(line, TokenStart, TokenEnd - 1)
Rest       == SubSeq(line, TokenEnd, Len(line))

hex2dec(c)  == IF c < 16 THEN c ELSE 0
TokenByte   == IF Len(Token) > 1 THEN hex2dec(Token[1]) * 16 + hex2dec(Token[2]) ELSE hex2dec(Token[1])
NothingMore == \A k \in DOMAIN Token : Token[1] = Hash
BufSize     == IF sumJob.tool = "ip" THEN HEADER_MAX ELSE PACKET_MAX
Full        == Len(pBuf) >= BufSize
TooLong     == Len(Token) > 2

(* A token that is too long, or one too many, ends the text: what was read *)
(* before it is summed up.                                                 *)
parse_token ==
  /\ sumPc = "token"
  /\ \/ NothingMore /\ sumPc' = "read" /\ UNCHANGED <<pBuf, line>>
     \/ ~NothingMore /\ (Full \/ TooLong) /\ sumPc' = "sum" /\ UNCHANGED <<pBuf, line>>
     \/ ~NothingMore /\ ~Full /\ ~TooLong
        /\ pBuf' = Append(pBuf, TokenByte) /\ line' = Rest /\ UNCHANGED sumPc
  /\ UNCHANGED <<sumJob, textAt, textEnd, crc, csum>>
-----------------------------------------------------------------------------
(* Addresses. *)

(* sscanf with "%u.%u.%u.%u": the numbers up to the first that is missing. *)
Scanned(address) ==
  LET last(k)  == Min({l \in k..Len(address) : address[l] > 9} \cup {Len(address) + 1}) - 1
      number[l \in 0..Len(address), k \in 1..Len(address)] ==
        IF l < k THEN 0 ELSE 10 * number[l - 1, k] + address[l]
      from[n \in 1..5, k \in 1..Len(address) + 2] ==
        IF n = 5 \/ k > Len(address) \/ last(k) < k THEN <<>>
        ELSE <<number[last(k), k] % 256>>
               \o IF last(k) < Len(address) /\ address[last(k) + 1] = Dot
                  THEN from[n + 1, last(k) + 2] ELSE <<>>
  IN  from[1, 1]

(* parseIpv6Str, character by character: tmp has the groups so far, colonp *)
(* is their length where "::" was seen, or -1.                             *)
Failed(s)  == [s EXCEPT !.failed = TRUE]
NoRoom(s)  == Len(s.tmp) + 2 > NS_IN6ADDRSZ
Stored(s)  == [s EXCEPT !.tmp = @ \o Two(s.val), !.seen = 0, !.val = 0]
(* Mutant: a second "::" is not noticed.                                   *)
SecondGap(s) == [s EXCEPT !.colonp = Len(s.tmp)]
Gap(s)     == IF s.colonp # -1 THEN Failed(s) ELSE [s EXCEPT !.colonp = Len(s.tmp)]
Scan(s, ch, isLast) ==
  CASE s.failed -> s
    [] ch < 16  -> [s EXCEPT !.val = 16 * @ + ch, !.seen = @ + 1,
                            !.failed = (s.seen = 4)]
    [] ch = Colon /\ s.seen = 0 -> Gap(s)
    [] ch = Colon /\ s.seen > 0 -> IF isLast \/ NoRoom(s) THEN Failed(s) ELSE Stored(s)
    [] OTHER -> Failed(s)

parseIpv6Str(address) ==
  LET leading  == address # <<>> /\ address[1] = Colon
      start    == [tmp |-> <<>>, val |-> 0, seen |-> 0, colonp |-> -1,
                   failed |-> leading /\ (Len(address) = 1 \/ address[2] # Colon)]
      after[k \in 0..Len(address)] ==
        IF k = 0 \/ (k = 1 /\ leading) THEN start
        ELSE Scan(after[k - 1], address[k], k = Len(address))
      end      == after[Len(address)]
      all      == IF end.seen > 0 THEN Stored(end) ELSE end
      missing  == NS_IN6ADDRSZ - Len(all.tmp)
      bad      == end.failed \/ missing < 0 \/ (all.colonp = -1 /\ missing # 0)
                    \/ (all.colonp # -1 /\ missing = 0)
  IN  IF bad THEN Zeroes(NS_IN6ADDRSZ)
      ELSE IF all.colonp = -1 THEN all.tmp
      ELSE SubSeq(all.tmp, 1, all.colonp) \o Zeroes(missing)
             \o SubSeq(all.tmp, all.colonp + 1, Len(all.tmp))

(* What a failing conversion leaves in the static g_pseudoIp is zero; no   *)
(* caller looks at the result.                                             *)
str2ip(version, address) ==
  IF version = 6 THEN parseIpv6Str(address)
  ELSE [k \in 1..4 |-> IF k <= Len(Scanned(address)) THEN Scanned(address)[k] ELSE 0]

Protocol == IF sumJob.tool = "tcp" THEN 6 ELSE 17
PseudoIp ==
  LET version == Family(sumJob.src)
      ends    == str2ip(version, sumJob.src) \o str2ip(version, sumJob.dst)
  IN  IF version = 4 THEN ends \o <<0, Protocol>> \o Two(Len(pBuf))
      ELSE ends \o <<0, 0>> \o Two(Len(pBuf)) \o <<0, 0, 0, Protocol>>
-----------------------------------------------------------------------------
(* The sum. *)

EvenLength(bytes) == IF Len(bytes) % 2 = 1 THEN Append(bytes, 0) ELSE bytes
Ignored == CASE sumJob.tool = "ip" -> 10 [] sumJob.tool = "icmp" -> 2
             [] sumJob.tool = "tcp" -> 16 [] sumJob.tool = "udp" -> 6
Word(bytes, k) == bytes[k + 1] * 256 + bytes[k + 2]
Offsets(bytes) == {k \in 0..Len(bytes) - 1 : k % 2 = 0}

WordSum(hdr, data, ignore) ==
  MapThenSumSet(LAMBDA k : Word(hdr, k), Offsets(hdr))
    + MapThenSumSet(LAMBDA k : Word(data, k), Offsets(data) \ {ignore})
(* Folded once: a second carry is lost.                                    *)
onec(hdr, data, ignore) ==
  LET sum == WordSum(hdr, data, ignore)
  IN  65535 - (((sum % 65536) + (sum \div 65536)) % 65536)

SumUp ==
  /\ sumPc = "sum"
  /\ csum' = onec(IF sumJob.tool \in {"tcp", "udp"} THEN PseudoIp ELSE <<>>, EvenLength(pBuf), Ignored)
  /\ sumPc' = "done"
  /\ UNCHANGED <<sumJob, textAt, textEnd, line, pBuf, crc>>

(* The CRC register, bit by bit from the highest of each byte.             *)
Mirrored(bits, top) == {top - k : k \in bits}
CrcBit(register, one) ==
  LET shifted == {k + 1 : k \in register \ {15}}
      once    == IF 15 \in register THEN Xor(shifted, sumJob.poly) ELSE shifted
  IN  IF one THEN Xor(once, sumJob.poly) ELSE once

CrcByte ==
  /\ sumPc = "crc" /\ textAt < Len(sumJob.data)
  /\ LET byte == sumJob.data[textAt + 1]
         in   == IF sumJob.reflect THEN Mirrored(byte, 7) ELSE byte
         after[j \in 0..8] == IF j = 8 THEN crc ELSE CrcBit(after[j + 1], j \in in)
     IN  crc' = after[0]
  /\ textAt' = textAt + 1
  /\ UNCHANGED <<sumPc, sumJob, textEnd, line, pBuf, csum>>

CrcEnd ==
  /\ sumPc = "crc" /\ textAt = Len(sumJob.data)
  /\ crc' = Xor(IF sumJob.reflect THEN Mirrored(crc, 15) ELSE crc, sumJob.xout)
  /\ sumPc' = "done"
  /\ UNCHANGED <<sumJob, textAt, textEnd, line, pBuf, csum>>

SumNext == parse_line \/ EndOfText \/ parse_token \/ SumUp \/ CrcByte \/ CrcEnd

SumSpec == SumInit /\ [][SumNext]_sumVars
-----------------------------------------------------------------------------
(* Properties. *)

SumTypeOK ==
  /\ sumPc \in {"read", "token", "sum", "crc", "done", "refused"}
  /\ textAt \in Nat /\ textEnd \in BOOLEAN /\ crc \subseteq 0..15
  /\ pBuf \in Seq(0..255) /\ csum \in -1..65535
  /\ Len(line) < LINE_SIZE
(* A set of numbers in order.                                              *)
Ascending(S) == [n \in 1..Cardinality(S) |-> CHOOSE x \in S : Cardinality({y \in S : y < x}) = n - 1]

(* The bytes a text means: its runs of characters that are not in a        *)
(* comment, up to the first that is too long.                              *)
Text == sumJob.text
Parted(k) == \/ k \notin DOMAIN Text
             \/ Text[k] \in {Blank, LineEnd}
             \/ Text[k] = Return /\ (k = Len(Text) \/ Text[k + 1] = LineEnd)
RunStarts    == {k \in DOMAIN Text : ~Parted(k) /\ Parted(k - 1)}
RunEnd(k)    == CHOOSE l \in k..Len(Text) : Parted(l + 1) /\ \A h \in k..l : ~Parted(h)
Commented(k) == \E h \in RunStarts : h <= k /\ Text[h] = Hash /\ LineEnd \notin {Text[l] : l \in h..k}
DataRuns     == Ascending({k \in RunStarts : ~Commented(k)})
BytesMeant ==
  LET bad   == {n \in DOMAIN DataRuns : RunEnd(DataRuns[n]) > DataRuns[n] + 1}
      count == Min({BufSize, Len(DataRuns)} \cup {n - 1 : n \in bad})
      digit(k) == IF Text[k] < 16 THEN Text[k] ELSE 0
  IN  [n \in 1..count |-> LET k == DataRuns[n]
                          IN  IF RunEnd(k) = k THEN digit(k) ELSE digit(k) * 16 + digit(k + 1)]
(* A line that fgets takes in one piece.                                   *)
LinesFit == \A k \in 1..Len(Text) - LINE_SIZE + 1 :
              \E l \in k..k + LINE_SIZE - 1 : Text[l] = LineEnd

(* The groups of a text without "::": the empty sequence for the empty     *)
(* text, <<-1>> if it is none.                                             *)
Groups(text) ==
  LET ends   == {0, Len(text) + 1} \cup {k \in DOMAIN text : text[k] = Colon}
      sorted == Ascending(ends)
      size(n)  == sorted[n + 1] - sorted[n] - 1
      value(n) == MapThenSumSet(LAMBDA d : text[sorted[n + 1] - 1 - d] * 16^d, 0..size(n) - 1)
  IN  IF text = <<>> THEN <<>>
      ELSE IF \A k \in DOMAIN text : text[k] < 16 \/ text[k] = Colon
      THEN IF \A n \in 1..Len(sorted) - 1 : size(n) \in 1..4
           THEN [n \in 1..Len(sorted) - 1 |-> value(n)] ELSE <<-1>>
      ELSE <<-1>>

(* The address a text denotes, all zero if it denotes none: "::" stands    *)
(* for one or more groups of zeros and occurs once at most.                *)
Denoted(text) ==
  LET N      == NS_IN6ADDRSZ \div 2
      gaps   == {k \in 1..Len(text) - 1 : text[k] = Colon /\ text[k + 1] = Colon}
      gap    == CHOOSE k \in gaps : TRUE
      left   == Groups(SubSeq(text, 1, gap - 1))
      right  == Groups(SubSeq(text, gap + 2, Len(text)))
      groups == IF gaps = {} THEN Groups(text)
                ELSE left \o Zeroes(N - Len(left) - Len(right)) \o right
      good   == /\ Cardinality(gaps) <= 1 /\ Len(groups) = N /\ -1 \notin Range(groups)
                /\ gaps # {} => Len(left) + Len(right) < N
  IN  IF good THEN [k \in 1..NS_IN6ADDRSZ |-> Two(groups[(k + 1) \div 2])[2 - (k % 2)]]
      ELSE Zeroes(NS_IN6ADDRSZ)

(* The number of a dotted quad.                                            *)
QuadMeans(text, bytes) ==
  LET sorted == Ascending({0, Len(text) + 1} \cup {k \in DOMAIN text : text[k] = Dot})
      part(n) == SubSeq(text, sorted[n] + 1, sorted[n + 1] - 1)
  IN  (Len(sorted) = 5 /\ \A n \in 1..4 : part(n) # <<>> /\ Range(part(n)) \subseteq 0..9) =>
        \A n \in 1..4 :
          bytes[n] = MapThenSumSet(LAMBDA k : part(n)[k] * 10^(Len(part(n)) - k), DOMAIN part(n)) % 256

(* The remainder of the data as a polynomial, behind the initial value.    *)
CrcMeant ==
  LET n     == Len(sumJob.data)
      at(k) == IF sumJob.reflect THEN 7 - k ELSE k
      sent  == UNION {{8 * (n - p) + at(k) + 16 : k \in sumJob.data[p]} : p \in 1..n}
      first == {8 * n + k : k \in sumJob.init}
      rest  == Remainder(Xor(sent, first), sumJob.poly \cup {16}, 16, 8 * n + 15)
  IN  Xor(IF sumJob.reflect THEN {15 - k : k \in rest} ELSE rest, sumJob.xout)

(* What a tool prints is right for whoever checks it.  The bytes are those *)
(* the text means, with comments, empty lines and both ends of line; the   *)
(* byte that makes their number even is inside the array; the addresses    *)
(* are those their text denotes, and the words and the printed checksum    *)
(* add up to zero, or to one where folding the sum carries a second time;  *)
(* the CRC is the remainder.  Lines longer than the buffer are left out.   *)
SumsVerify ==
  (sumPc = "done" /\ sumJob.tool = "crc16" => crc = CrcMeant) /\
  (sumPc = "done" /\ sumJob.tool # "crc16" /\ LinesFit =>
    LET two     == sumJob.tool \in {"tcp", "udp"}
        version == Family(sumJob.src)
        packet  == BytesMeant
        pseudo  == IF two THEN PseudoIp ELSE <<>>
        total   == Weighted(pseudo, {}) + Weighted(packet, {Ignored + 1, Ignored + 2})
        carries == (total % 65536) + (total \div 65536) > 65535
    IN  /\ pBuf = packet
        /\ Len(EvenLength(pBuf)) <= (IF sumJob.tool = "ip" THEN HEADER_MAX ELSE PACKET_MAX + 1)
        /\ (total + csum) % 65535 = (IF carries THEN 1 ELSE 0)
        /\ two /\ version = 6 =>
             pseudo = Denoted(sumJob.src) \o Denoted(sumJob.dst)
                        \o <<0, 0>> \o Two(Len(packet)) \o <<0, 0, 0, Protocol>>
        /\ two /\ version = 4 =>
             /\ QuadMeans(sumJob.src, SubSeq(pseudo, 1, 4))
             /\ QuadMeans(sumJob.dst, SubSeq(pseudo, 5, 8))
             /\ SubSeq(pseudo, 9, 12) = <<0, Protocol>> \o Two(Len(packet)))
=============================================================================
