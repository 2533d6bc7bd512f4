------------------------------ MODULE IntelHex ------------------------------
(***************************************************************************)
(* The converter intel_hex/intel_hex.c: bin2mcs writes a binary file as    *)
(* Intel HEX records, one 64 KiB segment after the other, and mcs2bin      *)
(* builds the binary file again in a buffer of one segment.  The model     *)
(* runs mcs2bin on what bin2mcs wrote, with or without a byte of it that   *)
(* changed on the way, and on listings of any origin.                      *)
(*                                                                         *)
(* A line is a record of its fields; the two HEX digits per byte are left  *)
(* out, the checksum is not.                                               *)
(***************************************************************************)
EXTENDS Integers, Sequences, SequencesExt

CONSTANTS
  HEX_BYTE,     \* values of a byte, 256 in the code
  SEGMENT,      \* bytes a record can address, 0x10000 in the code
  BLOCK,        \* bytes in a record, 16 in the code
  HexFiles,     \* files given to bin2mcs
  Listings      \* listings given to mcs2bin that bin2mcs did not write

EMPTY_BYTE == HEX_BYTE - 1
WORD32     == HEX_BYTE * HEX_BYTE * SEGMENT

(* Lines.  "text" is a line without a colon, "blank" an empty one; 6       *)
(* stands for every type the code does not know.                           *)
TypeCode == [data |-> 0, eof |-> 1, segment |-> 2, start |-> 3, linear |-> 4,
             unknown |-> 6]
BlankLine  == [type |-> "blank"]
TextLine   == [type |-> "text"]
Records    == [type : DOMAIN TypeCode, len : 0..HEX_BYTE - 1, addr : 0..SEGMENT - 1,
               data : Seq(0..HEX_BYTE - 1), csum : 0..HEX_BYTE - 1]

(* The size of a file is an int in the code, so that it fits 32 bits.      *)
ASSUME HexConstantsOK ==
  /\ HEX_BYTE \in Nat /\ HEX_BYTE > 6 /\ BLOCK \in Nat \ {0} /\ BLOCK + 1 < HEX_BYTE
  /\ SEGMENT \in Nat \ {0} /\ SEGMENT % BLOCK = 0 /\ SEGMENT <= HEX_BYTE * HEX_BYTE
  /\ \A file \in HexFiles : file \in Seq(0..HEX_BYTE - 1) /\ Len(file) <= WORD32
  /\ \A list \in Listings : list \in Seq({BlankLine, TextLine} \cup Records)

DataSum(data) == LET total[k \in 0..Len(data)] == IF k = 0 THEN 0 ELSE total[k - 1] + data[k]
                 IN  total[Len(data)]
Sum8(line) == (line.len + (line.addr \div HEX_BYTE) + (line.addr % HEX_BYTE)
                 + TypeCode[line.type] + DataSum(line.data)) % HEX_BYTE

Record(type, addr, data) ==
  LET line == [type |-> type, len |-> Len(data), addr |-> addr, data |-> data, csum |-> 0]
  IN  [line EXCEPT !.csum = (HEX_BYTE - Sum8(line)) % HEX_BYTE]

ExtLinearAddr(addr) == Record("linear", 0, <<addr \div HEX_BYTE, addr % HEX_BYTE>>)
EofRecord  == Record("eof", 0, <<>>)

VARIABLES
  hexPc,      \* "bin2mcs", "written", "mcs2bin" or "done"
  bin,        \* the binary file
  mcs,        \* the lines of the listing
  written,    \* is every line, but for a damaged one, what bin2mcs wrote?
  damaged,    \* was a record damaged since?
  i, j,       \* bin2mcs: place in the file and in the segment
  addrExt,    \* bin2mcs: the next segment
  remainSize, \* bin2mcs: bytes to be written
  lineCount,  \* mcs2bin: lines that were read
  binBuff,    \* mcs2bin: the segment
  binLen,     \* mcs2bin: bytes of it that are written at its end
  addrInit,   \* mcs2bin: address of the segment
  addrNext,   \* mcs2bin: address behind the last data
  image       \* the file mcs2bin writes

packVars   == <<i, j, addrExt, remainSize>>
unpackVars == <<lineCount, binBuff, binLen, addrInit, addrNext, image>>
hexVars    == <<hexPc, bin, mcs, written, damaged, packVars, unpackVars>>

EmptyBuff == [a \in 0..SEGMENT - 1 |-> EMPTY_BYTE]

(* bin2mcs opens with the record of segment 0, but writes nothing for an   *)
(* empty file.                                                             *)
PackInit ==
  /\ bin \in HexFiles /\ written = TRUE
  /\ i = 0 /\ j = 0 /\ remainSize = Len(bin)
  /\ IF bin = <<>> THEN hexPc = "written" /\ mcs = <<>> /\ addrExt = 0
                   ELSE hexPc = "bin2mcs" /\ mcs = <<ExtLinearAddr(0)>> /\ addrExt = 1

ListingInit ==
  /\ bin = <<>> /\ written = FALSE /\ mcs \in Listings /\ hexPc = "mcs2bin"
  /\ i = 0 /\ j = 0 /\ remainSize = 0 /\ addrExt = 0

HexInit ==
  /\ PackInit \/ ListingInit
  /\ damaged = FALSE /\ lineCount = 0 /\ binBuff = EmptyBuff /\ binLen = 0
  /\ addrInit = 0 /\ addrNext = 0 /\ image = <<>>
-----------------------------------------------------------------------------
(* bin2mcs, one turn of its loop and the record behind it. *)

SegmentFull(at) == at > SEGMENT - 1
BlockSize(rest) == IF rest < BLOCK THEN rest ELSE BLOCK

WriteRecord ==
  /\ hexPc = "bin2mcs" /\ i < Len(bin)
  /\ LET at    == IF SegmentFull(j) THEN 0 ELSE j
         block == BlockSize(remainSize)
     IN  /\ mcs' = mcs \o (IF SegmentFull(j) THEN <<ExtLinearAddr(addrExt)>> ELSE <<>>)
                       \o <<Record("data", at, SubSeq(bin, i + 1, i + block))>>
         /\ j' = at + BLOCK
         /\ remainSize' = IF remainSize < BLOCK THEN remainSize ELSE remainSize - BLOCK
  /\ addrExt' = IF SegmentFull(j) THEN addrExt + 1 ELSE addrExt
  /\ i' = i + BLOCK
  /\ UNCHANGED <<hexPc, bin, written, damaged, unpackVars>>

WriteEof ==
  /\ hexPc = "bin2mcs" /\ i >= Len(bin)
  /\ mcs' = Append(mcs, EofRecord) /\ hexPc' = "written"
  /\ UNCHANGED <<bin, written, damaged, packVars, unpackVars>>

(* What may happen to the listing before it is read: one of its bytes      *)
(* changes.  In a record that is any byte behind the ':'; a digit that     *)
(* turns into another character counts as a 0, or, if it ends the line, as *)
(* a record too short for its length.                                      *)
Altered(line) ==
  {[line EXCEPT !.csum = b] : b \in (0..HEX_BYTE - 1) \ {line.csum}}
  \cup {[line EXCEPT !.len = n] : n \in (0..HEX_BYTE - 1) \ {line.len}}
  \cup {[line EXCEPT !.type = t] : t \in DOMAIN TypeCode \ {line.type}}
  \cup {[line EXCEPT !.addr = a] :
         a \in {b \in (0..SEGMENT - 1) \ {line.addr} : \/ b \div HEX_BYTE = line.addr \div HEX_BYTE
                                                       \/ b % HEX_BYTE = line.addr % HEX_BYTE}}
  \cup {[line EXCEPT !.data = d] :
         d \in {[line.data EXCEPT ![k] = b] : k \in DOMAIN line.data, b \in 0..HEX_BYTE - 1}
               \ {line.data}}

Damage ==
  /\ hexPc = "written" /\ ~damaged
  /\ \E k \in DOMAIN mcs : \E line \in Altered(mcs[k]) : mcs' = [mcs EXCEPT ![k] = line]
  /\ damaged' = TRUE
  /\ UNCHANGED <<hexPc, bin, written, packVars, unpackVars>>

(* Or the ':' of a record changes: mcs2bin takes the line for text, or for *)
(* an empty one if the ':' turned into the end of the line.                *)
LoseColon ==
  /\ hexPc = "written" /\ ~damaged
  /\ \E k \in DOMAIN mcs, line \in {TextLine, BlankLine} : mcs' = [mcs EXCEPT ![k] = line]
  /\ written' = FALSE /\ hexPc' = "mcs2bin"
  /\ UNCHANGED <<bin, damaged, packVars, unpackVars>>

Convert ==
  /\ hexPc = "written" /\ hexPc' = "mcs2bin"
  /\ UNCHANGED <<bin, mcs, written, damaged, packVars, unpackVars>>
-----------------------------------------------------------------------------
(* mcs2bin, one action per kind of line. *)

Current == mcs[lineCount + 1]
Reading == hexPc = "mcs2bin" /\ lineCount < Len(mcs) /\ Current.type # "blank"
IsRecord == Reading /\ Current.type # "text"

(* Mutant: the checksum is not looked at.                                  *)
Unchecked(line) == Len(line.data) >= line.len

(* _parseLine returns 0 bytes for a wrong checksum.                        *)
Valid(line) == (Sum8(line) + line.csum) % HEX_BYTE = 0 /\ Len(line.data) >= line.len

NextLine == lineCount' = lineCount + 1
InputsUnchanged == UNCHANGED <<bin, mcs, written, damaged, packVars>>

(* An empty line reads as the end of the file.                             *)
EndOfInput ==
  /\ hexPc = "mcs2bin" /\ ~Reading
  /\ hexPc' = "done"
  /\ UNCHANGED unpackVars /\ InputsUnchanged

SkipText ==
  /\ Reading /\ Current.type = "text"
  /\ NextLine
  /\ UNCHANGED <<hexPc, binBuff, binLen, addrInit, addrNext, image>> /\ InputsUnchanged

RejectRecord ==
  /\ IsRecord /\ ~Valid(Current)
  /\ NextLine /\ hexPc' = "done"
  /\ UNCHANGED <<binBuff, binLen, addrInit, addrNext, image>> /\ InputsUnchanged

Copied(line) == [a \in DOMAIN binBuff |->
                  IF a \in line.addr..line.addr + line.len - 1
                  THEN line.data[a - line.addr + 1] ELSE binBuff[a]]

ReadData ==
  /\ IsRecord /\ Valid(Current) /\ Current.type = "data"
  /\ NextLine
  /\ binBuff' = Copied(Current)
  /\ binLen' = Current.addr + Current.len
  /\ addrNext' = (addrInit + binLen') % WORD32
  /\ UNCHANGED <<hexPc, addrInit, image>> /\ InputsUnchanged

Flushed == image \o [k \in 1..binLen |-> binBuff[k - 1]]
Dummies(n) == [k \in 1..n |-> EMPTY_BYTE]
Segment(line) == (line.data[1] * HEX_BYTE + line.data[2]) * SEGMENT

(* Mutant: the buffer keeps the bytes of the last segment.                 *)
Kept == binBuff
Cleared == EmptyBuff

ReadLinear ==
  /\ IsRecord /\ Valid(Current) /\ Current.type = "linear"
  /\ NextLine
  /\ addrInit' = Segment(Current)
  /\ image' = Flushed \o Dummies(IF addrNext < addrInit' THEN addrInit' - addrNext ELSE 0)
  /\ binBuff' = Cleared /\ binLen' = 0
  /\ UNCHANGED <<hexPc, addrNext>> /\ InputsUnchanged

ReadEof ==
  /\ IsRecord /\ Valid(Current) /\ Current.type = "eof"
  /\ NextLine /\ image' = Flushed /\ hexPc' = "done"
  /\ UNCHANGED <<binBuff, binLen, addrInit, addrNext>> /\ InputsUnchanged

SkipRecord ==
  /\ IsRecord /\ Valid(Current) /\ Current.type \in {"segment", "start", "unknown"}
  /\ NextLine
  /\ UNCHANGED <<hexPc, binBuff, binLen, addrInit, addrNext, image>> /\ InputsUnchanged

HexNext ==
  \/ WriteRecord \/ WriteEof \/ Damage \/ LoseColon \/ Convert
  \/ EndOfInput \/ SkipText \/ RejectRecord
  \/ ReadData \/ ReadLinear \/ ReadEof \/ SkipRecord

HexSpec == HexInit /\ [][HexNext]_hexVars
-----------------------------------------------------------------------------
(* Properties. *)

HexTypeOK ==
  /\ hexPc \in {"bin2mcs", "written", "mcs2bin", "done"}
  /\ written \in BOOLEAN /\ damaged \in BOOLEAN
  /\ {i, addrExt, remainSize} \subseteq Nat /\ j \in 0..SEGMENT
  /\ lineCount \in 0..Len(mcs)
  /\ binBuff \in [0..SEGMENT - 1 -> 0..HEX_BYTE - 1]
  /\ binLen \in 0..SEGMENT /\ addrInit \in 0..WORD32 - 1 /\ addrNext \in 0..WORD32 - 1
  /\ image \in Seq(0..HEX_BYTE - 1)

(* mcs2bin undoes bin2mcs: whatever byte of a record changes on the way,   *)
(* but for its ':', it writes nothing but the beginning of the file, and   *)
(* all of it if nothing changed.  A record that lost its ':' is passed     *)
(* over without a word: of that listing only ImageIsExact speaks.          *)
RestoresFile ==
  written =>
    /\ IsPrefix(image, bin)
    /\ hexPc = "done" /\ ~damaged => image = bin

(* The lines mcs2bin gets to see, up to the end of file record.            *)
Lines(type) == {k \in DOMAIN mcs : mcs[k].type = type}
SegmentAt(k) == LET before == {l \in Lines("linear") : l < k}
                IN  IF before = {} THEN 0 ELSE Segment(mcs[Max(before)])
Address(k) == SegmentAt(k) + mcs[k].addr
Beyond(k)  == Address(k) + mcs[k].len

(* A listing as tools write it: whole records, no empty line, one end of   *)
(* file record at the end, ascending data without overlap, each record in  *)
(* its segment, each segment selected once and followed by its data.       *)
Orderly ==
  /\ Lines("blank") = {} /\ Lines("eof") = {Len(mcs)}
  /\ \A k \in DOMAIN mcs : mcs[k].type # "text" => Valid(mcs[k])
  /\ \A k \in Lines("data") : mcs[k].addr + mcs[k].len <= SEGMENT
  /\ \A k, l \in Lines("data") : k < l => Beyond(k) <= Address(l)
  /\ \A k \in Lines("linear") :
       /\ Len(mcs[k].data) = 2 /\ mcs[k + 1].type = "data"
       /\ \A l \in Lines("data") : l < k => Beyond(l) <= Segment(mcs[k])

(* For an orderly listing the file holds every byte at its address, and    *)
(* EMPTY_BYTE where there is no record, as where a data record of bin2mcs  *)
(* lost its ':'.                                                           *)
ImageIsExact ==
  ~written /\ hexPc = "done" /\ Orderly =>
    /\ Len(image) = Max({0} \cup {Beyond(k) : k \in Lines("data")})
    /\ \A p \in DOMAIN image :
         LET by == {k \in Lines("data") : p - 1 \in Address(k)..Beyond(k) - 1}
         IN  IF by = {} THEN image[p] = EMPTY_BYTE
             ELSE \A k \in by : image[p] = mcs[k].data[p - Address(k)]
=============================================================================
