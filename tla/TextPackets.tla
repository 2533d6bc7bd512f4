----------------------------- MODULE TextPackets -----------------------------
(***************************************************************************)
(* The programs that make packets of text files with HEX bytes: raw_send,  *)
(* which sends each file as a frame, pcap_gen, which writes one file into  *)
(* a capture or appends it, and pcap_dlt_user, which writes several.  Each *)
(* reads a file with the same loop (raw_send.c, pcap/util.c).              *)
(***************************************************************************)
EXTENDS Integers, Sequences, FiniteSets, SequencesExt, Bytes

CONSTANTS
  PacketJobs,  \* [tool, files, append, dlt]: raw_send, pcap_dlt_user and its
               \* files; pcap_gen and the file, -a and -u of each call
  READ_MAX,    \* characters that fgets takes at most, 1022
  TOKEN_SIZE,  \* characters of a token, 31
  LONG_DIGITS, \* digits of a long, 16
  BUF_SIZE     \* bytes of a packet, 1500, 4096 or 9000

ASSUME TextPacketsOK == READ_MAX \in Nat \ {0} /\ TOKEN_SIZE \in Nat \ {0} /\ LONG_DIGITS \in Nat
                        /\ BUF_SIZE \in Nat \ {0}

VARIABLES
  tpPc,        \* what is done next
  tpJob,       \* the call, or the calls of pcap_gen
  fileNo,      \* which file it is at
  tpAt,        \* characters that were read of it
  tpLine,      \* the rest of the line
  converted,   \* what sscanf has stored last
  tpBuf,       \* the bytes of the packet
  output,      \* what was written or sent
  transmitted  \* how many packets raw_send has counted

tpVars == <<tpPc, tpJob, fileNo, tpAt, tpLine, converted, tpBuf, output, transmitted>>

Missing == <<-1>>      \* a file that cannot be opened

TextInit ==
  /\ tpJob \in PacketJobs /\ tpPc = "open" /\ fileNo = 1
  /\ tpAt = 0 /\ tpLine = <<>> /\ converted = 0 /\ tpBuf = <<>> /\ output = <<>> /\ transmitted = 0

File == tpJob.files[fileNo]
TextEnd == tpAt > Len(File)    \* feof: a read has met the end

Header == [kind |-> "header", dlt |-> tpJob.dlt, bytes |-> <<>>]
APacket(kind) == [kind |-> kind, dlt |-> 0, bytes |-> tpBuf]
-----------------------------------------------------------------------------
(* read_file. *)

(* The variable for sscanf has no value yet.                               *)
OpenText ==
  /\ tpPc = "open" /\ fileNo <= Len(tpJob.files)
  /\ tpAt' = 0 /\ tpLine' = <<>> /\ tpBuf' = <<>>
  /\ \/ File = Missing /\ tpPc' = "open" /\ fileNo' = fileNo + 1 /\ UNCHANGED converted
     \/ File # Missing /\ tpPc' = "line" /\ converted' \in {0, 170} /\ UNCHANGED fileNo
  /\ UNCHANGED <<tpJob, output, transmitted>>

Room == LET left == Len(File) - tpAt IN IF left < READ_MAX THEN left ELSE READ_MAX
LineEnds == {k \in 1..Room : File[tpAt + k] = LineEnd}
Gotten == SubSeq(File, tpAt + 1, tpAt + IF LineEnds = {} THEN Room ELSE Min(LineEnds))
Stripped(c, chars) == IF chars # <<>> /\ Last(chars) = c THEN Front(chars) ELSE chars

read_line ==
  /\ tpPc = "line" /\ ~TextEnd /\ tpPc' = "token"
  /\ tpLine' = Stripped(Return, Stripped(LineEnd, Gotten))
  /\ tpAt' = tpAt + Len(Gotten)
             + IF Len(Gotten) < READ_MAX /\ (Gotten = <<>> \/ Last(Gotten) # LineEnd) THEN 1 ELSE 0
  /\ UNCHANGED <<tpJob, fileNo, converted, tpBuf, output, transmitted>>

TextRead == /\ tpPc = "line" /\ TextEnd /\ tpPc' = "packet"
             /\ UNCHANGED <<tpJob, fileNo, tpAt, tpLine, converted, tpBuf, output, transmitted>>

(* get_token; a longer token is split.                                     *)
TokenFrom == SelectInSeq(tpLine, LAMBDA c : c # Blank)
TokenTill == LET ends == {k \in TokenFrom + 1..Len(tpLine) : tpLine[k] = Blank \/ k = TokenFrom + TOKEN_SIZE}
             IN  IF ends = {} THEN Len(tpLine) ELSE Min(ends) - 1
get_token == IF TokenFrom = 0 THEN <<>> ELSE SubSeq(tpLine, TokenFrom, TokenTill)

(* sscanf with %x stores nothing when no digit comes first.                *)
HexDigits(token) == LET stop == SelectInSeq(token, LAMBDA c : c > 15)
                    IN  IF stop = 0 THEN token ELSE SubSeq(token, 1, stop - 1)
Significant(digits) == LET k == SelectInSeq(digits, LAMBDA d : d # 0)
                       IN  IF k = 0 THEN 0 ELSE Len(digits) - k + 1
Value(digits) == IF Significant(digits) > LONG_DIGITS THEN 255
                 ELSE FoldLeft(LAMBDA v, d : (v * 16 + d) % 256, 0, digits)

(* The end of the line is a token without characters; a comment ends it.   *)
OnlyEmpty(token) == token = <<>>                                   \* mutant
EndsLine(token) == IF token = <<>> THEN TRUE ELSE Head(token) = Hash

SkipLine ==
  /\ tpPc = "token" /\ EndsLine(get_token)
  /\ tpPc' = "line" /\ tpLine' = <<>>
  /\ UNCHANGED <<tpJob, fileNo, tpAt, converted, tpBuf, output, transmitted>>

OneMore == Len(tpBuf) > BUF_SIZE                                   \* mutant
BufferFull == Len(tpBuf) + 1 > BUF_SIZE

(* A token without a digit repeats the byte before it.                     *)
TakeToken ==
  /\ tpPc = "token" /\ ~EndsLine(get_token)
  /\ LET digits == HexDigits(get_token)
     IN  converted' = IF digits = <<>> THEN converted ELSE Value(digits)
  /\ \/ BufferFull /\ tpPc' = "packet" /\ UNCHANGED <<tpLine, tpBuf>>
     \/ /\ ~BufferFull /\ tpBuf' = Append(tpBuf, converted')
        /\ tpLine' = SubSeq(tpLine, TokenTill + 1, Len(tpLine)) /\ UNCHANGED tpPc
  /\ UNCHANGED <<tpJob, fileNo, tpAt, output, transmitted>>
-----------------------------------------------------------------------------
(* The packet. *)

(* A file without bytes counts as one that cannot be opened.               *)
NoBytes ==
  /\ tpPc = "packet" /\ tpBuf = <<>>
  /\ tpPc' = "open" /\ fileNo' = fileNo + 1
  /\ UNCHANGED <<tpJob, tpAt, tpLine, converted, tpBuf, output, transmitted>>

(* A frame that cannot be sent is counted all the same.                    *)
SendFrame ==
  /\ tpJob.tool = "raw_send"
  /\ \E kind \in {"packet", "lost"} : output' = Append(output, APacket(kind))
  /\ transmitted' = transmitted + 1

(* A capture is begun without -a, whatever was in it; -a adds to what is   *)
(* there, or to nothing.                                                   *)
WritePacket ==
  /\ tpJob.tool = "pcap_gen"
  /\ output' = IF tpJob.append[fileNo] THEN Append(output, APacket("packet"))
               ELSE <<Header, APacket("packet")>>
  /\ UNCHANGED transmitted

(* The header comes with the first file, or not at all.                    *)
WithFirstFile == fileNo = 1
AddPacket ==
  /\ tpJob.tool = "pcap_dlt_user"
  /\ output' = (IF WithFirstFile THEN Append(output, Header) ELSE output) \o <<APacket("packet")>>
  /\ UNCHANGED transmitted

PacketDone ==
  /\ tpPc = "packet" /\ tpBuf # <<>>
  /\ SendFrame \/ WritePacket \/ AddPacket
  /\ tpPc' = "open" /\ fileNo' = fileNo + 1
  /\ UNCHANGED <<tpJob, tpAt, tpLine, converted, tpBuf>>

AllFiles == /\ tpPc = "open" /\ fileNo > Len(tpJob.files) /\ tpPc' = "done"
            /\ UNCHANGED <<tpJob, fileNo, tpAt, tpLine, converted, tpBuf, output, transmitted>>

TextNext == OpenText \/ read_line \/ TextRead \/ SkipLine \/ TakeToken \/ NoBytes \/ PacketDone \/ AllFiles
-----------------------------------------------------------------------------
(* Properties.                                                             *)

TextTypeOK ==
  /\ tpPc \in {"open", "line", "token", "packet", "done"}
  /\ fileNo \in 1..Len(tpJob.files) + 1 /\ tpAt \in Nat /\ Len(tpLine) <= READ_MAX
  /\ converted \in 0..255 /\ tpBuf \in Seq(0..255) /\ Len(tpBuf) <= BUF_SIZE
  /\ \A k \in DOMAIN output : output[k].kind \in {"header", "packet", "lost"}
  /\ transmitted \in 0..Len(output)

(* What a text says: the value of each word before the first word of its   *)
(* line that is a comment.                                                 *)
Stops == {Blank, LineEnd, Return}
WordAt(text, k) == text[k] \notin Stops /\ (k = 1 \/ text[k - 1] \in Stops)
LineOf(text, k) == Cardinality({j \in 1..k - 1 : text[j] = LineEnd})
InComment(text, k) ==
  \E j \in 1..k : text[j] = Hash /\ WordAt(text, j) /\ LineOf(text, j) = LineOf(text, k)
Words(text) == {k \in DOMAIN text : WordAt(text, k) /\ ~InComment(text, k)}
WordEnd(text, k) == Min({j \in k..Len(text) + 1 : IF j > Len(text) THEN TRUE ELSE text[j] \in Stops})
Said(text) ==
  LET starts == SelectSeq([k \in DOMAIN text |-> k], LAMBDA k : k \in Words(text))
  IN  [n \in DOMAIN starts |-> SubSeq(text, starts[n], WordEnd(text, starts[n]) - 1)]

(* The bytes are what the words say, up to the size of the buffer; a word  *)
(* without a digit says the byte before it again, or at first anything.    *)
AreSaid(bytes, words) ==
  /\ Len(bytes) = Min({Len(words), BUF_SIZE})
  /\ \A n \in DOMAIN bytes :
       IF HexDigits(words[n]) # <<>> THEN bytes[n] = Value(HexDigits(words[n]))
       ELSE n > 1 => bytes[n] = bytes[n - 1]

(* Texts that the programs are written for: lines fit into a read, words   *)
(* into a token, and the carriage return stands before the line feed or at *)
(* the end only.                                                           *)
Plain(text) ==
  /\ \A k \in DOMAIN text :
       /\ text[k] = Return => k = Len(text) \/ text[k + 1] = LineEnd
       /\ k + READ_MAX - 1 <= Len(text) => \E j \in k..k + READ_MAX - 1 : text[j] = LineEnd
  /\ \A k \in Words(text) : WordEnd(text, k) - k <= TOKEN_SIZE

(* What is sent or written are the packets of the files that say anything, *)
(* in their order, each with all bytes up to the size of the buffer        *)
(* (raw_send.c:154-201, pcap/util.c:121-168); of a capture the ones since  *)
(* it was begun.  It has its header in front of them, and no other, unless *)
(* nobody began it but with -a (pcap_gen.c:176-196), or the first file of  *)
(* several cannot be read (pcap_dlt_user.c:73-89).                         *)
TextIsTrue ==
  tpPc = "done" /\ (\A k \in DOMAIN tpJob.files : tpJob.files[k] = Missing \/ Plain(tpJob.files[k])) =>
    LET good    == SelectSeq([k \in DOMAIN tpJob.files |-> k],
                             LAMBDA k : tpJob.files[k] # Missing /\ Said(tpJob.files[k]) # <<>>)
        begins  == {n \in DOMAIN good : tpJob.tool = "pcap_gen" /\ ~tpJob.append[good[n]]}
        kept    == IF begins = {} THEN good ELSE SubSeq(good, Max(begins), Len(good))
        headed  == CASE tpJob.tool = "raw_send"      -> FALSE
                     [] tpJob.tool = "pcap_gen"      -> begins # {}
                     [] tpJob.tool = "pcap_dlt_user" -> good # <<>> /\ good[1] = 1
        packets == IF headed THEN Tail(output) ELSE output
    IN  /\ headed => output[1].kind = "header" /\ output[1].dlt = tpJob.dlt
        /\ Len(packets) = Len(kept)
        /\ \A n \in DOMAIN packets : packets[n].kind # "header"
                                     /\ AreSaid(packets[n].bytes, Said(tpJob.files[kept[n]]))
        /\ tpJob.tool = "raw_send" => transmitted = Len(output)
=============================================================================
