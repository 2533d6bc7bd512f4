------------------------------ MODULE BinTools ------------------------------
(***************************************************************************)
(* The file tools of binutil/: bincpy, bindump, binedit, binendian,        *)
(* binfind, bincomb, bindiff, bingen, binmega and binxor.  Each is a loop  *)
(* over the bytes of a file; a step is a turn of the loop, or of the inner *)
(* loop over the bytes of one file in bincomb, and all of binxor.  The     *)
(* host is little endian.                                                  *)
(***************************************************************************)
EXTENDS Integers, Sequences, FiniteSets, SequencesExt, Bytes

CONSTANTS
  BinJobs,    \* what the tools are run on: [tool, file] and their arguments
  BinBytes,   \* values of a byte
  TEXT_MAX,   \* characters bingen takes for one line, 1023 in the code
  LAST_BYTES, \* bytes bindump shows of the end of a file, 64
  MAX_DISPLAY_ITEMS, \* differences bindiff shows, 32
  MEGA,       \* bytes of a megabyte, 2^20
  SIZE_WORD   \* 2^32: the size in binmega is an unsigned int

(* What the command lines can say: START and LENGTH of bincpy are unsigned. *)
BinJob(each) ==
  CASE each.tool = "bincpy"    -> each.file \in Seq(Nat) /\ each.start \in Nat /\ each.length \in Nat
    [] each.tool = "binedit"   -> each.file \in Seq(Nat) /\ each.start \in Nat /\ each.value \in Seq(Nat)
    [] each.tool = "binendian" -> each.file \in Seq(Nat) /\ each.width \in Nat \ {0}
    [] each.tool = "binfind"   -> each.file \in Seq(Nat) /\ each.pattern \in Seq(Nat) \ {<<>>}
    [] each.tool = "bincomb"   -> each.files \in Seq(Seq(Nat))
    [] each.tool = "bindump"   -> each.file \in Seq(Nat) /\ each.start \in Int /\ each.length \in Int
    [] each.tool = "bindiff"   -> each.file \in Seq(Nat) /\ each.other \in Seq(Nat)
    [] each.tool = "binmega"   -> each.megabytes \in Nat /\ each.pattern \in Seq(Nat)
    [] each.tool = "bingen"    -> each.file \in Seq(Nat)
    [] each.tool = "binxor"    -> each.text1 \in Seq(Nat) /\ each.text2 \in Seq(Nat)

ASSUME BinConstantsOK ==
  /\ {TEXT_MAX, LAST_BYTES, MAX_DISPLAY_ITEMS, MEGA, SIZE_WORD} \subseteq Nat \ {0}
  /\ BinBytes \subseteq Nat /\ \A each \in BinJobs : BinJob(each)

VARIABLES
  binPc,     \* "loop" or "done"
  job,       \* what was called
  at,        \* i of the loop: bytes that were done
  pos,       \* place in the input file
  eof,       \* feof of the input file
  acc,       \* bytes that were read and not written: dword, byteH, text, buf
  next,      \* binfind: bytes of the pattern that matched; bincomb: files
             \* that were copied; bindiff: differences
  matched,   \* binfind: has the first one matched?
  offset,    \* binfind: where it did
  out        \* the output file; what is printed

binVars == <<binPc, job, at, pos, eof, acc, next, matched, offset, out>>

(* START of bincpy and OFFSET of binedit have to be inside the file, or 0. *)
BadStart(start) == start > 0 /\ start >= Len(job.file)

(* bindump with a negative OFFSET, whatever it is, shows the last bytes:   *)
(* as many as LENGTH says.                                                 *)
DumpLength == IF job.start < 0 /\ job.length = 0 THEN Min({Len(job.file), LAST_BYTES}) ELSE job.length
DumpStart  == IF job.start < 0 THEN Len(job.file) - DumpLength ELSE job.start
Start == IF job.tool = "bindump" THEN DumpStart
         ELSE IF job.tool \in {"bincpy", "binedit"} THEN job.start ELSE 0
NoStart == \/ job.tool \in {"bincpy", "binedit", "bindump"} /\ BadStart(Start)
           \/ job.tool = "bindump" /\ job.start < 0 /\ DumpStart \notin 0..Len(job.file) - 1

BinInit ==
  /\ job \in BinJobs /\ at = 0 /\ eof = FALSE /\ next = 0 /\ matched = FALSE /\ offset = 0
  /\ acc \in IF job.tool = "bincpy" THEN {<<b>> : b \in BinBytes} ELSE {<<>>}
  /\ pos = IF NoStart THEN 0 ELSE Start
  /\ out = IF job.tool = "binedit" THEN job.file ELSE <<>>
  /\ binPc = IF NoStart THEN "done" ELSE "loop"

Turn(tool) == binPc = "loop" /\ job.tool = tool
Finish(guard) == binPc' = IF guard THEN "done" ELSE "loop"
-----------------------------------------------------------------------------
(* bincpy and bindump: feof is only known after a read behind the end,     *)
(* which leaves the byte as it was.                                        *)
Wanted == IF job.tool = "bincpy" THEN at < job.length
          ELSE at < Len(job.file) /\ ~(DumpLength > 0 /\ at >= DumpLength)
CopyByte ==
  /\ Turn("bincpy") \/ Turn("bindump")
  /\ IF Wanted /\ ~eof
     THEN /\ acc' = IF pos < Len(job.file) THEN <<job.file[pos + 1]>> ELSE acc
          /\ eof' = (pos >= Len(job.file))
          /\ pos' = pos + 1 /\ at' = at + 1
          /\ out' = out \o acc' /\ binPc' = "loop"
     ELSE binPc' = "done" /\ UNCHANGED <<acc, eof, pos, at, out>>
  /\ UNCHANGED <<job, next, matched, offset>>

(* binedit writes in place, behind the end if it must.                     *)
EditByte ==
  /\ Turn("binedit")
  /\ IF at < Len(job.value)
     THEN /\ out' = [k \in 1..IF pos < Len(out) THEN Len(out) ELSE pos + 1 |->
                      IF k = pos + 1 THEN job.value[at + 1] ELSE out[k]]
          /\ at' = at + 1 /\ pos' = pos + 1 /\ binPc' = "loop"
     ELSE binPc' = "done" /\ UNCHANGED <<out, at, pos>>
  /\ UNCHANGED <<job, eof, acc, next, matched, offset>>
-----------------------------------------------------------------------------
(* binendian, in words of job.width bytes: the first byte of a word clears *)
(* it, and a word is written when it is full or the file ends in it.  The  *)
(* conversions to and from network order do the same.                      *)
Zeros == [k \in 1..job.width |-> 0]
Fresh(seq) == IF seq = 0 THEN Zeros ELSE acc

SwapByte ==
  /\ Turn("binendian")
  /\ LET seq == at % job.width
     IN  IF at < Len(job.file)
         THEN /\ acc' = [Fresh(seq) EXCEPT ![seq + 1] = job.file[at + 1]]
              /\ out' = IF seq = job.width - 1 THEN out \o Reverse(acc') ELSE out
              /\ at' = at + 1 /\ binPc' = "loop"
         ELSE /\ out' = IF seq > 0 THEN out \o Reverse(acc) ELSE out
              /\ binPc' = "done" /\ UNCHANGED <<acc, at>>
  /\ UNCHANGED <<job, pos, eof, next, matched, offset>>
-----------------------------------------------------------------------------
(* Mutant: the search goes on behind the byte that did not match.          *)
GoOn == at
BackTo == offset

(* binfind goes back to the byte behind the start of a failed match.       *)
FindByte ==
  /\ Turn("binfind")
  /\ IF at < Len(job.file) /\ pos < Len(job.file)
     THEN LET hit  == job.file[pos + 1] = job.pattern[next + 1]
              full == next + 1 = Len(job.pattern)
              from == IF next = 0 THEN at ELSE offset
              back == ~hit /\ matched
          IN  /\ offset'  = IF hit THEN from ELSE offset
              /\ matched' = (hit /\ ~full)
              /\ next'    = IF hit /\ ~full THEN next + 1 ELSE 0
              /\ out'     = IF hit /\ full THEN Append(out, from) ELSE out
              /\ at'      = (IF back THEN BackTo ELSE at) + 1
              /\ pos'     = IF back THEN BackTo + 1 ELSE pos + 1
              /\ binPc'   = "loop"
     ELSE binPc' = "done" /\ UNCHANGED <<offset, matched, next, out, at, pos>>
  /\ UNCHANGED <<job, eof, acc>>
-----------------------------------------------------------------------------
(* bincomb: next is the number of files that were copied.  It stops at a   *)
(* file that cannot be opened.                                             *)
CombineByte ==
  /\ Turn("bincomb")
  /\ LET ends == next = Len(job.files) \/ job.files[next + 1] = job.missing
     IN  IF ends THEN binPc' = "done" /\ UNCHANGED <<next, at, out>>
         ELSE /\ binPc' = "loop"
              /\ IF at < Len(job.files[next + 1])
                 THEN /\ out' = Append(out, job.files[next + 1][at + 1])
                      /\ at' = at + 1 /\ UNCHANGED next
                 ELSE next' = next + 1 /\ at' = 0 /\ UNCHANGED out
  /\ UNCHANGED <<job, pos, eof, acc, matched, offset>>
-----------------------------------------------------------------------------
(* bingen.  hexstr2byte: the bytes of a line, none if it has another      *)
(* character or an odd number of digits before the comment.               *)
Code(line)   == LET marks == {k \in DOMAIN line : line[k] = Hash}
                IN  IF marks = {} THEN line ELSE SubSeq(line, 1, Min(marks) - 1)
Digits(line) == SelectSeq(Code(line), LAMBDA c : c < 16)
hexstr2byte(line) ==
  IF Other \in Range(Code(line)) \/ Len(Digits(line)) % 2 = 1 THEN <<>>
  ELSE [k \in 1..Len(Digits(line)) \div 2 |->
         (Digits(line)[2 * k - 1] * 16) + Digits(line)[2 * k]]

(* A line is done with at its end, or when there is no room for more.      *)
GenerateChar ==
  /\ Turn("bingen")
  /\ IF at < Len(job.file)
     THEN LET c    == job.file[at + 1]
              line == IF c = LineEnd THEN acc ELSE Append(acc, c)
              ends == c = LineEnd \/ Len(line) >= TEXT_MAX
          IN  /\ out' = IF ends THEN out \o hexstr2byte(line) ELSE out
              /\ acc' = IF ends THEN <<>> ELSE line
              /\ at' = at + 1 /\ binPc' = "loop"
     ELSE /\ out' = out \o hexstr2byte(acc)
          /\ binPc' = "done" /\ UNCHANGED <<acc, at>>
  /\ UNCHANGED <<job, pos, eof, next, matched, offset>>

-----------------------------------------------------------------------------
(* bindiff counts the differences of what both files have, and shows where *)
(* the first ones are.                                                     *)
CompareByte ==
  /\ Turn("bindiff")
  /\ IF at < Min({Len(job.file), Len(job.other)})
     THEN LET differs == job.file[at + 1] # job.other[at + 1]
          IN  /\ next' = IF differs THEN next + 1 ELSE next
              /\ out'  = IF differs /\ next' <= MAX_DISPLAY_ITEMS THEN Append(out, at) ELSE out
              /\ at' = at + 1 /\ binPc' = "loop"
     ELSE binPc' = "done" /\ UNCHANGED <<next, out, at>>
  /\ UNCHANGED <<job, pos, eof, acc, matched, offset>>

(* binmega writes a byte the user names, or any.                           *)
MegaByte ==
  /\ Turn("binmega")
  /\ IF at < (job.megabytes * MEGA) % SIZE_WORD
     THEN /\ \E b \in IF job.pattern = <<>> THEN BinBytes ELSE Range(job.pattern) : out' = Append(out, b)
          /\ at' = at + 1 /\ binPc' = "loop"
     ELSE binPc' = "done" /\ UNCHANGED <<out, at>>
  /\ UNCHANGED <<job, pos, eof, acc, next, matched, offset>>

(* binxor: the longer string starts with what it has more.                 *)
Octet(bits) == MapThenSumSet(LAMBDA k : 2^k, bits)
XorStrings ==
  /\ Turn("binxor")
  /\ LET val1  == hexstr2byte(job.text1)
         val2  == hexstr2byte(job.text2)
         long  == IF Len(val1) > Len(val2) THEN val1 ELSE val2
         short == IF Len(val1) > Len(val2) THEN val2 ELSE val1
         more  == Len(long) - Len(short)
     IN  out' = IF short = <<>> THEN <<>>
                ELSE [k \in DOMAIN long |->
                       IF k <= more THEN long[k] ELSE Octet(Xor(Byte(long[k]), Byte(short[k - more])))]
  /\ binPc' = "done"
  /\ UNCHANGED <<job, at, pos, eof, acc, next, matched, offset>>

BinNext == CopyByte \/ EditByte \/ SwapByte \/ FindByte \/ CombineByte \/ GenerateChar
           \/ CompareByte \/ MegaByte \/ XorStrings

BinSpec == BinInit /\ [][BinNext]_binVars
-----------------------------------------------------------------------------
(* Properties. *)

BinTypeOK ==
  /\ binPc \in {"loop", "done"} /\ {at, pos, next, offset} \subseteq Nat
  /\ eof \in BOOLEAN /\ matched \in BOOLEAN
  /\ job.tool = "binfind" => next < Len(job.pattern) /\ (matched <=> next > 0)

IsAt(pattern, file, k) == k + Len(pattern) <= Len(file)
                          /\ SubSeq(file, k + 1, k + Len(pattern)) = pattern

(* Where a pattern is found: a place is reported if and only if the        *)
(* pattern is there and no reported one that starts before overlaps it.    *)
FoundAll ==
  \A k \in 0..Len(job.file) :
    k \in Range(out) <=>
      /\ IsAt(job.pattern, job.file, k)
      /\ \A m \in Range(out) : m < k => m + Len(job.pattern) <= k

(* bincpy writes the slice it is asked for; asked for more than the file   *)
(* has, it writes the last byte once more.                                 *)
Slice == SubSeq(job.file, job.start + 1, Min({job.start + job.length, Len(job.file)}))
CopiedSlice ==
  IF BadStart(job.start) THEN out = <<>>
  ELSE \/ out = Slice
       \/ job.length > Len(Slice) /\ Len(out) = Len(Slice) + 1 /\ IsPrefix(Slice, out)

(* bindump shows all of a file from START, but no more than LENGTH, or     *)
(* its last bytes; and once more the last byte of a file it does not show  *)
(* from its first, where LENGTH does not end it.                           *)
DumpedBytes ==
  LET rest  == SubSeq(job.file, job.start + 1, Len(job.file))
      tail  == IF job.length = 0 THEN LAST_BYTES ELSE job.length
  IN  IF job.start < 0
      THEN out = IF job.length > Len(job.file) THEN <<>>
                 ELSE SubSeq(job.file, Max({Len(job.file) - tail, 0}) + 1, Len(job.file))
      ELSE out = IF job.length \in 1..Len(rest) THEN SubSeq(rest, 1, job.length)
                 ELSE IF job.start = 0 \/ rest = <<>> THEN rest ELSE Append(rest, Last(rest))

(* binedit puts the value over the file from START.                        *)
EditedFile ==
  out = IF BadStart(job.start) THEN job.file
        ELSE SubSeq(job.file, 1, job.start) \o job.value
             \o SubSeq(job.file, job.start + Len(job.value) + 1, Len(job.file))

(* binendian turns each word, the last one filled up with zeros.           *)
TurnedWords ==
  /\ Len(out) = ((Len(job.file) + job.width - 1) \div job.width) * job.width
  /\ \A k \in DOMAIN out :
       LET twin == (2 * ((k - 1) \div job.width) + 1) * job.width + 1 - k
       IN  out[k] = IF twin <= Len(job.file) THEN job.file[twin] ELSE 0

(* bincomb joins the files before the first one that is missing.           *)
Opened == LET missing == {k \in DOMAIN job.files : job.files[k] = job.missing}
          IN  IF missing = {} THEN job.files ELSE SubSeq(job.files, 1, Min(missing) - 1)
JoinedFiles == out = FlattenSeq(Opened)

(* bindiff counts the differences of what both files have, and shows the   *)
(* first ones in their order.                                              *)
Differences == {k \in 0..Min({Len(job.file), Len(job.other)}) - 1 : job.file[k + 1] # job.other[k + 1]}
FirstDifferences ==
  /\ next = Cardinality(Differences) /\ Len(out) = Min({next, MAX_DISPLAY_ITEMS})
  /\ \A m, n \in DOMAIN out : m < n => out[m] < out[n]
  /\ Range(out) \subseteq Differences
  /\ \A k \in Differences \ Range(out), m \in DOMAIN out : out[m] < k

(* binmega writes as many megabytes as it is asked for, while the word for *)
(* their size holds it, of the byte that is asked for.                     *)
ManyBytes ==
  /\ (Len(out) = job.megabytes * MEGA) <=> (job.megabytes * MEGA < SIZE_WORD)
  /\ job.pattern # <<>> => Range(out) \subseteq Range(job.pattern)

(* What a tool for files of bytes has written when it ends is what its     *)
(* name promises, for files of any length, slices behind the end, edits    *)
(* over the end, tails of less than a word, patterns that overlap          *)
(* themselves, a file that is missing, files of two lengths, more          *)
(* differences than fit (bincpy.c:70-95, bindump.c:104-143,                *)
(* binedit.c:45-79, binendian.c:8-166, binfind.c:46-88, bincomb.c:13-69,   *)
(* bindiff.c:28-77, binmega.c:31-62).                                      *)
ToolsAreExact ==
  binPc = "done" =>
    CASE job.tool = "bincpy"    -> CopiedSlice
      [] job.tool = "bindump"   -> DumpedBytes
      [] job.tool = "binedit"   -> EditedFile
      [] job.tool = "binendian" -> TurnedWords
      [] job.tool = "binfind"   -> FoundAll
      [] job.tool = "bincomb"   -> JoinedFiles
      [] job.tool = "bindiff"   -> FirstDifferences
      [] job.tool = "binmega"   -> ManyBytes
      [] OTHER                  -> TRUE

(* The bits of a number in bytes, from the last.                           *)
BitsOf(bytes) == UNION {{8 * (Len(bytes) - k) + b : b \in Byte(bytes[k])} : k \in DOMAIN bytes}

(* The lines of a text.                                                    *)
LineStarts == {1} \cup {k + 1 : k \in {m \in DOMAIN job.file : job.file[m] = LineEnd}}
LineFrom(k) == LET ends == {m \in k..Len(job.file) : job.file[m] = LineEnd}
               IN  SubSeq(job.file, k, IF ends = {} THEN Len(job.file) ELSE Min(ends) - 1)
TextLines  == LET starts == SetToSortSeq(LineStarts, <) IN [n \in DOMAIN starts |-> LineFrom(starts[n])]

(* The tools for numbers in text: bingen writes the bytes of all lines     *)
(* that fit its buffer, with comments and malformed ones among them;       *)
(* binxor combines numbers of two lengths (bingen.c:6-101,                 *)
(* binxor.c:28-67, utility.c:44-121).                                      *)
NumbersAreExact ==
  binPc = "done" =>
    /\ job.tool = "binxor" =>
         LET val1 == hexstr2byte(job.text1)
             val2 == hexstr2byte(job.text2)
         IN  IF <<>> \in {val1, val2} THEN out = <<>>
             ELSE BitsOf(out) = Xor(BitsOf(val1), BitsOf(val2)) /\ Len(out) = Max({Len(val1), Len(val2)})
    /\ job.tool = "bingen" =>
         ((\A n \in DOMAIN TextLines : Len(TextLines[n]) <= TEXT_MAX) =>
            out = FlattenSeq([n \in DOMAIN TextLines |-> hexstr2byte(TextLines[n])]))
=============================================================================
