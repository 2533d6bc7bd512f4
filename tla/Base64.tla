------------------------------- MODULE Base64 -------------------------------
(***************************************************************************)
(* The Base64 coder base64/base64.c: encode writes three bytes at a time   *)
(* as four characters, in lines of limited length; decode reads four       *)
(* characters at a time and passes over all that are no code.  A step is   *)
(* one turn of the outer loop of either.  Between them other characters    *)
(* may get into the text.  Characters are their ASCII codes.               *)
(***************************************************************************)
EXTENDS Integers, Sequences, FiniteSets, SequencesExt

CONSTANTS
  B64Files,     \* files given to encode, sequences of bytes
  LineSizes,    \* values of -l
  NoiseChars,   \* characters that get into the text
  MaxNoise      \* bound: how many of them

ASSUME B64ConstantsOK ==
  /\ LineSizes \subseteq {n \in Nat : n >= 4} /\ MaxNoise \in Nat
  /\ NoiseChars \subseteq 0..255

VARIABLES
  b64Pc,       \* "encode", "text", "decode" or "done"
  plain,       \* the file given to encode
  linesize,    \* the line size
  inAt,        \* bytes of the input that were read
  blocksout,   \* encode: blocks in this line
  text,        \* what encode wrote, with noise
  noise,       \* characters that were added
  decoded      \* what decode wrote

b64Vars == <<b64Pc, plain, linesize, inAt, blocksout, text, noise, decoded>>

B64Init ==
  /\ b64Pc = "encode" /\ plain \in B64Files /\ linesize \in LineSizes
  /\ inAt = 0 /\ blocksout = 0 /\ text = <<>> /\ noise = 0 /\ decoded = <<>>
-----------------------------------------------------------------------------
Equals == 61
LineFeed == 10

cb64(n) == CASE n < 26 -> n + 65 [] n \in 26..51 -> n + 71 [] n \in 52..61 -> n - 4
             [] n = 62 -> 43 [] n = 63 -> 47

(* What decode makes of a character: its index plus one, or 0.             *)
cd64(c) == CASE c = 43 -> 63 [] c = 47 -> 64 [] c \in 48..57 -> c + 5
             [] c \in 65..90 -> c - 64 [] c \in 97..122 -> c - 70 [] OTHER -> 0

(* in is padded with zero bytes to three, len is how many are real.        *)
encodeblock(in, len) ==
  <<cb64(in[1] \div 4),
    cb64(((in[1] % 4) * 16) + (in[2] \div 16)),
    IF len > 1 THEN cb64(((in[2] % 16) * 4) + (in[3] \div 64)) ELSE Equals,
    IF len > 2 THEN cb64(in[3] % 64) ELSE Equals>>

decodeblock(in) ==
  <<((in[1] * 4) + (in[2] \div 16)) % 256,
    ((in[2] * 16) + (in[3] \div 4)) % 256,
    ((in[3] * 64) % 256) + in[4]>>

(* The next n elements of s behind the first k, filled up with zeros.      *)
Padded(s, k, n) == [m \in 1..n |-> IF k + m <= Len(s) THEN s[k + m] ELSE 0]
Smaller(m, n)   == IF m < n THEN m ELSE n
-----------------------------------------------------------------------------
(* Mutant: the line is as long as the line size says in blocks.            *)
LineOver(blocks) == blocks >= linesize
LineFull(blocks) == blocks >= linesize \div 4

(* One turn of encode; the input is at its end when a byte was missing.    *)
EncodeTurn ==
  /\ b64Pc = "encode"
  /\ LET len    == Smaller(3, Len(plain) - inAt)
         eof    == len < 3
         blocks == IF len > 0 THEN blocksout + 1 ELSE blocksout
         ends   == LineFull(blocks) \/ eof
     IN  /\ text' = text \o (IF len > 0 THEN encodeblock(Padded(plain, inAt, 3), len) ELSE <<>>)
                         \o (IF ends /\ blocks > 0 THEN <<LineFeed>> ELSE <<>>)
         /\ blocksout' = IF ends THEN 0 ELSE blocks
         /\ inAt' = IF eof THEN 0 ELSE inAt + 3
         /\ b64Pc' = IF eof THEN "text" ELSE "encode"
  /\ UNCHANGED <<plain, linesize, noise, decoded>>

AddNoise ==
  /\ b64Pc = "text" /\ noise < MaxNoise
  /\ \E k \in 1..Len(text) + 1, c \in NoiseChars : text' = InsertAt(text, k, c)
  /\ noise' = noise + 1
  /\ UNCHANGED <<b64Pc, plain, linesize, inAt, blocksout, decoded>>

StartDecode ==
  /\ b64Pc = "text" /\ b64Pc' = "decode"
  /\ UNCHANGED <<plain, linesize, inAt, blocksout, text, noise, decoded>>

(* The codes of the text behind the first k characters.                    *)
Codes(k) == SelectSeq([m \in 1..Len(text) - k |-> cd64(text[k + m])], LAMBDA v : v > 0)
(* Where the fourth code behind the first k characters is read.            *)
FourthAt(k) == CHOOSE m \in k + 1..Len(text) :
                 /\ cd64(text[m]) > 0
                 /\ Cardinality({n \in k + 1..m : cd64(text[n]) > 0}) = 4

(* Mutant: every character read counts for the group.                      *)
AllWritten(len) == 3
Written(len) == IF len > 0 THEN len - 1 ELSE 0

(* One turn of decode: four codes, or what is left of them at the end.     *)
DecodeTurn ==
  /\ b64Pc = "decode"
  /\ LET len == Smaller(4, Len(Codes(inAt)))
         in  == [m \in 1..4 |-> IF m <= len THEN Codes(inAt)[m] - 1 ELSE 0]
     IN  /\ decoded' = decoded \o SubSeq(decodeblock(in), 1, Written(len))
         /\ IF len = 4 THEN inAt' = FourthAt(inAt) /\ b64Pc' = "decode"
                       ELSE inAt' = Len(text) /\ b64Pc' = "done"
  /\ UNCHANGED <<plain, linesize, blocksout, text, noise>>

B64Next == EncodeTurn \/ AddNoise \/ StartDecode \/ DecodeTurn

B64Spec == B64Init /\ [][B64Next]_b64Vars
-----------------------------------------------------------------------------
(* Properties. *)

B64TypeOK ==
  /\ b64Pc \in {"encode", "text", "decode", "done"}
  /\ inAt \in 0..Len(plain) + Len(text) /\ blocksout \in 0..linesize
  /\ text \in Seq(0..255) /\ decoded \in Seq(0..255) /\ noise \in 0..MaxNoise

(* decode gives back the file although line breaks, padding and noise are  *)
(* spread over the text, and encode keeps its lines to the line size.      *)
DecodesNoise ==
  /\ b64Pc = "done" => decoded = plain
  /\ noise = 0 => \A k \in DOMAIN text :
                    k + linesize <= Len(text) => \E m \in k..k + linesize : text[m] = LineFeed
=============================================================================
