------------------------------- MODULE QrCode -------------------------------
(***************************************************************************)
(* The QR code generator qrcode/: it chooses the version, lays out the     *)
(* patterns of the symbol, codes the string in bytes, computes the         *)
(* Reed-Solomon codewords block by block, places the bits module by        *)
(* module, chooses one of eight masks by their penalties and writes the    *)
(* format and version information.                                         *)
(*                                                                         *)
(* A byte is the set of its bits that are 1 (Bytes).  A matrix is a        *)
(* function of column x and row y with -1 for a module without a colour.   *)
(***************************************************************************)
EXTENDS Integers, Sequences, FiniteSets, Bytes, QrTables

CONSTANTS
  QrJobs,         \* the calls: [string, version, level], a string of bytes
  DrawnVersions   \* bound: a symbol is drawn for these versions only

ASSUME QrConstantsOK ==
  \A call \in QrJobs : call.level \in 1..4 /\ call.string \in Seq(0..255)

VARIABLES
  qrPc,         \* what is done next
  qrJob,        \* the call
  g_version,    \* the version of the symbol
  g_matrixA,    \* the modules before placement
  g_matrixB,    \* and before masking
  codeword1,    \* data codewords
  codeword2,    \* data codewords and those for correction, interleaved
  generator,    \* the generator polynomial without its first coefficient
  root,         \* reedSolomonPoly: the next root
  turn,         \* i of the loop of reedSolomonPoly and reedSolomonCalc
  eccBlock,     \* the remainder in this block
  blockAt,      \* blocks that were coded
  walk,         \* qr_matrix_placement: x, y, up, right and j
  g_masking,    \* the symbol under the mask that is looked at, then under the best
  maskAt,       \* masks that were looked at
  scoreMin,     \* the least penalty
  g_maskId      \* the mask that has it

codeVars == <<codeword1, codeword2, generator, root, turn, eccBlock, blockAt>>
maskVars == <<g_masking, maskAt, scoreMin, g_maskId>>
qrVars   == <<qrPc, qrJob, g_version, g_matrixA, g_matrixB, codeVars, walk, maskVars>>

NoWalk == [x |-> 0, y |-> 0, up |-> TRUE, right |-> TRUE, j |-> 0]
INT_MAX == 2147483647

QrRest ==
  /\ g_version = 0 /\ g_matrixA = <<>> /\ g_matrixB = <<>> /\ codeword1 = <<>>
  /\ codeword2 = <<>> /\ generator = <<>> /\ root = {} /\ turn = 0 /\ eccBlock = <<>>
  /\ blockAt = 0 /\ walk = NoWalk /\ g_masking = <<>> /\ maskAt = 0
  /\ scoreMin = INT_MAX /\ g_maskId = 0

QrInit == qrPc = "capacity" /\ qrJob \in QrJobs /\ QrRest

string  == qrJob.string
g_level == qrJob.level
-----------------------------------------------------------------------------
(* The version. *)

EcTable(level)  == <<g_L, g_M, g_Q, g_H>>[level]
EcRow           == EcTable(g_level)[g_version]
g_matrixSize    == (g_version - 1) * 4 + 21
g_totLen        == g_codewords[g_version][1] * 8 + g_rem[g_version]
g_datLen        == EcRow[1] * 8

Larger(a, b)  == IF a < b THEN b ELSE a
Enough(bytes, level) == {v \in 1..40 : g_codewords[v][level + 1] >= bytes}

(* Mutants: the version that was asked for is taken; there is no last one. *)
AsAsked(asked, smallest) == IF asked > 40 THEN 40 ELSE Larger(asked, 1)
Uncapped(asked, smallest) == Larger(asked, smallest)
ForString(asked, smallest) == IF Larger(asked, smallest) > 40 THEN 40 ELSE Larger(asked, smallest)

qr_check_capacity ==
  /\ qrPc = "capacity"
  /\ LET enough == Enough(Len(string), g_level)
     IN  IF enough = {} THEN qrPc' = "refused" /\ UNCHANGED g_version
         ELSE /\ qrPc' = "patterns"
              /\ g_version' = ForString(qrJob.version,
                                        CHOOSE v \in enough : \A w \in enough : v <= w)
  /\ UNCHANGED <<qrJob, g_matrixA, g_matrixB, codeVars, walk, maskVars>>
-----------------------------------------------------------------------------
(* Patterns.  What is written later stands first. *)

Distance(x, y, cx, cy) ==
  Larger(IF x < cx THEN cx - x ELSE x - cx, IF y < cy THEN cy - y ELSE y - cy)

formatAt == (4 * g_version) + 9
InVersion(x, y)  == g_version >= 7 /\ x \in 0..5 /\ y \in formatAt - 3..formatAt - 1
InFormat(x, y)   == y = 8 /\ (x \in (0..7) \ {6} \/ x \in formatAt..formatAt + 7)
InFormat2(x, y)  == x = 8 /\ (y \in (0..8) \ {6} \/ y \in formatAt + 1..formatAt + 7)
Reserved(x, y)   == InVersion(x, y) \/ InVersion(y, x) \/ InFormat(x, y) \/ InFormat2(x, y)
Timing(x, y)     == y = 6 /\ x \in 8..g_matrixSize - 9

AlignmentLoop == CHOOSE l \in 2..7 : l * l = g_alignment[g_version][1] + 3
AlignmentCentres ==
  IF g_alignment[g_version][1] = 0 THEN {}
  ELSE LET last  == AlignmentLoop
           place == g_alignment[g_version]
       IN  {<<place[c[1] + 1], place[c[2] + 1]>> :
              c \in ((1..last) \X (1..last)) \ {<<1, 1>>, <<1, last>>, <<last, 1>>}}
FinderCentres == {<<3, 3>>, <<g_matrixSize - 4, 3>>, <<3, g_matrixSize - 4>>}

Colour(x, y, aligned, finders) ==
  CASE Reserved(x, y)         -> 0
    [] x = 8 /\ y = formatAt   -> 1
    [] \E c \in aligned : Distance(x, y, c[1], c[2]) <= 2 ->
         IF \E c \in aligned : Distance(x, y, c[1], c[2]) = 1 THEN 0 ELSE 1
    [] Timing(x, y)           -> (x + 1) % 2
    [] Timing(y, x)           -> (y + 1) % 2
    [] \E c \in finders : Distance(x, y, c[1], c[2]) <= 4 ->
         IF \E c \in finders : Distance(x, y, c[1], c[2]) \in {2, 4} THEN 0 ELSE 1
    [] OTHER -> -1

qr_function_patterns ==
  /\ qrPc = "patterns" /\ g_version \in DrawnVersions
  /\ g_matrixA' = [x \in 0..g_matrixSize - 1 |-> [y \in 0..g_matrixSize - 1 |->
                    Colour(x, y, AlignmentCentres, FinderCentres)]]
  /\ qrPc' = "encode"
  /\ UNCHANGED <<qrJob, g_version, g_matrixB, codeVars, walk, maskVars>>
-----------------------------------------------------------------------------
(* Data codewords. *)

(* Four bits at a time: the mode, the length in 8 or 16 bits, the bytes,   *)
(* four zero bits if there is room, and whatever fills up a byte.          *)
CountNibbles(n) == (IF g_version > 9 THEN <<(n \div 4096) % 16, (n \div 256) % 16>> ELSE <<>>)
                     \o <<(n \div 16) % 16, n % 16>>
StringNibbles == [k \in 1..2 * Len(string) |->
                   IF k % 2 = 1 THEN string[(k + 1) \div 2] \div 16 ELSE string[k \div 2] % 16]
Nibbles ==
  LET told  == <<4>> \o CountNibbles(Len(string)) \o StringNibbles
      ended == IF 4 * Len(told) < g_datLen THEN Append(told, 0) ELSE told
  IN  IF Len(ended) % 2 = 1 THEN Append(ended, 0) ELSE ended
padding == <<236, 17>>

DataCodewords ==
  LET told == Nibbles
      used == Len(told) \div 2
  IN  [k \in 1..Larger(used, g_datLen \div 8) |->
        Byte(IF k <= used THEN told[2 * k - 1] * 16 + told[2 * k]
                          ELSE padding[((k - used - 1) % 2) + 1])]

EccLen      == EcRow[2]
blockNum1   == EcRow[3]
dataLen1    == EcRow[4]
blockTotal  == EcRow[3] + EcRow[5]

(* A sequence of bytes.                                                     *)
Range8(words) == \A k \in DOMAIN words : words[k] \subseteq 0..7

Zero(n) == [k \in 1..n |-> {}]

qr_data_encode ==
  /\ qrPc = "encode" /\ qrPc' = "poly"
  /\ codeword1' = DataCodewords
  /\ codeword2' = [k \in 0..g_datLen \div 8 + EccLen * blockTotal - 1 |-> {}]
  /\ generator' = [Zero(EccLen) EXCEPT ![EccLen] = {0}] /\ root' = {0}
  /\ turn' = 0 /\ eccBlock' = Zero(EccLen) /\ blockAt' = 0
  /\ UNCHANGED <<qrJob, g_version, g_matrixA, g_matrixB, walk, maskVars>>

(* The loop that writes the middle of a long count counts i up instead of  *)
(* down: it may also never end.                                            *)
SpinInCount ==
  /\ qrPc = "encode" /\ g_version > 9 /\ qrPc' = "spins"
  /\ UNCHANGED <<qrJob, g_version, g_matrixA, g_matrixB, codeVars, walk, maskVars>>
-----------------------------------------------------------------------------
(* Codewords for correction, over the field of the polynomial 0x11D. *)

Doubled(z) == Xor({k + 1 : k \in z \ {7}}, IF 7 \in z THEN {4, 3, 2, 0} ELSE {})
multiply(x, y) ==
  LET z[i_ \in 0..8] == IF i_ = 8 THEN {}
                        ELSE LET w == Doubled(z[i_ + 1])
                             IN  IF i_ \in y THEN Xor(w, x) ELSE w
  IN  z[0]

reedSolomonPoly ==
  /\ qrPc = "poly"
  /\ generator' = [k \in 1..EccLen |->
                    Xor(multiply(generator[k], root), IF k < EccLen THEN generator[k + 1] ELSE {})]
  /\ root' = multiply(root, {1})
  /\ IF turn + 1 < EccLen THEN turn' = turn + 1 /\ qrPc' = "poly"
                          ELSE turn' = 0 /\ qrPc' = "calc"
  /\ UNCHANGED <<qrJob, g_version, g_matrixA, g_matrixB, codeword1, codeword2,
                 eccBlock, blockAt, walk, maskVars>>

BlockLen(b)   == dataLen1 + (IF b < blockNum1 THEN 0 ELSE 1)
BlockStart(b) == b * dataLen1 + (IF b < blockNum1 THEN 0 ELSE b - blockNum1)

reedSolomonCalc ==
  /\ qrPc = "calc" /\ turn < BlockLen(blockAt)
  /\ LET factor == Xor(codeword1[BlockStart(blockAt) + turn + 1], eccBlock[1])
     IN  eccBlock' = [k \in 1..EccLen |->
                       Xor(IF k < EccLen THEN eccBlock[k + 1] ELSE {},
                           multiply(generator[k], factor))]
  /\ turn' = turn + 1
  /\ UNCHANGED <<qrPc, qrJob, g_version, g_matrixA, g_matrixB, codeword1, codeword2,
                 generator, root, blockAt, walk, maskVars>>

(* Mutant: the short blocks leave a gap in the last row.                   *)
DataPlaceGap(b, k) == b + k * blockTotal
(* Where codeword k of block b goes.                                       *)
DataPlace(b, k) == b + k * blockTotal - (IF k >= dataLen1 THEN blockNum1 ELSE 0)
EccPlace(b, k)  == g_datLen \div 8 + b + k * blockTotal

InterleaveBlock ==
  /\ qrPc = "calc" /\ turn = BlockLen(blockAt)
  /\ LET b       == blockAt
         data(p) == {k \in 0..BlockLen(b) - 1 : DataPlace(b, k) = p}
         ecc(p)  == {k \in 0..EccLen - 1 : EccPlace(b, k) = p}
     IN  codeword2' = [p \in DOMAIN codeword2 |->
           IF ecc(p) # {}  THEN eccBlock[(CHOOSE k \in ecc(p) : TRUE) + 1]
           ELSE IF data(p) # {} THEN codeword1[BlockStart(b) + (CHOOSE k \in data(p) : TRUE) + 1]
           ELSE codeword2[p]]
  /\ blockAt' = blockAt + 1 /\ turn' = 0 /\ eccBlock' = Zero(EccLen)
  /\ IF blockAt + 1 < blockTotal
     THEN qrPc' = "calc" /\ UNCHANGED <<g_matrixB, walk>>
     ELSE /\ qrPc' = "place" /\ g_matrixB' = g_matrixA
          /\ walk' = [NoWalk EXCEPT !.x = g_matrixSize - 1, !.y = g_matrixSize - 1]
  /\ UNCHANGED <<qrJob, g_version, g_matrixA, codeword1, generator, root, maskVars>>
-----------------------------------------------------------------------------
(* Placement.  The bits behind the codewords, g_rem of them, are zero. *)

g_bits(k) == IF k \div 8 \in DOMAIN codeword2 /\ 7 - (k % 8) \in codeword2[k \div 8] THEN 1 ELSE 0

(* Mutant: the column of the timing pattern is not left out.               *)
NoSkip(x) == x
SkipTiming(x) == IF x = 6 THEN 5 ELSE x

(* From the right module of a pair to the left one; from there to the next *)
(* row, or to the next pair of columns and the other direction.            *)
Onward(w) ==
  LET y == IF w.up THEN w.y - 1 ELSE w.y + 1
  IN  IF w.right THEN [w EXCEPT !.x = w.x - 1, !.right = FALSE]
      ELSE IF y \in 0..g_matrixSize - 1 THEN [w EXCEPT !.x = w.x + 1, !.y = y, !.right = TRUE]
      ELSE [w EXCEPT !.x = SkipTiming(w.x - 1), !.up = ~w.up, !.right = TRUE]

qr_matrix_placement ==
  /\ qrPc = "place"
  /\ LET free == g_matrixB[walk.x][walk.y] = -1
     IN  /\ g_matrixB' = IF free THEN [g_matrixB EXCEPT ![walk.x][walk.y] = g_bits(walk.j)]
                         ELSE g_matrixB
         /\ walk' = [Onward(walk) EXCEPT !.j = IF free THEN walk.j + 1 ELSE walk.j]
  /\ qrPc' = IF walk'.j = g_totLen \/ walk'.x < 0 THEN "mask" ELSE "place"
  /\ UNCHANGED <<qrJob, g_version, g_matrixA, codeVars, maskVars>>
-----------------------------------------------------------------------------
(* Masks. *)

MaskBit(n, x, y) ==
  LET flips == CASE n = 0 -> (y + x) % 2 = 0
                 [] n = 1 -> y % 2 = 0
                 [] n = 2 -> x % 3 = 0
                 [] n = 3 -> (y + x) % 3 = 0
                 [] n = 4 -> ((y \div 2) + (x \div 3)) % 2 = 0
                 [] n = 5 -> ((y * x) % 2) + ((y * x) % 3) = 0
                 [] n = 6 -> (((y * x) % 2) + ((y * x) % 3)) % 2 = 0
                 [] n = 7 -> (((y + x) % 2) + ((y * x) % 3)) % 2 = 0
  IN  IF flips THEN 1 ELSE 0

Masked(n) == [x \in 0..g_matrixSize - 1 |-> [y \in 0..g_matrixSize - 1 |->
               IF g_matrixA[x][y] = -1 THEN (g_matrixB[x][y] + MaskBit(n, x, y)) % 2
                                       ELSE g_matrixB[x][y]]]

Rows == 0..g_matrixSize - 1
At(n, line, k) == IF n = 0 THEN g_masking[k][line] ELSE g_masking[line][k]

(* Places where n modules of one colour end, in rows (0) and columns (1).  *)
Runs(n) == Cardinality({end \in {0, 1} \X Rows \X (n - 1..g_matrixSize - 1) :
                         \A l \in 1..n - 1 : At(end[1], end[2], end[3] - l) = At(end[1], end[2], end[3])})
(* A run scores 3 for its fifth module and 1 for each one after it.        *)
evaluate_1 == 3 * Runs(5) - 2 * Runs(6)

evaluate_2 == 3 * Cardinality({spot \in (0..g_matrixSize - 2) \X (0..g_matrixSize - 2) :
                                \A d \in {<<1, 0>>, <<0, 1>>, <<1, 1>>} :
                                  g_masking[spot[1] + d[1]][spot[2] + d[2]] = g_masking[spot[1]][spot[2]]})

Ahead  == <<1, 0, 1, 1, 1, 0, 1, 0, 0, 0, 0>>
Behind == <<0, 0, 0, 0, 1, 0, 1, 1, 1, 0, 1>>
Found(pattern, way) ==
  Cardinality({spot \in (0..g_matrixSize - 11) \X (0..g_matrixSize - 11) :
                \A l \in 1..11 : At(way, spot[1], spot[2] + l - 1) = pattern[l]})
(* The second pattern is looked for in columns twice, in rows never.       *)
evaluate_3 == 40 * (Found(Ahead, 0) + Found(Ahead, 1) + 2 * Found(Behind, 1))

Apart(a, b) == IF a < b THEN b - a ELSE a - b
evaluate_4 ==
  LET dark  == Cardinality({spot \in Rows \X Rows : g_masking[spot[1]][spot[2]] = 1})
      below == (((dark * 100) \div (g_matrixSize * g_matrixSize)) \div 5) * 5
      far   == Apart(below, 50) \div 5
      near  == Apart(below + 5, 50) \div 5
  IN  10 * (IF far < near THEN far ELSE near)

Mask ==
  /\ qrPc = "mask" /\ maskAt < 8
  /\ g_masking' = Masked(maskAt) /\ qrPc' = "score"
  /\ UNCHANGED <<qrJob, g_version, g_matrixA, g_matrixB, codeVars, walk, maskAt, scoreMin, g_maskId>>

Score ==
  /\ qrPc = "score" /\ qrPc' = "mask"
  /\ LET score == evaluate_1 + evaluate_2 + evaluate_3 + evaluate_4
     IN  IF score < scoreMin THEN scoreMin' = score /\ g_maskId' = maskAt
                             ELSE UNCHANGED <<scoreMin, g_maskId>>
  /\ maskAt' = maskAt + 1
  /\ UNCHANGED <<qrJob, g_version, g_matrixA, g_matrixB, codeVars, walk, g_masking>>
-----------------------------------------------------------------------------
(* Format and version information over the mask that was chosen. *)

(* Place of a module in the string, counted from 0, in either area.        *)
FormatLeft(x, y) == IF y = 8 /\ x < 8 THEN (IF x < 6 THEN x ELSE 6)
                    ELSE IF y > 6 THEN 15 - y ELSE 14 - y
FormatRight(x, y) == IF x = 8 /\ y > 8 THEN g_matrixSize - 1 - y ELSE x - formatAt + 7
VersionPlace(x, y) == IF x < 6 THEN 3 * x + y - formatAt + 3 ELSE 6 * (x - formatAt + 3) + y

(* Mutant: the format of the mask before the first.                        *)
FormatOfFirst == g_fStr[g_level][1]
FormatString == g_fStr[g_level][g_maskId + 1]

Informed(x, y, module) ==
  CASE InVersion(x, y) \/ InVersion(y, x) -> Bit(g_vStr[g_version - 6], 17 - VersionPlace(x, y))
    [] (InFormat(x, y) \/ InFormat2(x, y)) /\ x <= 8 /\ y <= 8 ->
         Bit(FormatString, 14 - FormatLeft(x, y))
    [] (InFormat(x, y) \/ InFormat2(x, y)) /\ (x > 8 \/ y > 8) ->
         Bit(FormatString, 14 - FormatRight(x, y))
    [] OTHER -> module

qr_format_version ==
  /\ qrPc = "mask" /\ maskAt = 8 /\ qrPc' = "drawn"
  /\ g_masking' = LET chosen == Masked(g_maskId)
                  IN  [x \in Rows |-> [y \in Rows |-> Informed(x, y, chosen[x][y])]]
  /\ UNCHANGED <<qrJob, g_version, g_matrixA, g_matrixB, codeVars, walk, maskAt, scoreMin, g_maskId>>

QrNext == qr_check_capacity \/ qr_function_patterns \/ qr_data_encode \/ SpinInCount
          \/ reedSolomonPoly \/ reedSolomonCalc \/ InterleaveBlock
          \/ qr_matrix_placement \/ Mask \/ Score \/ qr_format_version

QrSpec == QrInit /\ [][QrNext]_qrVars
-----------------------------------------------------------------------------
(* Properties. *)

QrTypeOK ==
  /\ qrPc \in {"capacity", "patterns", "encode", "spins", "poly", "calc", "place",
               "mask", "score", "drawn", "refused"}
  /\ g_version \in 0..40 /\ g_maskId \in 0..7 /\ maskAt \in 0..8 /\ scoreMin \in 0..INT_MAX
  /\ Range8(codeword1) /\ Range8(generator) /\ Range8(eccBlock) /\ root \subseteq 0..7
  /\ qrPc = "place" => /\ {walk.x, walk.y} \subseteq Rows /\ walk.j \in 0..g_totLen - 1
                       /\ g_matrixB[walk.x][walk.y] \in {-1, 0, 1}

(* The symbol as a reader of the standard sees it.                         *)

Side == g_matrixSize
Dark(x, y) == g_masking[x][y] = 1

(* Centres of alignment patterns: 6 and even steps back from the last.     *)
Coordinates(v) ==
  LET n    == (v \div 7) + 2
      step == IF v = 32 THEN 26 ELSE 2 * ((4 * v + 2 * n + 1) \div (2 * n - 2))
  IN  IF v = 1 THEN {} ELSE {6} \cup {4 * v + 10 - step * k : k \in 0..n - 2}

HoldsData(x, y) ==
  /\ x # 6 /\ y # 6
  /\ ~(x <= 8 /\ y <= 8) /\ ~(x >= Side - 8 /\ y <= 8) /\ ~(x <= 8 /\ y >= Side - 8)
  /\ g_version >= 7 => ~(x >= Side - 11 /\ y <= 5) /\ ~(y >= Side - 11 /\ x <= 5)
  /\ \A a, b \in Coordinates(g_version) :
       \/ {a, b} \in {{6}, {6, Side - 7}}
       \/ Apart(x, a) > 2 \/ Apart(y, b) > 2

(* The modules that hold data, in pairs of columns up and down.            *)
ReadingOrder ==
  LET PairAt(t) == t \div (2 * Side)
      Row(t)    == (t % (2 * Side)) \div 2
      Right(t)  == LET r == Side - 1 - 2 * PairAt(t) IN IF r <= 6 THEN r - 1 ELSE r
      Place(t)  == <<Right(t) - (t % 2),
                     IF PairAt(t) % 2 = 0 THEN Side - 1 - Row(t) ELSE Row(t)>>
  IN  SelectSeq([t \in 1..Side * (Side - 1) |-> Place(t - 1)], LAMBDA p : HoldsData(p[1], p[2]))

(* Polynomials over two elements are sets of exponents.                    *)
Exponents(n) == {k \in 0..17 : Bit(n, k) = 1}

(* The words for a level and a mask, and for a version, with BCH codes.    *)
FormatWord(level, mask) ==
  LET data == Exponents((<<1, 0, 3, 2>>[level] * 8 + mask) * 1024)
  IN  Xor(data \cup Remainder(data, {10, 8, 5, 4, 2, 1, 0}, 10, 14), {14, 12, 10, 4, 1})
VersionWord(v) ==
  LET data == Exponents(v * 4096)
  IN  data \cup Remainder(data, {12, 11, 10, 9, 8, 5, 2, 0}, 12, 17)
FormatNear == {k \in 0..14 : CASE k < 6 -> Dark(8, k) [] k = 6 -> Dark(8, 7) [] k = 7 -> Dark(8, 8)
                               [] k = 8 -> Dark(7, 8) [] k > 8 -> Dark(14 - k, 8)}
FormatFar  == {k \in 0..14 : IF k < 8 THEN Dark(Side - 1 - k, 8) ELSE Dark(8, Side - 15 + k)}
FormatIs(mask) == FormatNear = FormatWord(g_level, mask) /\ FormatFar = FormatNear

Inverted(mask, x, y) ==
  CASE mask = 0 -> (x % 2) = (y % 2)  [] mask = 1 -> y % 2 = 0
    [] mask = 2 -> x % 3 = 0          [] mask = 3 -> (x + y) % 3 = 0
    [] mask = 4 -> ((y \div 2) % 2) = ((x \div 3) % 2)
    [] mask = 5 -> (x * y) % 6 = 0    [] mask = 6 -> (x * y) % 6 < 3
    [] mask = 7 -> ((x + y + ((x * y) % 3)) % 2) = 0

(* Codewords of the symbol, the first is number 1.                         *)
CodewordsRead(mask) ==
  LET order == ReadingOrder
  IN  [n \in 1..g_codewords[g_version][1] |->
        {k \in 0..7 : LET p == order[8 * n - k]
                      IN  Dark(p[1], p[2]) # Inverted(mask, p[1], p[2])}]

BlockLengths == [b \in 1..EcRow[3] + EcRow[5] |-> IF b <= EcRow[3] THEN EcRow[4] ELSE EcRow[6]]

(* Blocks are read a codeword of each at a time, the short ones end first; *)
(* what follows is for correction.                                         *)
BlockRead(words, b) ==
  LET lens   == BlockLengths
      order  == SelectSeq([t \in 1..(EcRow[4] + 1) * Len(lens) |->
                            <<((t - 1) % Len(lens)) + 1, ((t - 1) \div Len(lens)) + 1>>],
                          LAMBDA p : p[2] <= lens[p[1]])
      mine   == SelectSeq([n \in DOMAIN order |-> <<n, order[n][1]>>], LAMBDA p : p[2] = b)
  IN  [k \in 1..lens[b] + EcRow[2] |->
        IF k <= lens[b] THEN words[mine[k][1]]
        ELSE words[Len(order) + (k - lens[b] - 1) * Len(lens) + b]]

(* Products of the field as products of polynomials, and their remainder.  *)
Times(a, b) ==
  LET sum[k \in 0..8] == IF k = 8 THEN {}
                         ELSE IF k \in b THEN Xor(sum[k + 1], {e + k : e \in a}) ELSE sum[k + 1]
  IN  Remainder(sum[0], {8, 4, 3, 2, 0}, 8, 14)
(* Powers of the element 2, of order 255, by squaring.                     *)
Power == LET power[k \in 0..254] ==
               IF k = 0 THEN {0}
               ELSE LET half == power[k \div 2]
                    IN  Times(Times(half, half), IF k % 2 = 1 THEN {1} ELSE {0})
         IN  [k \in 0..254 |-> power[k]]

(* The polynomial of the block at the root with this number.               *)
ValueAt(block, number) ==
  {e \in 0..7 :
     Cardinality({k \in DOMAIN block :
                   e \in Times(block[k], Power[(number * (Len(block) - k)) % 255])}) % 2 = 1}

(* No error is seen: the block is zero at every root of its generator.     *)
Intact(block) == \A number \in 0..EcRow[2] - 1 : ValueAt(block, number) = {}

(* What the data codewords say is the string: byte mode, its length, its   *)
(* bytes.                                                                  *)
SaysString(data) ==
  LET half(n)   == IF n % 2 = 1 THEN {k - 4 : k \in data[(n + 1) \div 2] \ (0..3)}
                                ELSE data[n \div 2] \cap 0..3
      count     == IF g_version < 10 THEN 2 ELSE 4
      Nibble(n) == Byte(n) \cap 0..3
  IN  /\ half(1) = {2}
      /\ \A k \in 1..count : half(k + 1) = Nibble(Len(string) \div 16^(count - k))
      /\ \A k \in 1..2 * Len(string) : half(count + 1 + k) = Nibble(StringNibbles[k])

(* The symbol can be read: both copies of its format name one level and    *)
(* mask, under that mask every block is intact, and its data is the        *)
(* string.  The areas of the version information are left out.             *)
QrReadable ==
  qrPc = "drawn" =>
    \E mask \in 0..7 :
      /\ FormatIs(mask) /\ Dark(8, Side - 8)
      /\ LET words  == CodewordsRead(mask)
             blocks == [b \in DOMAIN BlockLengths |-> BlockRead(words, b)]
             data[b \in 0..Len(blocks)] ==
               IF b = 0 THEN <<>> ELSE data[b - 1] \o SubSeq(blocks[b], 1, BlockLengths[b])
         IN  /\ \A b \in DOMAIN blocks : Intact(blocks[b])
             /\ SaysString(data[Len(blocks)])

(* Modules of a version that hold bits, from its geometry alone.           *)
FreeModules(v) ==
  LET n == (v \div 7) + 2
  IN  (16 * v + 128) * v + 64 - (IF v < 2 THEN 0 ELSE (25 * n - 10) * n - 55)
        - (IF v < 7 THEN 0 ELSE 36)

(* Version v has room for the mode, the length and the bytes.              *)
Fits(v) == 4 + (IF v < 10 THEN 8 ELSE 16) + 8 * Len(string) <= 8 * EcTable(g_level)[v][1]
(* The capacity of version 38 with level H has two digits swapped.         *)
Overstated == g_level = 4 /\ Len(string) \in 1140..1399

(* The version is the first from the one asked for that has room, none is  *)
(* refused that has, and for that version the tables agree: the blocks     *)
(* make up the data, with their correction all codewords, and with the     *)
(* remainder they fill exactly the modules that no pattern takes;          *)
(* the centres are those of the standard, and the version has its code.    *)
VersionFits ==
  /\ qrPc = "refused" => \A v \in 1..40 : ~Fits(v)
  /\ qrPc = "patterns" =>
       /\ Overstated \/ Fits(g_version)
       /\ \A v \in 1..g_version - 1 : v < qrJob.version \/ ~Fits(v)
       /\ EcRow[3] * EcRow[4] + EcRow[5] * EcRow[6] = EcRow[1]
       /\ EcRow[1] + EcRow[2] * (EcRow[3] + EcRow[5]) = g_codewords[g_version][1]
       /\ g_totLen = FreeModules(g_version)
       /\ g_version > 1 => {g_alignment[g_version][k] : k \in 2..AlignmentLoop + 1}
                             = Coordinates(g_version)
       /\ g_version > 6 => Exponents(g_vStr[g_version - 6]) = VersionWord(g_version)
=============================================================================
