------------------------------ MODULE Digests -------------------------------
(***************************************************************************)
(* md5_csum and crc32_csum of checksum/: a file read in pieces, or a       *)
(* string, and the digest that is brought up to date with each piece.      *)
(* What MD5 makes of a block is left out: its state stands for the blocks  *)
(* that went into it, in their order.                                      *)
(***************************************************************************)
EXTENDS Integers, Sequences, SequencesExt, Bytes, Crc32Table

CONSTANTS
  DigestJobs,   \* the calls: [tool, from, data, size], size being what stat
                \* said before the file was opened
  MAX_FILE_SIZE,\* bytes of a file that crc32_csum takes
  G_BUF,        \* bytes md5_csum reads at once, 4096
  MD5_BLOCK,    \* bytes of a block, 64
  WORD_BITS     \* bits of a word, 32: half of those that count the bits

ASSUME DigestConstantsOK ==
  /\ MD5_BLOCK \in Nat \ {0} /\ WORD_BITS \in {8, 16} /\ G_BUF \in Nat \ {0}
  /\ 2^WORD_BITS % (8 * MD5_BLOCK) = 0 /\ MD5_BLOCK > WORD_BITS \div 4

VARIABLES
  dgPc,     \* "loop", "done" or "refused"
  dgJob,    \* the call
  dgAt,     \* bytes that were read
  md5,      \* the context: count, buffer and state
  crc32     \* the register

dgVars == <<dgPc, dgJob, dgAt, md5, crc32>>

Ones == 0..31
NoDigest == [count |-> <<0, 0>>, buffer |-> [k \in 1..MD5_BLOCK |-> -1], state |-> <<>>]

(* A file without bytes is refused. *)
DigestInit ==
  /\ dgJob \in DigestJobs /\ dgAt = 0 /\ md5 = NoDigest /\ crc32 = Ones
  /\ dgPc = IF /\ dgJob.from = "file"
               /\ dgJob.size = 0 \/ (dgJob.tool = "crc32" /\ dgJob.size > MAX_FILE_SIZE)
            THEN "refused" ELSE "loop"

(* The buffer is cleared first: of a file that has become shorter since    *)
(* stat, zeros are taken.                                                  *)
DataByte(k) == IF k \in DOMAIN dgJob.data THEN dgJob.data[k] ELSE 0
Piece(len)  == [k \in 1..len |-> DataByte(dgAt + k)]
-----------------------------------------------------------------------------
(* MD5. *)

Filled(buffer, index, bytes) ==
  [k \in DOMAIN buffer |-> IF k - index \in DOMAIN bytes THEN bytes[k - index] ELSE buffer[k]]
MD5Transform(state, block) == Append(state, block)
Index(context) == (context.count[1] \div 8) % MD5_BLOCK

(* The bits are counted in two words; the first overflows if it is less    *)
(* than what was added.                                                    *)
Counted(count, len) ==
  LET bits == (len * 8) % 2^WORD_BITS
      low  == (count[1] + bits) % 2^WORD_BITS
      over == IF low < bits THEN 1 ELSE 0
  IN  <<low, (count[2] + over + len \div 2^(WORD_BITS - 3)) % 2^WORD_BITS>>

MD5Update(context, input) ==
  LET index == Index(context)
      part  == MD5_BLOCK - index
      more  == (Len(input) - part) \div MD5_BLOCK
      first == MD5Transform(context.state, Filled(context.buffer, index, input))
      block(k) == SubSeq(input, part + (k - 1) * MD5_BLOCK + 1, part + k * MD5_BLOCK)
      rest  == SubSeq(input, part + more * MD5_BLOCK + 1, Len(input))
  IN  [count |-> Counted(context.count, Len(input))] @@
      IF Len(input) >= part
      THEN [buffer |-> Filled(context.buffer, 0, rest),
            state  |-> FoldLeftDomain(LAMBDA s, k : MD5Transform(s, block(k)), first, [k \in 1..more |-> k])]
      ELSE [buffer |-> Filled(context.buffer, index, input), state |-> context.state]

LENGTH == WORD_BITS \div 4
LowFirst(word) == [k \in 1..WORD_BITS \div 8 |-> (word \div 256^(k - 1)) % 256]
MD5Encode(count) == LowFirst(count[1]) \o LowFirst(count[2])
PADDING(n) == [k \in 1..n |-> IF k = 1 THEN 128 ELSE 0]

(* Where the length just fits there is no room for the first byte of the   *)
(* padding.                                                                *)
PaddedLate(index) == IF index <= MD5_BLOCK - LENGTH                \* mutant
                     THEN MD5_BLOCK - LENGTH - index ELSE 2 * MD5_BLOCK - LENGTH - index
padlen(index) == IF index < MD5_BLOCK - LENGTH THEN MD5_BLOCK - LENGTH - index
                 ELSE 2 * MD5_BLOCK - LENGTH - index

MD5Final(context) ==
  MD5Update(MD5Update(context, PADDING(padlen(Index(context)))), MD5Encode(context.count))

(* A string is taken at once, a file in pieces.                            *)
UpdateDigest ==
  /\ dgPc = "loop" /\ dgJob.tool = "md5" /\ dgAt < dgJob.size
  /\ LET left == dgJob.size - dgAt
         len  == IF dgJob.from = "file" /\ left > G_BUF THEN G_BUF ELSE left
     IN  md5' = MD5Update(md5, Piece(len)) /\ dgAt' = dgAt + len
  /\ UNCHANGED <<dgPc, dgJob, crc32>>

FinishDigest ==
  /\ dgPc = "loop" /\ dgJob.tool = "md5" /\ dgAt = dgJob.size
  /\ md5' = MD5Final(md5) /\ dgPc' = "done"
  /\ UNCHANGED <<dgJob, dgAt, crc32>>
-----------------------------------------------------------------------------
(* CRC-32. *)

Entry(n) == {k + 16 : k \in {b \in 0..15 : Bit(crc32_tab[n + 1][1], b) = 1}}
            \cup {b \in 0..15 : Bit(crc32_tab[n + 1][2], b) = 1}
Looked(register, byte) ==
  MapThenSumSet(LAMBDA k : 2^k, Xor({k \in register : k < 8}, Byte(byte)))

Crc32Step ==
  /\ dgPc = "loop" /\ dgJob.tool = "crc32" /\ dgAt < dgJob.size
  /\ crc32' = Xor(Entry(Looked(crc32, DataByte(dgAt + 1))), {k - 8 : k \in {b \in crc32 : b >= 8}})
  /\ dgAt' = dgAt + 1
  /\ UNCHANGED <<dgPc, dgJob, md5>>

Crc32End ==
  /\ dgPc = "loop" /\ dgJob.tool = "crc32" /\ dgAt = dgJob.size
  /\ crc32' = Xor(crc32, Ones) /\ dgPc' = "done"
  /\ UNCHANGED <<dgJob, dgAt, md5>>

DigestNext == UpdateDigest \/ FinishDigest \/ Crc32Step \/ Crc32End
-----------------------------------------------------------------------------
(* Properties.                                                             *)

DigestTypeOK ==
  /\ dgPc \in {"loop", "done", "refused"} /\ dgAt \in 0..dgJob.size
  /\ crc32 \subseteq Ones /\ md5.count \in [1..2 -> 0..2^WORD_BITS - 1]
  /\ Len(md5.buffer) = MD5_BLOCK

Hashed == [k \in 1..dgJob.size |-> DataByte(k)]

(* RFC 1321: a bit 1, zeros up to the length, the length in bits, the low  *)
(* word first.                                                             *)
PaddedMessage ==
  LET len == dgJob.size
      gap == CHOOSE g \in 0..MD5_BLOCK - 1 : (len + 1 + g + LENGTH) % MD5_BLOCK = 0
  IN  Hashed \o <<128>> \o Zeroes(gap) \o [k \in 1..LENGTH |-> ((8 * len) \div 256^(k - 1)) % 256]

(* The polynomial of crc32.c:2-3: bits mirrored, the register all ones     *)
(* before and inverted behind.                                             *)
Poly32 == {0, 1, 2, 4, 5, 7, 8, 10, 11, 12, 16, 22, 23, 26}
Crc32Meant ==
  LET n    == dgJob.size
      sent == UNION {{8 * (n - p) + 7 - k + 32 : k \in Byte(Hashed[p])} : p \in 1..n}
      rest == Remainder(Xor(sent, {8 * n + k : k \in Ones}), Poly32 \cup {32}, 32, 8 * n + 31)
  IN  Xor({31 - k : k \in rest}, Ones)

(* However a file is cut into pieces, MD5 is fed the padded message of its *)
(* standard, with the length in the end, and the table gives the CRC of    *)
(* the polynomial the comment names; of a file that has changed since its  *)
(* size was asked both are those of its beginning, or of the file and      *)
(* zeros (md5_csum.c:71-98, crc32_csum.c:67-88).                           *)
DigestIsTrue ==
  dgPc = "done" =>
    IF dgJob.tool = "md5" THEN FlattenSeq(md5.state) = PaddedMessage ELSE crc32 = Crc32Meant
=============================================================================
