------------------------------- MODULE Bytes --------------------------------
(***************************************************************************)
(* Bytes and words as sets of the bits that are 1, so that exclusive or is *)
(* the symmetric difference and a polynomial over two elements is the set  *)
(* of its exponents; bytes as numbers in sequences, with the sum of their  *)
(* words of 16 bits in network order; and the characters of texts that     *)
(* hold HEX digits.                                                        *)
(***************************************************************************)
EXTENDS Integers, FiniteSetsExt

Byte(n) == {k \in 0..7 : (n \div 2^k) % 2 = 1}
Bit(number, k) == (number \div 2^k) % 2
Xor(a, b) == (a \ b) \cup (b \ a)

(* The remainder of the polynomial p, whose exponents are at most top, by  *)
(* g, whose highest exponent is degree.                                    *)
Remainder(p, g, degree, top) ==
  LET r[k \in degree..top + 1] ==
        IF k > top THEN p
        ELSE LET q == r[k + 1] IN IF k \in q THEN Xor(q, {e + k - degree : e \in g}) ELSE q
  IN  r[degree]

Zeroes(n) == [k \in 1..n |-> 0]
Two(n)    == <<n \div 256, n % 256>>

(* The words of bytes added up, without the bytes at some places.          *)
Weighted(bytes, without) ==
  MapThenSumSet(LAMBDA k : bytes[k] * (IF k % 2 = 1 THEN 256 ELSE 1), DOMAIN bytes \ without)

(* Characters are the digits 0 to 15, and these.  Other is neither a sign  *)
(* nor the x of a prefix, which some of the parsers take.                  *)
Blank   == 16
Hash    == 17
Other   == 18
LineEnd == 19
Return  == 20
Colon   == 21
Dot     == 22
=============================================================================
