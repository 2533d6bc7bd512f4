---------------------------- MODULE ToolsProofs ----------------------------
(***************************************************************************)
(* Proofs about the file tools of MCTools, for any values of the constants *)
(* and files of any length.                                                *)
(***************************************************************************)
EXTENDS MCTools, FileToolsProofs, FunctionTheorems, WellFoundedInduction

-----------------------------------------------------------------------------
(* Sums and division with remainder.                                       *)

LEMMA ModSum ==
  ASSUME NEW a \in Int, NEW c \in Int, NEW b \in Nat \ {0}
  PROVE  ((a % b) + c) % b = (a + c) % b
<1> DEFINE x == (a % b) + c
           q == a \div b
           t == x \div b
           r == x % b
<1>1. q \in Int /\ a % b \in 0..b - 1 /\ a = b * q + (a % b)
  BY DivMod
<1>2. x \in Int
  BY <1>1
<1>3. t \in Int /\ r \in 0..b - 1 /\ x = b * t + r
  BY <1>2, DivMod
<1>4. a + c = b * q + x
  BY <1>1, <1>2, Distribute
<1> HIDE DEF q, t, r
<1>5. b * q + x = b * (q + t) + r
  BY <1>1, <1>3, Distribute
<1>6. (b * (q + t) + r) % b = r
  <2>1. q + t \in Int /\ b * (q + t) + r \in Int
    BY <1>1, <1>3, Distribute
  <2> QED
    BY <1>3, <2>1, ModUnique, SMTT(20)
<1> QED
  BY <1>4, <1>5, <1>6 DEF r

(* What differs by less than the modulus has another remainder.            *)
LEMMA ModDiffers ==
  ASSUME NEW a \in Int, NEW c \in Int, NEW b \in Nat \ {0}, a # c, a - c < b, c - a < b
  PROVE  a % b # c % b
<1> SUFFICES ASSUME a % b = c % b PROVE FALSE
  OBVIOUS
<1> DEFINE q == a \div b
           t == c \div b
<1>1. q \in Int /\ t \in Int /\ a = b * q + (a % b) /\ c = b * t + (c % b) /\ a % b \in Int
  <2>1. q \in Int /\ a = b * q + (a % b) /\ a % b \in 0..b - 1
    BY DivMod
  <2>2. t \in Int /\ c = b * t + (c % b)
    BY DivMod
  <2> QED
    BY <2>1, <2>2
<1> HIDE DEF q, t
<1>2. b * (q - t) = a - c
  BY <1>1, Distribute
<1>3. q - t = 0
  BY <1>1, <1>2, Multiple
<1>4. b * 0 = 0
  OBVIOUS
<1> QED
  BY <1>2, <1>3, <1>4
-----------------------------------------------------------------------------
(* Sums over a sequence, of any length.                                    *)

LEMMA LeastNumber ==
  ASSUME NEW T \in SUBSET Nat, T # {}
  PROVE  \E x \in T : \A y \in T : x <= y
<1>1. PICK x \in T : \A y \in T : ~(<<y, x>> \in OpToRel(<, Nat))
  BY NatLessThanWellFounded, WFMin
<1>2. \A y \in T : ~(y < x)
  BY <1>1, Zenon DEF OpToRel
<1>3. \A y \in T : x <= y
  BY <1>2
<1> QED
  BY <1>3

(* Is f[k] the sum of the first k of the n values of d?                    *)
IsRunning(f, d, n) == f \in [0..n -> Int] /\ f[0] = 0 /\ \A k \in 1..n : f[k] = f[k - 1] + d[k]

LEMMA RunningExists ==
  ASSUME NEW n \in Nat, NEW d, \A k \in 1..n : d[k] \in Int
  PROVE  \E f : IsRunning(f, d, n)
<1> DEFINE Missing_ == {m \in Nat : m <= n /\ ~\E f : IsRunning(f, d, m)}
<1>1. SUFFICES Missing_ = {}
  OBVIOUS
<1>2. SUFFICES ASSUME Missing_ # {} PROVE FALSE
  OBVIOUS
<1>3. PICK m \in Missing_ : \A l \in Missing_ : m <= l
  BY <1>2, LeastNumber
<1>4. IsRunning([k \in 0..0 |-> 0], d, 0)
  BY DEF IsRunning
<1>5. m # 0
  BY <1>3, <1>4
<1>6. m - 1 \in Nat /\ m - 1 <= n /\ m \in 1..n
  BY <1>3, <1>5
<1>7. PICK f : IsRunning(f, d, m - 1)
  BY <1>3, <1>6
<1> DEFINE g == [k \in 0..m |-> IF k = m THEN f[m - 1] + d[m] ELSE f[k]]
<1>8. IsRunning(g, d, m)
  BY <1>6, <1>7 DEF IsRunning
<1> QED
  BY <1>3, <1>8

(* Do d and e agree but at p?                                              *)
DifferAt(d, e, n, p) == \A k \in 1..n : d[k] \in Int /\ e[k] \in Int /\ (k # p => d[k] = e[k])

(* It has values that agree with their differences.                        *)
LEMMA RunningBy ==
  ASSUME NEW n \in Nat, NEW d, NEW e, NEW f, NEW g, IsRunning(f, d, n), IsRunning(g, e, n),
         NEW p \in 1..n, DifferAt(d, e, n, p)
  PROVE  g[n] - f[n] = e[p] - d[p]
<1> DEFINE Wrong == {m \in Nat : m <= n /\ g[m] - f[m] # IF m < p THEN 0 ELSE e[p] - d[p]}
<1>1. SUFFICES Wrong = {}
  OBVIOUS
<1>2. SUFFICES ASSUME Wrong # {} PROVE FALSE
  OBVIOUS
<1>3. PICK m \in Wrong : \A l \in Wrong : m <= l
  BY <1>2, LeastNumber
<1>4. m # 0
  BY <1>3 DEF IsRunning
<1>5. m - 1 \in Nat /\ m - 1 <= n /\ m \in 1..n /\ m - 1 \in 0..n /\ m \in 0..n
  BY <1>3, <1>4
<1>6. g[m - 1] - f[m - 1] = IF m - 1 < p THEN 0 ELSE e[p] - d[p]
  BY <1>3, <1>5
<1>7. g[m] = g[m - 1] + e[m] /\ f[m] = f[m - 1] + d[m] /\ {g[m], f[m], g[m - 1], f[m - 1]} \subseteq Int
  BY <1>5 DEF IsRunning
<1>8. d[m] \in Int /\ e[m] \in Int /\ (m # p => d[m] = e[m])
  BY <1>5 DEF DifferAt
<1> QED
  BY <1>3, <1>5, <1>6, <1>7, <1>8

-----------------------------------------------------------------------------
(* intel_hex: bin2mcs, a record that is damaged on the way, and mcs2bin.   *)

LEMMA HexConstants ==
  /\ HEX_BYTE \in Nat \ {0} /\ HEX_BYTE >= 2 /\ HEX_BYTE > 6 /\ BLOCK \in Nat \ {0} /\ BLOCK + 1 < HEX_BYTE
  /\ SEGMENT \in Nat \ {0} /\ SEGMENT <= HEX_BYTE * HEX_BYTE
BY HexConstantsOK

LEMMA TypeCodes ==
  /\ DOMAIN TypeCode = {"data", "eof", "segment", "start", "linear", "unknown"}
  /\ \A t \in DOMAIN TypeCode : TypeCode[t] \in 0..6
  /\ \A t, u \in DOMAIN TypeCode : t # u => TypeCode[t] # TypeCode[u]
BY DEF TypeCode

LEMMA DataSumRuns ==
  ASSUME NEW data, Len(data) \in Nat, NEW f, IsRunning(f, data, Len(data))
  PROVE  DataSum(data) = f[Len(data)]
<1> DEFINE size == Len(data)
           total == CHOOSE g : g = [k \in 0..size |-> IF k = 0 THEN 0 ELSE g[k - 1] + data[k]]
<1>1. f = [k \in 0..size |-> IF k = 0 THEN 0 ELSE f[k - 1] + data[k]]
  BY DEF IsRunning
<1>2. total = [k \in 0..size |-> IF k = 0 THEN 0 ELSE total[k - 1] + data[k]]
  BY <1>1
<1> HIDE DEF total
<1>3. \A k \in 0..size : total[k] = IF k = 0 THEN 0 ELSE total[k - 1] + data[k]
  BY <1>2
<1> DEFINE Wrong == {m \in Nat : m <= size /\ total[m] # f[m]}
<1>4. ASSUME Wrong # {} PROVE FALSE
  <2>1. PICK m \in Wrong : \A l \in Wrong : m <= l
    BY <1>4, LeastNumber
  <2>2. m # 0
    BY <1>3, <2>1 DEF IsRunning
  <2>3. m - 1 \in Nat /\ m - 1 <= size /\ m \in 1..size /\ m \in 0..size
    BY <2>1, <2>2
  <2>4. total[m - 1] = f[m - 1]
    BY <2>1, <2>3
  <2>5. total[m] = total[m - 1] + data[m]
    BY <1>3, <2>2, <2>3
  <2>6. f[m] = f[m - 1] + data[m]
    BY <2>3 DEF IsRunning
  <2> QED
    BY <2>1, <2>4, <2>5, <2>6
<1>5. total[size] = f[size]
  BY <1>4
<1> QED
  BY <1>5 DEF DataSum, total

LEMMA SeqsWithin == ASSUME NEW S, NEW T, S \subseteq T, NEW s \in Seq(S) PROVE s \in Seq(T)
  OBVIOUS

(* The sums of data that differ in one byte differ by what that differs.   *)
LEMMA DataSumBy ==
  ASSUME NEW data \in Seq(Int), NEW other \in Seq(Int), Len(other) = Len(data),
         NEW p \in 1..Len(data), \A k \in 1..Len(data) : k # p => data[k] = other[k]
  PROVE  DataSum(data) \in Int /\ DataSum(other) - DataSum(data) = other[p] - data[p]
<1> DEFINE n == Len(data)
<1>1. n \in Nat /\ \A k \in 1..n : data[k] \in Int /\ other[k] \in Int /\ (k # p => data[k] = other[k])
  OBVIOUS
<1>2. PICK f : IsRunning(f, data, n)
  BY <1>1, RunningExists
<1>3. PICK g : IsRunning(g, other, n)
  BY <1>1, RunningExists
<1>4. g[n] - f[n] = other[p] - data[p]
  <2>1. DifferAt(data, other, n, p)
    BY <1>1 DEF DifferAt
  <2> QED
    BY <1>1, <1>2, <1>3, <2>1, RunningBy
<1>5. DataSum(data) = f[n] /\ DataSum(other) = g[n]
  BY <1>1, <1>2, <1>3, DataSumRuns
<1>6. f[n] \in Int
  <2>1. f \in [0..n -> Int] /\ n \in Nat
    BY <1>1, <1>2, Zenon DEF IsRunning
  <2> HIDE DEF n
  <2> QED
    BY <2>1
<1> QED
  BY <1>4, <1>5, <1>6

LEMMA DataSumInt ==
  ASSUME NEW data \in Seq(Int)
  PROVE  DataSum(data) \in Int
<1>1. Len(data) \in Nat /\ \A k \in 1..Len(data) : data[k] \in Int
  OBVIOUS
<1>2. PICK f : IsRunning(f, data, Len(data))
  BY <1>1, RunningExists
<1>3. f[Len(data)] \in Int
  BY <1>1, <1>2 DEF IsRunning
<1> QED
  BY <1>1, <1>2, <1>3, DataSumRuns

(* The sum of a line before it is cut to a byte.                           *)
HeadSum(entry) == (entry.addr \div HEX_BYTE) + (entry.addr % HEX_BYTE) + TypeCode[entry.type]
RawSum(entry)  == entry.len + HeadSum(entry) + DataSum(entry.data)

LEMMA RawSumInt ==
  ASSUME NEW entry, entry.type \in DOMAIN TypeCode, entry.len \in Int, entry.addr \in Int,
         entry.data \in Seq(0..HEX_BYTE - 1)
  PROVE  /\ HeadSum(entry) \in Int /\ DataSum(entry.data) \in Int /\ RawSum(entry) \in Int
         /\ Sum8(entry) = RawSum(entry) % HEX_BYTE
<1>1. PICK x \in Int : x = entry.addr \div HEX_BYTE
  BY ModType, HexConstants
<1>2. PICK y \in Int : y = entry.addr % HEX_BYTE
  BY ModType, HexConstants
<1>3. entry.data \in Seq(Int)
  BY HexConstants
<1>4. PICK s \in Int : s = DataSum(entry.data)
  BY <1>3, DataSumInt
<1>5. PICK t \in Int : t = TypeCode[entry.type]
  BY TypeCodes
<1>6. HeadSum(entry) = x + y + t
  BY <1>1, <1>2, <1>5, Zenon DEF HeadSum
<1>7. RawSum(entry) = entry.len + (x + y + t) + s
  BY <1>4, <1>6, Zenon DEF RawSum
<1>8. Sum8(entry) = (entry.len + x + y + t + s) % HEX_BYTE
  BY <1>1, <1>2, <1>4, <1>5, Zenon DEF Sum8
<1>9. entry.len + x + y + t + s = entry.len + (x + y + t) + s
  OBVIOUS
<1>10. HeadSum(entry) \in Int /\ RawSum(entry) \in Int
  BY <1>6, <1>7
<1> QED
  BY <1>4, <1>7, <1>8, <1>9, <1>10, Zenon

LEMMA SumIsChecked ==
  ASSUME NEW entry \in Records
  PROVE  /\ RawSum(entry) \in Int /\ HeadSum(entry) \in Int /\ DataSum(entry.data) \in Int
         /\ Valid(entry) <=> (RawSum(entry) + entry.csum) % HEX_BYTE = 0 /\ Len(entry.data) >= entry.len
<1>1. RawSum(entry) \in Int /\ HeadSum(entry) \in Int /\ DataSum(entry.data) \in Int
      /\ Sum8(entry) = RawSum(entry) % HEX_BYTE
  <2>1. /\ entry.type \in DOMAIN TypeCode /\ entry.len \in Int /\ entry.addr \in Int
        /\ entry.data \in Seq(0..HEX_BYTE - 1)
    BY HexConstants DEF Records
  <2> QED
    BY <2>1, RawSumInt
<1>2. HEX_BYTE \in Nat \ {0} /\ entry.csum \in Int
  BY HexConstants DEF Records
<1>3. ((RawSum(entry) % HEX_BYTE) + entry.csum) % HEX_BYTE = (RawSum(entry) + entry.csum) % HEX_BYTE
  <2>1. PICK x \in Int, c \in Int : x = RawSum(entry) /\ c = entry.csum
    BY <1>1, <1>2
  <2>2. ((x % HEX_BYTE) + c) % HEX_BYTE = (x + c) % HEX_BYTE
    BY <1>2, ModSum
  <2> QED
    BY <2>1, <2>2, Zenon
<1> QED
  BY <1>1, <1>3, Zenon DEF Valid

(* Every record of bin2mcs is one that mcs2bin accepts, ...                *)
Encodable(type, addr, data) ==
  /\ type \in {"data", "eof", "linear"} /\ addr \in 0..SEGMENT - 1
  /\ data \in Seq(0..HEX_BYTE - 1) /\ Len(data) <= BLOCK + 1
Accepted(rec, type, addr, data) ==
  /\ rec \in Records /\ Valid(rec)
  /\ rec.type = type /\ rec.addr = addr /\ rec.data = data /\ rec.len = Len(data)

LEMMA RecordIsValid ==
  ASSUME NEW type, NEW addr, NEW data, Encodable(type, addr, data)
  PROVE  Accepted(Record(type, addr, data), type, addr, data)
<1>type. /\ type \in {"data", "eof", "linear"} /\ addr \in 0..SEGMENT - 1
         /\ data \in Seq(0..HEX_BYTE - 1) /\ Len(data) <= BLOCK + 1
  BY DEF Encodable
<1> DEFINE entry == [type |-> type, len |-> Len(data), addr |-> addr, data |-> data, csum |-> 0]
           c == (HEX_BYTE - Sum8(entry)) % HEX_BYTE
           rec == [type |-> type, len |-> Len(data), addr |-> addr, data |-> data, csum |-> c]
<1>1. Record(type, addr, data) = rec
  <2>1. \A x : [entry EXCEPT !.csum = x] =
                [type |-> type, len |-> Len(data), addr |-> addr, data |-> data, csum |-> x]
    OBVIOUS
  <2>2. [entry EXCEPT !.csum = c] = rec
    BY <2>1, Zenon
  <2> QED
    BY <2>2, Zenon DEF Record
<1>2. RawSum(entry) \in Int /\ Sum8(entry) = RawSum(entry) % HEX_BYTE
  <2>1. entry.type = type /\ entry.len = Len(data) /\ entry.addr = addr /\ entry.data = data
    OBVIOUS
  <2>2. Len(data) \in Int /\ addr \in Int
    BY <1>type, HexConstants
  <2> HIDE DEF entry
  <2>3. type \in DOMAIN TypeCode
    BY <1>type, TypeCodes
  <2> QED
    BY <1>type, <2>1, <2>2, <2>3, RawSumInt
<1>3. HEX_BYTE \in Nat \ {0} /\ Sum8(entry) \in 0..HEX_BYTE - 1
  BY <1>2, DivMod, HexConstants
<1>4. HEX_BYTE - Sum8(entry) \in Int
  BY <1>3
<1> HIDE DEF entry
<1>5. c \in 0..HEX_BYTE - 1 /\ c \in Int
  BY <1>3, <1>4, ModType
<1>6. RawSum(rec) = RawSum(entry)
  BY DEF RawSum, HeadSum, entry
<1>7. (RawSum(entry) + c) % HEX_BYTE = 0
  <2>1. (c + Sum8(entry)) % HEX_BYTE = (HEX_BYTE - Sum8(entry) + Sum8(entry)) % HEX_BYTE
    BY <1>3, <1>4, ModSum
  <2>2. HEX_BYTE - Sum8(entry) + Sum8(entry) = HEX_BYTE * 1 + 0
    BY <1>3
  <2>3. (HEX_BYTE * 1 + 0) % HEX_BYTE = 0
    BY <1>3, ModUnique
  <2>4. (Sum8(entry) + c) % HEX_BYTE = (RawSum(entry) + c) % HEX_BYTE
    BY <1>2, <1>3, <1>5, ModSum
  <2> QED
    BY <1>3, <1>5, <2>1, <2>2, <2>3, <2>4
<1> HIDE DEF c
<1>8. rec \in Records
  <2>1. Len(data) \in 0..HEX_BYTE - 1
    BY <1>type, HexConstants
  <2>2. type \in DOMAIN TypeCode
    BY <1>type, TypeCodes
  <2> QED
    BY <1>type, <1>5, <2>1, <2>2 DEF Records
<1>9. rec.csum = c /\ rec.type = type /\ rec.addr = addr /\ rec.data = data /\ rec.len = Len(data) /\ Len(data) \in Nat
  BY <1>type
<1> HIDE DEF rec
<1>10. Valid(rec)
  BY <1>6, <1>7, <1>8, <1>9, SumIsChecked
<1> QED
  BY <1>1, <1>8, <1>9, <1>10, Zenon DEF Accepted

LEMMA QuotientBelow ==
  ASSUME NEW b \in Nat \ {0}, NEW a \in Nat, a < b * b, NEW q \in Int, NEW r \in 0..b - 1, a = b * q + r
  PROVE  q \in 0..b - 1
<1>1. ASSUME q < 0 PROVE FALSE
  <2>1. b * q <= b * (-1)
    BY <1>1
  <2>2. b * (-1) = -b
    OBVIOUS
  <2>3. b * q \in Int
    OBVIOUS
  <2> QED
    BY <2>1, <2>2, <2>3
<1>2. ASSUME q >= b PROVE FALSE
  <2>1. b * q >= b * b /\ b * q \in Int /\ b * b \in Int
    BY <1>2
  <2> QED
    BY <2>1
<1> QED
  BY <1>1, <1>2

(* Another type, and another byte of the address, change the sum.          *)
HeadBy(entry, other) ==
  /\ HeadSum(other) # HeadSum(entry) /\ HeadSum(other) - HeadSum(entry) < HEX_BYTE
  /\ HeadSum(entry) - HeadSum(other) < HEX_BYTE

LEMMA SumsApart ==
  ASSUME NEW z \in Int, NEW t \in Int, NEW u \in Int, NEW b \in Int, t # u, t - u < b, u - t < b
  PROVE  z + u # z + t /\ (z + u) - (z + t) < b /\ (z + t) - (z + u) < b
OBVIOUS

LEMMA TypeMoves ==
  ASSUME NEW entry \in Records, NEW other \in Records, other.addr = entry.addr, other.type # entry.type
  PROVE  HeadBy(entry, other)
<1>1. entry.type \in DOMAIN TypeCode /\ other.type \in DOMAIN TypeCode /\ entry.addr \in Int
  BY HexConstants DEF Records
<1>2. PICK x \in Int, y \in Int : x = entry.addr \div HEX_BYTE /\ y = entry.addr % HEX_BYTE
  BY <1>1, ModType, HexConstants
<1>3. PICK t \in 0..6, u \in 0..6 : t = TypeCode[entry.type] /\ u = TypeCode[other.type] /\ t # u
  BY <1>1, TypeCodes
<1>4. HeadSum(entry) = x + y + t /\ HeadSum(other) = x + y + u
  BY <1>2, <1>3, Zenon DEF HeadSum
<1>5. PICK b \in Nat : b = HEX_BYTE /\ b > 6
  BY HexConstants
<1>6. PICK z \in Int : z = x + y
  BY <1>2
<1>7. t \in Int /\ u \in Int /\ b \in Int /\ t - u < b /\ u - t < b
  <2>1. t \in Int /\ u \in Int /\ t <= 6 /\ u <= 6 /\ 0 <= t /\ 0 <= u
    OBVIOUS
  <2>2. b \in Int /\ 6 < b
    BY <1>5
  <2> QED
    BY <2>1, <2>2
<1>8. z + u # z + t /\ (z + u) - (z + t) < b /\ (z + t) - (z + u) < b
  BY <1>3, <1>7, SumsApart
<1> QED
  BY <1>4, <1>5, <1>6, <1>8, Zenon DEF HeadBy

LEMMA AddressMoves ==
  ASSUME NEW entry \in Records, NEW other \in Records, other.type = entry.type, other.addr # entry.addr,
         \/ other.addr \div HEX_BYTE = entry.addr \div HEX_BYTE
         \/ other.addr % HEX_BYTE = entry.addr % HEX_BYTE
  PROVE  HeadBy(entry, other)
<1>0. entry.addr \in 0..SEGMENT - 1 /\ other.addr \in 0..SEGMENT - 1 /\ TypeCode[entry.type] \in Int
  <2>1. entry.addr \in 0..SEGMENT - 1 /\ other.addr \in 0..SEGMENT - 1 /\ entry.type \in DOMAIN TypeCode
    BY DEF Records
  <2>2. TypeCode[entry.type] \in 0..6
    BY <2>1, TypeCodes, Zenon
  <2> QED
    BY <2>1, <2>2
<1>1. PICK b \in Nat, a \in Int, c \in Int, t \in Int :
         b = HEX_BYTE /\ a = entry.addr /\ c = other.addr /\ t = TypeCode[entry.type]
  BY <1>0, HexConstants
<1>2. a \in Nat /\ c \in Nat /\ a < b * b /\ c < b * b /\ b \in Nat \ {0} /\ b * b \in Nat
  <2>1. PICK size \in Nat : size = SEGMENT /\ size <= b * b /\ b > 0 /\ a \in 0..size - 1 /\ c \in 0..size - 1
    BY <1>0, <1>1, HexConstants
  <2>2. b * b \in Nat
    OBVIOUS
  <2> QED
    BY <2>1, <2>2
<1>3. PICK q \in Int, r \in 0..b - 1 : q = a \div b /\ r = a % b /\ a = b * q + r
  <2>1. a \div b \in Int /\ a % b \in 0..b - 1 /\ a = b * (a \div b) + (a % b)
    BY <1>2, DivMod
  <2> QED
    BY <2>1, Zenon
<1>4. PICK p \in Int, s \in 0..b - 1 : p = c \div b /\ s = c % b /\ c = b * p + s
  <2>1. c \div b \in Int /\ c % b \in 0..b - 1 /\ c = b * (c \div b) + (c % b)
    BY <1>2, DivMod
  <2> QED
    BY <2>1, Zenon
<1>5. q \in 0..b - 1 /\ p \in 0..b - 1
  BY <1>2, <1>3, <1>4, QuotientBelow
<1>6. HeadSum(entry) = q + r + t /\ HeadSum(other) = p + s + t
  BY <1>1, <1>3, <1>4, Zenon DEF HeadSum
<1>7. p = q \/ r = s
  BY <1>1, <1>3, <1>4, Zenon
<1>8. a # c
  BY <1>1
<1>9. ~(p = q /\ r = s)
  BY <1>3, <1>4, <1>8, Zenon
<1>10. /\ q + r + t # p + s + t /\ (p + s + t) - (q + r + t) < b /\ (q + r + t) - (p + s + t) < b
  <2>1. q \in 0..b - 1 /\ p \in 0..b - 1 /\ r \in 0..b - 1 /\ s \in 0..b - 1
    BY <1>5
  <2> QED
    BY <2>1, <1>7, <1>9
<1> QED
  BY <1>1, <1>6, <1>10, Zenon DEF HeadBy

(* ... and none of which a byte has changed.                               *)
LEMMA DamageIsSeen ==
  ASSUME NEW entry \in Records, Valid(entry), NEW other \in Altered(entry)
  PROVE  other \in Records /\ ~Valid(other)
<1> DEFINE was == RawSum(entry) + entry.csum
           is  == RawSum(other) + other.csum
<1>1. HEX_BYTE \in Nat \ {0} /\ was \in Int /\ was % HEX_BYTE = 0 /\ RawSum(entry) \in Int
      /\ entry.csum \in 0..HEX_BYTE - 1 /\ entry.len \in 0..HEX_BYTE - 1 /\ entry.data \in Seq(0..HEX_BYTE - 1)
      /\ entry.csum \in Int /\ entry.len \in Int
  <2>1. entry.csum \in 0..HEX_BYTE - 1 /\ entry.len \in 0..HEX_BYTE - 1 /\ entry.data \in Seq(0..HEX_BYTE - 1)
    BY DEF Records
  <2>2. RawSum(entry) \in Int /\ (RawSum(entry) + entry.csum) % HEX_BYTE = 0
    BY SumIsChecked
  <2> QED
    BY <2>1, <2>2, HexConstants
<1>lin. /\ entry.csum \in Int /\ entry.len \in Int /\ entry.len \in 0..HEX_BYTE - 1 /\ HEX_BYTE \in Nat
  BY <1>1
<1>raw. PICK raw \in Int : raw = RawSum(entry)
  BY <1>1
<1> SUFFICES other \in Records /\ is - was \in Int /\ is # was /\ is - was < HEX_BYTE /\ was - is < HEX_BYTE
  <2>1. is \in Int
    BY SumIsChecked, HexConstants, SMTT(20) DEF Records
  <2> HIDE DEF is, was
  <2>2. is % HEX_BYTE # was % HEX_BYTE
    BY <1>1, <2>1, ModDiffers
  <2> QED
    BY <1>1, <2>2, SumIsChecked DEF is
<1>2. CASE \E b \in (0..HEX_BYTE - 1) \ {entry.csum} : other = [entry EXCEPT !.csum = b]
  <2>1. PICK b \in (0..HEX_BYTE - 1) \ {entry.csum} : other = [entry EXCEPT !.csum = b]
    BY <1>2
  <2>2. other \in Records /\ other.csum = b /\ other.len = entry.len /\ other.addr = entry.addr
        /\ other.type = entry.type /\ other.data = entry.data
    BY <2>1 DEF Records
  <2>3. RawSum(other) = RawSum(entry)
    BY <2>2 DEF RawSum, HeadSum
  <2>4. is = raw + b /\ was = raw + entry.csum
    BY <1>raw, <2>2, <2>3
  <2>5. PICK c \in Int : c = entry.csum
    BY <1>1
  <2>6. b \in Int /\ b # c /\ b - c < HEX_BYTE /\ c - b < HEX_BYTE
    BY <1>1, <2>1, <2>5, SMTT(20)
  <2> HIDE DEF is, was
  <2>7. is = raw + b /\ was = raw + c
    BY <2>4, <2>5
  <2>8. is - was = b - c /\ was - is = c - b
    BY <1>raw, <2>5, <2>6, <2>7
  <2>9. b - c \in Int /\ b - c # 0
    BY <2>5, <2>6
  <2>10. is \in Int /\ was \in Int
    BY <1>raw, <2>5, <2>6, <2>7
  <2>11. is - was \in Int /\ is # was /\ is - was < HEX_BYTE /\ was - is < HEX_BYTE
    BY <2>6, <2>8, <2>9, <2>10
  <2> QED
    BY <2>2, <2>11
<1>3. CASE \E n \in (0..HEX_BYTE - 1) \ {entry.len} : other = [entry EXCEPT !.len = n]
  <2>1. PICK n \in (0..HEX_BYTE - 1) \ {entry.len} : other = [entry EXCEPT !.len = n]
    BY <1>3
  <2>2. other \in Records /\ other.csum = entry.csum /\ other.len = n /\ other.addr = entry.addr
        /\ other.type = entry.type /\ other.data = entry.data
    BY <2>1 DEF Records
  <2>3. HeadSum(other) = HeadSum(entry)
    BY <2>2 DEF HeadSum
  <2>4. PICK h \in Int, t \in Int : h = HeadSum(entry) /\ t = DataSum(entry.data)
    BY SumIsChecked
  <2>5. is = n + h + t + entry.csum /\ was = entry.len + h + t + entry.csum
    BY <2>2, <2>3, <2>4 DEF RawSum
  <2>6. n # entry.len /\ n \in Int /\ entry.len \in Int /\ n - entry.len < HEX_BYTE /\ entry.len - n < HEX_BYTE
    BY <1>lin, <2>1
  <2> HIDE DEF is, was
  <2> QED
    BY <1>lin, <2>2, <2>4, <2>5, <2>6
<1>4. CASE \E d \in {[entry.data EXCEPT ![k] = b] : k \in DOMAIN entry.data, b \in 0..HEX_BYTE - 1} \ {entry.data} :
             other = [entry EXCEPT !.data = d]
  <2>1. PICK k \in DOMAIN entry.data, b \in 0..HEX_BYTE - 1 :
               [entry.data EXCEPT ![k] = b] # entry.data /\ other = [entry EXCEPT !.data = [entry.data EXCEPT ![k] = b]]
    <3> DEFINE changes == {[entry.data EXCEPT ![k] = b] : k \in DOMAIN entry.data, b \in 0..HEX_BYTE - 1}
    <3> HIDE DEF changes
    <3>1. PICK e \in changes \ {entry.data} : other = [entry EXCEPT !.data = e]
      BY <1>4 DEF changes
    <3>2. e \in changes /\ e # entry.data
      BY <3>1
    <3>3. PICK k \in DOMAIN entry.data, b \in 0..HEX_BYTE - 1 : e = [entry.data EXCEPT ![k] = b]
      BY <3>2 DEF changes
    <3> QED
      BY <3>1, <3>2, <3>3, Zenon
  <2> DEFINE d == [entry.data EXCEPT ![k] = b]
  <2>2. d \in Seq(0..HEX_BYTE - 1) /\ Len(d) = Len(entry.data) /\ k \in 1..Len(entry.data) /\ d[k] = b
        /\ \A l \in 1..Len(entry.data) : l # k => entry.data[l] = d[l]
    <3> DEFINE whole == entry.data
    <3>1. whole \in Seq(0..HEX_BYTE - 1) /\ k \in 1..Len(whole) /\ DOMAIN whole = 1..Len(whole)
      <4>1. whole \in Seq(0..HEX_BYTE - 1) /\ k \in DOMAIN whole
        BY <1>1, Zenon
      <4> HIDE DEF whole
      <4> QED
        BY <4>1
    <3> HIDE DEF whole
    <3>2. [whole EXCEPT ![k] = b] \in Seq(0..HEX_BYTE - 1) /\ Len([whole EXCEPT ![k] = b]) = Len(whole)
      BY <3>1, ExceptSeq
    <3>3. [whole EXCEPT ![k] = b][k] = b /\ \A l \in 1..Len(whole) : l # k => whole[l] = [whole EXCEPT ![k] = b][l]
      BY <3>1
    <3> QED
      BY <3>1, <3>2, <3>3, Zenon DEF whole
  <2>3. entry.data[k] # b /\ entry.data[k] \in 0..HEX_BYTE - 1
    <3> DEFINE whole == entry.data
    <3>1. whole \in Seq(0..HEX_BYTE - 1) /\ k \in 1..Len(whole) /\ [whole EXCEPT ![k] = b] # whole
      BY <1>1, <2>1, <2>2, Zenon
    <3> HIDE DEF whole
    <3>2. whole[k] \in 0..HEX_BYTE - 1
      BY <3>1, ElementOfSeq, Zenon
    <3>3. ASSUME whole[k] = b PROVE FALSE
      <4> DEFINE same == [whole EXCEPT ![k] = b]
      <4>1. same \in Seq(0..HEX_BYTE - 1) /\ Len(same) = Len(whole)
            /\ \A l \in 1..Len(whole) : same[l] = whole[l]
        BY <3>1, <3>3, ExceptSeq
      <4> HIDE DEF same
      <4>2. same = whole
        BY <3>1, <4>1, SeqEqual
      <4> QED
        BY <3>1, <4>2 DEF same
    <3> QED
      BY <3>2, <3>3 DEF whole
  <2> HIDE DEF d
  <2>4. other \in Records /\ other.csum = entry.csum /\ other.len = entry.len /\ other.addr = entry.addr
        /\ other.type = entry.type /\ other.data = d
    BY <2>1, <2>2 DEF Records, d
  <2>5. d \in Seq(Int) /\ entry.data \in Seq(Int)
    <3>1. 0..HEX_BYTE - 1 \subseteq Int
      BY <1>1
    <3> QED
      BY <1>1, <2>2, <3>1, SeqsWithin
  <2>6. DataSum(entry.data) \in Int /\ DataSum(d) - DataSum(entry.data) = b - entry.data[k] /\ DataSum(d) \in Int
    BY <2>2, <2>5, DataSumBy, DataSumInt
  <2>7. HeadSum(other) = HeadSum(entry) /\ HeadSum(entry) \in Int
    BY <2>4, SumIsChecked DEF HeadSum
  <2>8. PICK h \in Int, t \in Int, u \in Int : h = HeadSum(entry) /\ t = DataSum(entry.data) /\ u = DataSum(d)
    BY <2>6, <2>7
  <2>9. is = entry.len + h + u + entry.csum /\ was = entry.len + h + t + entry.csum
    BY <2>4, <2>7, <2>8 DEF RawSum
  <2>10. PICK w \in 0..HEX_BYTE - 1 : w = entry.data[k]
    BY <2>3
  <2>11. u - t = b - w /\ b # w
    BY <2>3, <2>6, <2>8, <2>10
  <2> HIDE DEF is, was
  <2> QED
    BY <1>lin, <2>4, <2>8, <2>9, <2>10, <2>11
<1> DEFINE Moved == {b \in (0..SEGMENT - 1) \ {entry.addr} : \/ b \div HEX_BYTE = entry.addr \div HEX_BYTE
                                                          \/ b % HEX_BYTE = entry.addr % HEX_BYTE}
<1>head. ASSUME other \in Records, other.csum = entry.csum, other.len = entry.len, other.data = entry.data,
                HeadBy(entry, other)
         PROVE  is - was \in Int /\ is # was /\ is - was < HEX_BYTE /\ was - is < HEX_BYTE
  <2>1. PICK h \in Int, g \in Int, t \in Int : h = HeadSum(entry) /\ g = HeadSum(other) /\ t = DataSum(entry.data)
    BY <1>head, SumIsChecked
  <2>2. is = entry.len + g + t + entry.csum /\ was = entry.len + h + t + entry.csum
    BY <1>head, <2>1 DEF RawSum
  <2>3. g # h /\ g - h < HEX_BYTE /\ h - g < HEX_BYTE
    BY <1>head, <2>1 DEF HeadBy
  <2> HIDE DEF is, was
  <2> QED
    BY <1>lin, <2>1, <2>2, <2>3
<1>5. CASE \E t \in DOMAIN TypeCode \ {entry.type} : other = [entry EXCEPT !.type = t]
  <2>1. PICK t \in DOMAIN TypeCode \ {entry.type} : other = [entry EXCEPT !.type = t]
    BY <1>5
  <2>2. other \in Records /\ other.csum = entry.csum /\ other.len = entry.len /\ other.addr = entry.addr
        /\ other.type = t /\ other.data = entry.data
    BY <2>1 DEF Records
  <2> HIDE DEF is, was, Moved
  <2> QED
    BY <1>head, <2>1, <2>2, TypeMoves
<1>6. CASE \E a \in Moved : other = [entry EXCEPT !.addr = a]
  <2>1. PICK a \in Moved : other = [entry EXCEPT !.addr = a]
    BY <1>6
  <2>2. /\ a \in 0..SEGMENT - 1 /\ a # entry.addr
        /\ a \div HEX_BYTE = entry.addr \div HEX_BYTE \/ a % HEX_BYTE = entry.addr % HEX_BYTE
    BY <2>1
  <2>3. other \in Records /\ other.csum = entry.csum /\ other.len = entry.len /\ other.addr = a
        /\ other.type = entry.type /\ other.data = entry.data
    BY <2>1, <2>2 DEF Records
  <2> HIDE DEF is, was, Moved
  <2> QED
    BY <1>head, <2>2, <2>3, AddressMoves
<1> DEFINE ByCsum == {[entry EXCEPT !.csum = b] : b \in (0..HEX_BYTE - 1) \ {entry.csum}}
           ByLen == {[entry EXCEPT !.len = n] : n \in (0..HEX_BYTE - 1) \ {entry.len}}
           ByType == {[entry EXCEPT !.type = t] : t \in DOMAIN TypeCode \ {entry.type}}
           ByAddr == {[entry EXCEPT !.addr = a] : a \in Moved}
           ByData == {[entry EXCEPT !.data = d] :
                       d \in {[entry.data EXCEPT ![k] = b] : k \in DOMAIN entry.data, b \in 0..HEX_BYTE - 1}
                             \ {entry.data}}
<1>7. other \in ByCsum \cup ByLen \cup ByType \cup ByAddr \cup ByData
  BY SMTT(30) DEF Altered
<1> HIDE DEF Moved, ByCsum, ByLen, ByType, ByAddr, ByData, is, was
<1>8. \/ other \in ByCsum \/ other \in ByLen \/ other \in ByType \/ other \in ByAddr \/ other \in ByData
  BY <1>7, Zenon
<1>9. CASE other \in ByCsum
  BY <1>2, <1>9, Zenon DEF ByCsum
<1>10. CASE other \in ByLen
  BY <1>3, <1>10, Zenon DEF ByLen
<1>11. CASE other \in ByType
  BY <1>5, <1>11, Zenon DEF ByType
<1>12. CASE other \in ByAddr
  BY <1>6, <1>12, Zenon DEF ByAddr
<1>13. CASE other \in ByData
  BY <1>4, <1>13, SMTT(30) DEF ByData
<1> QED
  BY <1>8, <1>9, <1>10, <1>11, <1>12, <1>13

(* What the line at o may be, which is behind what begins at b, to bring   *)
(* mcs2bin to o2 in what begins at b2: the record bin2mcs wrote, or, in a  *)
(* damaged listing, one that is not accepted.                              *)
DataAt(file, o, b, o2) == Record("data", o - b, SubSeq(file, o + 1, o2))
Reads(entry, rec, dmg) == entry = rec \/ (dmg = TRUE /\ ~Valid(entry))
MovesData(entry, file, dmg, o, b, o2, b2) ==
  o < o2 /\ o2 <= o + BLOCK /\ b2 = b /\ Reads(entry, DataAt(file, o, b, o2), dmg)
MovesLinear(entry, file, dmg, o, b, o2, b2) ==
  /\ o2 = o /\ b2 = o
  /\ \E a \in 0..HEX_BYTE * HEX_BYTE - 1 : o = a * SEGMENT /\ Reads(entry, ExtLinearAddr(a), dmg)
Moves2(entry, file, dmg, o, b, o2, b2) ==
  MovesData(entry, file, dmg, o, b, o2, b2) \/ MovesLinear(entry, file, dmg, o, b, o2, b2)
EndsAt(entry, file, dmg, o) == o = Len(file) /\ Reads(entry, EofRecord, dmg)

(* The lines of a listing bring mcs2bin from 0 to the end of the file.     *)
Path(ls, file, off, base) ==
  /\ off \in [1..Len(ls) + 1 -> 0..Len(file)] /\ base \in [1..Len(ls) + 1 -> 0..Len(file)]
  /\ off[1] = 0 /\ base[1] = 0
  /\ \A k \in 1..Len(ls) + 1 : base[k] <= off[k] /\ off[k] - base[k] <= SEGMENT
Begun(ls, file, off, base) ==
  /\ Path(ls, file, off, base)
  /\ \A k \in 1..Len(ls) : Moves2(ls[k], file, FALSE, off[k], base[k], off[k + 1], base[k + 1])
Complete(ls, file, dmg, off, base) ==
  /\ Path(ls, file, off, base)
  /\ \A k \in 1..Len(ls) : IF k = Len(ls) THEN EndsAt(ls[k], file, dmg, off[k])
                           ELSE Moves2(ls[k], file, dmg, off[k], base[k], off[k + 1], base[k + 1])
  /\ Len(ls) = 0 => Len(file) = 0

(* bin2mcs writes where the listing ends, ...                              *)
WriterAt(off, base) ==
  /\ bin # <<>> /\ i \in Nat /\ addrExt \in Nat \ {0}
  /\ off[Len(mcs) + 1] = IF i <= Len(bin) THEN i ELSE Len(bin)
  /\ base[Len(mcs) + 1] = (addrExt - 1) * SEGMENT
  /\ i = base[Len(mcs) + 1] + j
  /\ j <= SEGMENT /\ \E q \in Nat : j = BLOCK * q
  /\ i < Len(bin) => remainSize = Len(bin) - i

(* ... and mcs2bin has the file up to the line it reads.                   *)
ReaderAt(off, base) ==
  /\ lineCount \in Nat /\ (lineCount < Len(mcs) \/ lineCount = 0)
  /\ addrInit = base[lineCount + 1] /\ addrInit + binLen = off[lineCount + 1]
  /\ binLen \in Nat /\ addrNext = off[lineCount + 1] % WORD32
  /\ Len(image) = addrInit /\ \A p \in 1..addrInit : image[p] = bin[p]
  /\ \A a \in 0..binLen - 1 : binBuff[a] = bin[addrInit + a + 1]

HexPlace ==
  /\ bin \in HexFiles /\ mcs \in Seq(Records) /\ damaged \in BOOLEAN
  /\ image \in Seq(0..HEX_BYTE - 1) /\ binBuff \in [0..SEGMENT - 1 -> 0..HEX_BYTE - 1]
  /\ hexPc \in {"bin2mcs", "written"} => lineCount = 0
HexAt(off, base) ==
  /\ hexPc = "bin2mcs" => damaged = FALSE /\ Begun(mcs, bin, off, base) /\ WriterAt(off, base)
  /\ hexPc # "bin2mcs" => Complete(mcs, bin, damaged, off, base)
  /\ hexPc # "done" => ReaderAt(off, base)
HexInv ==
  /\ hexPc \in {"bin2mcs", "written", "mcs2bin", "done"} /\ written \in BOOLEAN
  /\ written = TRUE => HexPlace /\ (\E off, base : HexAt(off, base)) /\ RestoresFile

LEMMA FileFacts ==
  ASSUME NEW file \in HexFiles
  PROVE  file \in Seq(0..HEX_BYTE - 1) /\ Len(file) \in Nat /\ Len(file) <= WORD32
BY HexConstantsOK

LEMMA WordFacts ==
  /\ WORD32 \in Nat \ {0} /\ HEX_BYTE * HEX_BYTE \in Nat
  /\ \A a \in Int : a < HEX_BYTE * HEX_BYTE => a * SEGMENT < WORD32
  /\ \A a \in Nat : a * SEGMENT \in Nat /\ (a + 1) * SEGMENT = a * SEGMENT + SEGMENT
  /\ \A a \in Nat : a * SEGMENT < WORD32 => a < HEX_BYTE * HEX_BYTE
<1> DEFINE h == HEX_BYTE * HEX_BYTE
<1>1. h \in Nat \ {0}
  BY HexConstants
<1>2. WORD32 = h * SEGMENT /\ SEGMENT \in Nat \ {0}
  BY HexConstants DEF WORD32
<1> HIDE DEF h
<1>3. WORD32 \in Nat \ {0}
  BY <1>1, <1>2
<1>4. ASSUME NEW a \in Int, a < h PROVE a * SEGMENT < WORD32
  <2>1. PICK s \in Nat \ {0} : s = SEGMENT
    BY <1>2
  <2>2. a * s < h * s
    BY <1>1, <1>4
  <2> QED
    BY <1>2, <2>1, <2>2
<1>5. ASSUME NEW a \in Nat PROVE a * SEGMENT \in Nat /\ (a + 1) * SEGMENT = a * SEGMENT + SEGMENT
  BY <1>2
<1>6. ASSUME NEW a \in Nat, a * SEGMENT < WORD32 PROVE a < h
  <2>1. PICK s \in Nat \ {0} : s = SEGMENT
    BY <1>2
  <2>2. CASE a >= h
    <3>1. a * s >= h * s
      BY <1>1, <2>2
    <3> QED
      BY <1>1, <1>2, <1>6, <2>1, <3>1
  <2> QED
    BY <1>1, <2>2
<1> QED
  BY <1>1, <1>3, <1>4, <1>5, <1>6 DEF h

LEMMA DataRecord ==
  ASSUME NEW file \in HexFiles, NEW o \in Nat, NEW b \in Nat, NEW o2 \in 0..Len(file), b <= o, o < o2,
         o2 <= o + BLOCK, o2 - b <= SEGMENT
  PROVE  LET rec == DataAt(file, o, b, o2)
         IN  /\ rec \in Records /\ Valid(rec) /\ rec.type = "data" /\ rec.addr = o - b /\ rec.len = o2 - o
             /\ \A k \in 1..o2 - o : rec.data[k] = file[o + k]
<1>1. file \in Seq(0..HEX_BYTE - 1) /\ Len(file) \in Nat
  BY FileFacts
<1>2. o - b \in 0..SEGMENT - 1 /\ o2 \in Nat /\ o2 - o \in Nat /\ o2 - o <= BLOCK + 1
  BY <1>1, HexConstants
<1> DEFINE data == SubSeq(file, o + 1, o2)
<1>3. data \in Seq(0..HEX_BYTE - 1) /\ Len(data) = o2 - o /\ \A k \in 1..o2 - o : data[k] = file[o + k]
  <2>1. o + 1 \in 1..Len(file) + 1 /\ o2 \in o..Len(file) /\ o2 + 1 - (o + 1) = o2 - o
    BY <1>1
  <2>2. data \in Seq(0..HEX_BYTE - 1)
    <3>1. ASSUME NEW k \in o + 1..o2 PROVE file[k] \in 0..HEX_BYTE - 1
      <4>1. k \in 1..Len(file)
        BY <1>1, <2>1
      <4> QED
        BY <1>1, <4>1, ElementOfSeq, Zenon
    <3>2. o + 1 \in Int /\ o2 \in Int
      BY <1>2
    <3> QED
      BY <3>1, <3>2, SubSeqProperties, Zenon DEF data
  <2>3. Len(data) = o2 - o
    BY <1>1, <2>1
  <2>4. ASSUME NEW k \in 1..o2 - o PROVE data[k] = file[o + k]
    <3>1. data[k] = file[o + 1 + k - 1] /\ o + 1 + k - 1 = o + k
      BY <1>1, <1>2, <2>1
    <3> QED
      BY <3>1, Zenon
  <2> QED
    BY <2>2, <2>3, <2>4
<1> HIDE DEF data
<1> DEFINE rec == Record("data", o - b, data)
<1>4. Accepted(rec, "data", o - b, data)
  <2>1. Encodable("data", o - b, data)
    BY <1>2, <1>3 DEF Encodable
  <2> QED
    BY <2>1, RecordIsValid
<1> QED
  BY <1>3, <1>4 DEF data, Accepted, DataAt

LEMMA EofIsRecord == EofRecord \in Records /\ Valid(EofRecord) /\ EofRecord.type = "eof"
<1>1. Encodable("eof", 0, <<>>)
  BY HexConstants DEF Encodable
<1>2. Accepted(Record("eof", 0, <<>>), "eof", 0, <<>>)
  BY <1>1, RecordIsValid
<1> QED
  BY <1>2, Zenon DEF EofRecord, Accepted

LEMMA LinearRecord ==
  ASSUME NEW a \in 0..HEX_BYTE * HEX_BYTE - 1
  PROVE  LET rec == ExtLinearAddr(a)
         IN  rec \in Records /\ Valid(rec) /\ rec.type = "linear" /\ Segment(rec) = a * SEGMENT
<1> DEFINE q == a \div HEX_BYTE
           r == a % HEX_BYTE
<1>1. q \in Int /\ r \in 0..HEX_BYTE - 1 /\ a = HEX_BYTE * q + r
  BY DivMod, HexConstants, WordFacts
<1>2. PICK h \in Nat : h = HEX_BYTE /\ h >= 2
  BY HexConstants
<1> HIDE DEF q, r
<1>3. a \in Int /\ 0 <= a /\ a < h * h
  BY <1>2, WordFacts
<1>4. q < h
  <2>1. CASE q >= h
    <3>1. h * q >= h * h
      BY <1>1, <1>2, <2>1
    <3> QED
      BY <1>1, <1>2, <1>3, <3>1
  <2> QED
    BY <1>1, <1>2, <2>1
<1>5. q >= 0
  <2>1. CASE q <= -1
    <3>1. h * q <= -h
      BY <1>1, <1>2, <2>1
    <3> QED
      BY <1>1, <1>2, <1>3, <3>1
  <2> QED
    BY <1>1, <2>1
<1>6. q \in 0..HEX_BYTE - 1
  BY <1>1, <1>2, <1>4, <1>5
<1>7. <<q, r>> \in Seq(0..HEX_BYTE - 1) /\ Len(<<q, r>>) = 2 /\ <<q, r>>[1] = q /\ <<q, r>>[2] = r
  BY <1>1, <1>6
<1>8. 0 \in 0..SEGMENT - 1 /\ 2 <= BLOCK + 1
  BY HexConstants
<1>9. ExtLinearAddr(a) = Record("linear", 0, <<q, r>>)
  BY DEF ExtLinearAddr, q, r
<1> DEFINE rec == Record("linear", 0, <<q, r>>)
<1>10. Accepted(rec, "linear", 0, <<q, r>>)
  <2>1. Encodable("linear", 0, <<q, r>>)
    BY <1>7, <1>8 DEF Encodable
  <2> QED
    BY <2>1, RecordIsValid
<1> HIDE DEF rec
<1>11. Segment(rec) = (q * HEX_BYTE + r) * SEGMENT
  BY <1>7, <1>10 DEF Segment, Accepted
<1>12. q * HEX_BYTE + r = a
  BY <1>1, HexConstants
<1> QED
  BY <1>9, <1>10, <1>11, <1>12 DEF rec, Accepted

LEMMA LineMore ==
  ASSUME NEW s \in Seq(Records), NEW e \in Records
  PROVE  /\ s \o <<e>> \in Seq(Records) /\ Len(s \o <<e>>) = Len(s) + 1 /\ Append(s, e) = s \o <<e>>
         /\ (s \o <<e>>)[Len(s) + 1] = e /\ \A k \in 1..Len(s) : (s \o <<e>>)[k] = s[k]
         /\ Len(s) \in Nat
<1>1. Append(s, e) = s \o <<e>>
  BY AppendIsConcat
<1>2. Append(s, e) \in Seq(Records) /\ Len(Append(s, e)) = Len(s) + 1 /\ Append(s, e)[Len(s) + 1] = e
      /\ (\A k \in 1..Len(s) : Append(s, e)[k] = s[k]) /\ Len(s) \in Nat
  OBVIOUS
<1> QED
  BY <1>1, <1>2, Zenon

(* A line more.                                                            *)
Longer(f, n, x) == [k \in 1..n + 2 |-> IF k = n + 2 THEN x ELSE f[k]]

LEMMA PathLonger ==
  ASSUME NEW file \in HexFiles, NEW ls \in Seq(Records), NEW off, NEW base, Path(ls, file, off, base),
         NEW entry \in Records, NEW o2 \in 0..Len(file), NEW b2 \in 0..Len(file), b2 <= o2, o2 - b2 <= SEGMENT
  PROVE  Path(ls \o <<entry>>, file, Longer(off, Len(ls), o2), Longer(base, Len(ls), b2))
<1> DEFINE n == Len(ls)
           f == Longer(off, n, o2)
           g == Longer(base, n, b2)
<1>1. n \in Nat /\ Len(ls \o <<entry>>) = n + 1
  BY LineMore
<1>2. off \in [1..n + 1 -> 0..Len(file)] /\ base \in [1..n + 1 -> 0..Len(file)] /\ off[1] = 0 /\ base[1] = 0
      /\ \A k \in 1..n + 1 : base[k] <= off[k] /\ off[k] - base[k] <= SEGMENT
  BY DEF Path
<1> HIDE DEF n
<1>3. f \in [1..(n + 1) + 1 -> 0..Len(file)] /\ f[n + 2] = o2 /\ \A k \in 1..n + 1 : f[k] = off[k]
  BY <1>1, <1>2 DEF Longer
<1>4. g \in [1..(n + 1) + 1 -> 0..Len(file)] /\ g[n + 2] = b2 /\ \A k \in 1..n + 1 : g[k] = base[k]
  BY <1>1, <1>2 DEF Longer
<1> HIDE DEF f, g
<1>5. f[1] = 0 /\ g[1] = 0
  BY <1>1, <1>2, <1>3, <1>4
<1>6. ASSUME NEW k \in 1..(n + 1) + 1 PROVE g[k] <= f[k] /\ f[k] - g[k] <= SEGMENT
  <2>1. CASE k = n + 2
    BY <1>3, <1>4, <2>1
  <2>2. CASE k \in 1..n + 1
    BY <1>2, <1>3, <1>4, <2>2
  <2> QED
    BY <1>1, <2>1, <2>2
<1> QED
  BY <1>1, <1>3, <1>4, <1>5, <1>6 DEF Path, f, g, n

LEMMA BegunLonger ==
  ASSUME NEW file \in HexFiles, NEW ls \in Seq(Records), NEW off, NEW base, Begun(ls, file, off, base),
         NEW entry \in Records, NEW o2 \in 0..Len(file), NEW b2 \in 0..Len(file), b2 <= o2, o2 - b2 <= SEGMENT,
         Moves2(entry, file, FALSE, off[Len(ls) + 1], base[Len(ls) + 1], o2, b2)
  PROVE  Begun(ls \o <<entry>>, file, Longer(off, Len(ls), o2), Longer(base, Len(ls), b2))
<1> DEFINE n == Len(ls)
           f == Longer(off, n, o2)
           g == Longer(base, n, b2)
           ms == ls \o <<entry>>
<1>1. n \in Nat /\ Len(ms) = n + 1 /\ ms[n + 1] = entry /\ \A k \in 1..n : ms[k] = ls[k]
  BY LineMore
<1>2. Path(ls, file, off, base) /\ off \in [1..n + 1 -> 0..Len(file)] /\ base \in [1..n + 1 -> 0..Len(file)]
      /\ \A k \in 1..n : Moves2(ls[k], file, FALSE, off[k], base[k], off[k + 1], base[k + 1])
  BY DEF Begun, Path
<1>3. Path(ms, file, f, g)
  BY <1>2, PathLonger
<1>4. Moves2(entry, file, FALSE, off[n + 1], base[n + 1], o2, b2)
  OBVIOUS
<1> HIDE DEF n, ms
<1>5. f[n + 2] = o2 /\ \A k \in 1..n + 1 : f[k] = off[k]
  BY <1>1, <1>2 DEF Longer
<1>6. g[n + 2] = b2 /\ \A k \in 1..n + 1 : g[k] = base[k]
  BY <1>1, <1>2 DEF Longer
<1> HIDE DEF f, g
<1>7. ASSUME NEW k \in 1..n + 1 PROVE Moves2(ms[k], file, FALSE, f[k], g[k], f[k + 1], g[k + 1])
  <2>1. CASE k = n + 1
    <3>1. k + 1 = n + 2
      BY <1>1, <2>1
    <3>2. ms[k] = entry /\ f[k] = off[n + 1] /\ g[k] = base[n + 1] /\ f[k + 1] = o2 /\ g[k + 1] = b2
      BY <1>1, <1>5, <1>6, <2>1, <3>1
    <3> QED
      BY <1>4, <3>2, Zenon
  <2>2. CASE k \in 1..n
    <3>1. k + 1 \in 1..n + 1
      BY <1>1, <2>2
    <3>2. ms[k] = ls[k] /\ f[k] = off[k] /\ g[k] = base[k] /\ f[k + 1] = off[k + 1] /\ g[k + 1] = base[k + 1]
      BY <1>1, <1>5, <1>6, <2>2, <3>1
    <3> QED
      BY <1>2, <2>2, <3>2, Zenon
  <2>3. k = n + 1 \/ k \in 1..n
    BY <1>1
  <2> QED
    BY <2>1, <2>2, <2>3, Zenon
<1> QED
  BY <1>1, <1>3, <1>7 DEF Begun, f, g, n, ms

Ending(ls, file, off, base, f, g) ==
  /\ Complete(ls \o <<EofRecord>>, file, FALSE, f, g)
  /\ \A k \in 1..Len(ls) + 1 : f[k] = off[k] /\ g[k] = base[k]

LEMMA CompleteFromBegun ==
  ASSUME NEW file \in HexFiles, NEW ls \in Seq(Records), NEW off, NEW base, Begun(ls, file, off, base),
         off[Len(ls) + 1] = Len(file)
  PROVE  \E f, g : Ending(ls, file, off, base, f, g)
<1> DEFINE n == Len(ls)
           f == Longer(off, n, off[n + 1])
           g == Longer(base, n, base[n + 1])
           ms == ls \o <<EofRecord>>
<1>0. EofRecord \in Records
  BY EofIsRecord
<1>1. n \in Nat /\ Len(ms) = n + 1 /\ ms[n + 1] = EofRecord /\ \A k \in 1..n : ms[k] = ls[k]
  BY <1>0, LineMore
<1>2. Path(ls, file, off, base) /\ off \in [1..n + 1 -> 0..Len(file)] /\ base \in [1..n + 1 -> 0..Len(file)]
      /\ (\A k \in 1..n : Moves2(ls[k], file, FALSE, off[k], base[k], off[k + 1], base[k + 1]))
      /\ \A k \in 1..n + 1 : base[k] <= off[k] /\ off[k] - base[k] <= SEGMENT
  BY DEF Begun, Path
<1>e. off[n + 1] = Len(file)
  OBVIOUS
<1>3. n + 1 \in 1..n + 1 /\ off[n + 1] \in 0..Len(file) /\ base[n + 1] \in 0..Len(file)
      /\ base[n + 1] <= off[n + 1] /\ off[n + 1] - base[n + 1] <= SEGMENT
  BY <1>1, <1>2
<1>4. Path(ms, file, f, g)
  BY <1>0, <1>2, <1>3, PathLonger
<1> HIDE DEF n, ms
<1>5. f[n + 2] = off[n + 1] /\ \A k \in 1..n + 1 : f[k] = off[k]
  BY <1>1, <1>2, <1>3 DEF Longer
<1>6. g[n + 2] = base[n + 1] /\ \A k \in 1..n + 1 : g[k] = base[k]
  BY <1>1, <1>2, <1>3 DEF Longer
<1> HIDE DEF f, g
<1>7. ASSUME NEW k \in 1..n + 1, k # n + 1 PROVE Moves2(ms[k], file, FALSE, f[k], g[k], f[k + 1], g[k + 1])
  <2>1. k + 1 \in 1..n + 1 /\ k \in 1..n
    BY <1>1, <1>7
  <2>2. ms[k] = ls[k] /\ f[k] = off[k] /\ g[k] = base[k] /\ f[k + 1] = off[k + 1] /\ g[k + 1] = base[k + 1]
    BY <1>1, <1>5, <1>6, <2>1
  <2> QED
    BY <1>2, <2>1, <2>2, Zenon
<1>8. EndsAt(ms[n + 1], file, FALSE, f[n + 1])
  <2>1. f[n + 1] = Len(file)
    BY <1>3, <1>5, <1>e
  <2> QED
    BY <1>1, <2>1 DEF EndsAt, Reads
<1>9. Complete(ms, file, FALSE, f, g)
  <2>1. Len(ms) # 0
    BY <1>1
  <2> QED
    BY <1>1, <1>4, <1>7, <1>8, <2>1, Zenon DEF Complete
<1>10. \A k \in 1..n + 1 : f[k] = off[k] /\ g[k] = base[k]
  BY <1>5, <1>6, Zenon
<1>11. Ending(ls, file, off, base, f, g)
  BY <1>9, <1>10, Zenon DEF Ending, n, ms
<1> QED
  BY <1>11

(* A record that changed is not accepted any more.                         *)
LEMMA CompleteDamaged ==
  ASSUME NEW file \in HexFiles, NEW ls \in Seq(Records), NEW off, NEW base, Complete(ls, file, FALSE, off, base),
         NEW k \in 1..Len(ls), NEW entry \in Records, ~Valid(entry)
  PROVE  Complete([ls EXCEPT ![k] = entry], file, TRUE, off, base)
<1> DEFINE ms == [ls EXCEPT ![k] = entry]
           n  == Len(ls)
<1>1. Len(ms) = n /\ n \in Nat /\ \A l \in 1..n : ms[l] = IF l = k THEN entry ELSE ls[l]
  BY ExceptSeq, LenProperties
<1>2. Path(ls, file, off, base) /\ (n = 0 => Len(file) = 0)
      /\ \A l \in 1..n : IF l = n THEN EndsAt(ls[l], file, FALSE, off[l])
                         ELSE Moves2(ls[l], file, FALSE, off[l], base[l], off[l + 1], base[l + 1])
  BY DEF Complete
<1>3. Path(ms, file, off, base)
  BY <1>1, <1>2, Zenon DEF Path
<1> HIDE DEF ms, n
<1>4. ASSUME NEW rec, NEW old, NEW l \in 1..n, old = ls[l], Reads(old, rec, FALSE) PROVE Reads(ms[l], rec, TRUE)
  <2>1. old = rec
    BY <1>4 DEF Reads
  <2>2. CASE l = k
    BY <1>1, <2>2 DEF Reads
  <2>3. CASE l # k
    BY <1>1, <1>4, <2>1, <2>3 DEF Reads
  <2> QED
    BY <2>2, <2>3
<1>5. ASSUME NEW l \in 1..n, l = n PROVE EndsAt(ms[l], file, TRUE, off[l])
  BY <1>2, <1>4, <1>5 DEF EndsAt
<1>6. ASSUME NEW l \in 1..n, l # n PROVE Moves2(ms[l], file, TRUE, off[l], base[l], off[l + 1], base[l + 1])
  <2>1. Moves2(ls[l], file, FALSE, off[l], base[l], off[l + 1], base[l + 1])
    BY <1>2, <1>6
  <2>2. ASSUME MovesData(ls[l], file, FALSE, off[l], base[l], off[l + 1], base[l + 1])
        PROVE  MovesData(ms[l], file, TRUE, off[l], base[l], off[l + 1], base[l + 1])
    BY <1>4, <2>2 DEF MovesData
  <2>3. ASSUME MovesLinear(ls[l], file, FALSE, off[l], base[l], off[l + 1], base[l + 1])
        PROVE  MovesLinear(ms[l], file, TRUE, off[l], base[l], off[l + 1], base[l + 1])
    BY <1>4, <2>3, Zenon DEF MovesLinear
  <2> QED
    BY <2>1, <2>2, <2>3 DEF Moves2
<1> QED
  BY <1>1, <1>2, <1>3, <1>5, <1>6 DEF Complete, ms, n

(* What mcs2bin makes of a line it accepts.                                *)
LEMMA AcceptedLine ==
  ASSUME NEW file \in HexFiles, NEW ls \in Seq(Records), NEW dmg, NEW off, NEW base,
         Complete(ls, file, dmg, off, base), NEW k \in 1..Len(ls), Valid(ls[k])
  PROVE  /\ ls[k].type \in {"data", "linear", "eof"}
         /\ ls[k].type = "data" =>
              /\ k < Len(ls) /\ off[k] < off[k + 1] /\ base[k + 1] = base[k]
              /\ ls[k].addr = off[k] - base[k] /\ ls[k].len = off[k + 1] - off[k]
              /\ \A l \in 1..off[k + 1] - off[k] : ls[k].data[l] = file[off[k] + l]
         /\ ls[k].type = "linear" =>
              /\ k < Len(ls) /\ off[k + 1] = off[k] /\ base[k + 1] = off[k]
              /\ Segment(ls[k]) = off[k] /\ off[k] < WORD32
         /\ ls[k].type = "eof" => off[k] = Len(file)
<1> DEFINE entry == ls[k]
           n == Len(ls)
<1>1. n \in Nat /\ (k = n \/ (k < n /\ k + 1 \in 1..n)) /\ k \in 1..n + 1 /\ k + 1 \in 1..n + 1
  BY LenProperties
<1>2. Path(ls, file, off, base)
      /\ IF k = n THEN EndsAt(entry, file, dmg, off[k])
         ELSE Moves2(entry, file, dmg, off[k], base[k], off[k + 1], base[k + 1])
  BY DEF Complete
<1>v. Valid(entry)
  OBVIOUS
<1>f. Len(file) \in Nat
  BY FileFacts
<1> DEFINE o == off[k]
           b == base[k]
           o2 == off[k + 1]
           b2 == base[k + 1]
<1>3. o \in 0..Len(file) /\ b \in 0..Len(file) /\ o2 \in 0..Len(file) /\ b2 \in 0..Len(file)
      /\ b <= o /\ o - b <= SEGMENT /\ b2 <= o2 /\ o2 - b2 <= SEGMENT
  BY <1>1, <1>2 DEF Path
<1> HIDE DEF entry, n, o, b, o2, b2
<1>4. ASSUME NEW rec, Reads(entry, rec, dmg) PROVE entry = rec
  BY <1>4, <1>v DEF Reads
<1>5. CASE k = n
  <2>1. entry = EofRecord /\ o = Len(file)
    BY <1>2, <1>4, <1>5 DEF EndsAt, o
  <2>2. entry.type = "eof"
    BY <2>1, EofIsRecord
  <2> QED
    BY <2>1, <2>2 DEF entry, o
<1>6. CASE k < n /\ MovesData(entry, file, dmg, o, b, o2, b2)
  <2>1. o < o2 /\ o2 <= o + BLOCK /\ b2 = b /\ entry = DataAt(file, o, b, o2)
    BY <1>4, <1>6 DEF MovesData
  <2>2. o \in Nat /\ b \in Nat /\ o2 - b <= SEGMENT
    BY <1>3, <1>f, <2>1
  <2>3. entry.type = "data" /\ entry.addr = o - b /\ entry.len = o2 - o
        /\ \A l \in 1..o2 - o : entry.data[l] = file[o + l]
    BY <1>3, <2>1, <2>2, DataRecord, SMTT(20)
  <2> QED
    BY <1>6, <2>1, <2>3 DEF entry, o, b, o2, b2, n
<1>7. CASE k < n /\ MovesLinear(entry, file, dmg, o, b, o2, b2)
  <2>1. PICK a \in 0..HEX_BYTE * HEX_BYTE - 1 : o = a * SEGMENT /\ Reads(entry, ExtLinearAddr(a), dmg)
    BY <1>7, Zenon DEF MovesLinear
  <2>2. entry = ExtLinearAddr(a) /\ o2 = o /\ b2 = o
    BY <1>4, <1>7, <2>1, Zenon DEF MovesLinear
  <2>3. entry.type = "linear" /\ Segment(entry) = a * SEGMENT
    BY <2>2, LinearRecord
  <2>4. a * SEGMENT < WORD32
    <3>1. a \in Int /\ a < HEX_BYTE * HEX_BYTE
      BY WordFacts
    <3> QED
      BY <3>1, WordFacts
  <2> QED
    BY <1>7, <2>1, <2>2, <2>3, <2>4 DEF entry, o, o2, b2, n
<1>8. k = n \/ (k < n /\ (MovesData(entry, file, dmg, o, b, o2, b2) \/ MovesLinear(entry, file, dmg, o, b, o2, b2)))
  BY <1>1, <1>2 DEF Moves2, o, b, o2, b2
<1> QED
  BY <1>5, <1>6, <1>7, <1>8

LEMMA UndamagedIsValid ==
  ASSUME NEW file \in HexFiles, NEW ls \in Seq(Records), NEW off, NEW base,
         Complete(ls, file, FALSE, off, base), NEW k \in 1..Len(ls)
  PROVE  Valid(ls[k])
<1> DEFINE entry == ls[k]
           n == Len(ls)
<1>1. n \in Nat /\ k \in 1..n + 1 /\ k + 1 \in 1..(n + 1) + 1 /\ (k # n => k + 1 \in 1..n + 1)
  BY LenProperties
<1>2. Path(ls, file, off, base)
      /\ IF k = n THEN EndsAt(entry, file, FALSE, off[k])
         ELSE Moves2(entry, file, FALSE, off[k], base[k], off[k + 1], base[k + 1])
  BY DEF Complete
<1>f. Len(file) \in Nat
  BY FileFacts
<1>3. CASE k = n
  BY <1>2, <1>3, EofIsRecord DEF EndsAt, Reads
<1>4. CASE k # n
  <2> DEFINE o == off[k]
             b == base[k]
             o2 == off[k + 1]
             b2 == base[k + 1]
  <2>1. o \in 0..Len(file) /\ b \in 0..Len(file) /\ o2 \in 0..Len(file) /\ b2 \in 0..Len(file)
        /\ b <= o /\ o - b <= SEGMENT /\ b2 <= o2 /\ o2 - b2 <= SEGMENT
    BY <1>1, <1>2, <1>4 DEF Path
  <2>m. Moves2(entry, file, FALSE, o, b, o2, b2)
    BY <1>2, <1>4
  <2> HIDE DEF entry, n, o, b, o2, b2
  <2>2. CASE MovesData(entry, file, FALSE, o, b, o2, b2)
    <3>1. o < o2 /\ o2 <= o + BLOCK /\ b2 = b /\ entry = DataAt(file, o, b, o2)
      BY <2>2 DEF MovesData, Reads
    <3>2. o \in Nat /\ b \in Nat /\ o2 - b <= SEGMENT
      BY <1>f, <2>1, <3>1
    <3>3. Valid(entry)
      BY <2>1, <3>1, <3>2, DataRecord
    <3> QED
      BY <3>3 DEF entry
  <2>3. CASE MovesLinear(entry, file, FALSE, o, b, o2, b2)
    <3>1. PICK a \in 0..HEX_BYTE * HEX_BYTE - 1 : entry = ExtLinearAddr(a)
      BY <2>3 DEF MovesLinear, Reads
    <3>2. Valid(entry)
      BY <3>1, LinearRecord
    <3> QED
      BY <3>2 DEF entry
  <2> QED
    BY <2>2, <2>3, <2>m DEF Moves2
<1> QED
  BY <1>3, <1>4

(* The bytes mcs2bin writes for the segment it has read.                   *)
LEMMA FlushedIs ==
  ASSUME HexPlace, NEW off, NEW base, Path(mcs, bin, off, base), ReaderAt(off, base)
  PROVE  /\ Flushed \in Seq(0..HEX_BYTE - 1) /\ Len(Flushed) = off[lineCount + 1]
         /\ \A p \in 1..off[lineCount + 1] : Flushed[p] = bin[p]
         /\ off[lineCount + 1] \in 0..Len(bin)
<1>1. bin \in HexFiles /\ mcs \in Seq(Records) /\ Len(mcs) \in Nat
      /\ image \in Seq(0..HEX_BYTE - 1) /\ binBuff \in [0..SEGMENT - 1 -> 0..HEX_BYTE - 1]
  BY LenProperties DEF HexPlace
<1>2. bin \in Seq(0..HEX_BYTE - 1) /\ Len(bin) \in Nat
  BY <1>1, FileFacts
<1>3. lineCount + 1 \in 1..Len(mcs) + 1
  BY <1>1 DEF ReaderAt
<1> DEFINE o == off[lineCount + 1]
           b == base[lineCount + 1]
<1>4. o \in 0..Len(bin) /\ b \in 0..Len(bin) /\ b <= o /\ o - b <= SEGMENT
  BY <1>1, <1>3 DEF Path
<1>5. /\ addrInit = b /\ addrInit + binLen = o /\ binLen \in Nat /\ Len(image) = addrInit
      /\ \A p \in 1..addrInit : image[p] = bin[p]
      /\ \A a \in 0..binLen - 1 : binBuff[a] = bin[addrInit + a + 1]
  BY DEF ReaderAt
<1> HIDE DEF o, b
<1>6. binLen <= SEGMENT /\ addrInit \in Nat /\ SEGMENT \in Nat
  BY <1>2, <1>4, <1>5, HexConstants
<1> DEFINE tail == [k \in 1..binLen |-> binBuff[k - 1]]
<1>7. tail \in Seq(0..HEX_BYTE - 1) /\ Len(tail) = binLen
  <2>1. \A k \in 1..binLen : binBuff[k - 1] \in 0..HEX_BYTE - 1
    BY <1>1, <1>5, <1>6
  <2> QED
    BY <1>5, <2>1
<1>8. \A k \in 1..binLen : tail[k] = bin[addrInit + k]
  <2> TAKE k \in 1..binLen
  <2>1. k - 1 \in 0..binLen - 1 /\ addrInit + (k - 1) + 1 = addrInit + k
    BY <1>5, <1>6
  <2>2. binBuff[k - 1] = bin[addrInit + (k - 1) + 1]
    BY <1>5, <2>1
  <2> QED
    BY <2>1, <2>2
<1> HIDE DEF tail
<1>9. /\ image \o tail \in Seq(0..HEX_BYTE - 1) /\ Len(image \o tail) = o
      /\ \A p \in 1..o : (image \o tail)[p] = IF p <= addrInit THEN image[p] ELSE tail[p - addrInit]
  <2>1. Len(image) + Len(tail) = o
    BY <1>5, <1>7
  <2>2. /\ image \o tail \in Seq(0..HEX_BYTE - 1) /\ Len(image \o tail) = Len(image) + Len(tail)
        /\ \A p \in 1..Len(image) + Len(tail) :
             (image \o tail)[p] = IF p <= Len(image) THEN image[p] ELSE tail[p - Len(image)]
    BY <1>1, <1>7, ConcatProperties, Zenon
  <2>3. Len(image) = addrInit
    BY <1>5
  <2> QED
    BY <2>1, <2>2, <2>3, Zenon
<1>10. ASSUME NEW p \in 1..o PROVE (image \o tail)[p] = bin[p]
  <2>1. CASE p <= addrInit
    BY <1>4, <1>5, <1>6, <1>9, <2>1
  <2>2. CASE p > addrInit
    <3>1. p - addrInit \in 1..binLen /\ addrInit + (p - addrInit) = p
      BY <1>2, <1>4, <1>5, <1>6, <2>2
    <3>2. (image \o tail)[p] = tail[p - addrInit]
      BY <1>6, <1>9, <2>2
    <3> QED
      BY <1>8, <3>1, <3>2
  <2>3. p <= addrInit \/ p > addrInit
    BY <1>4, <1>6
  <2> QED
    BY <2>1, <2>2, <2>3, Zenon
<1> QED
  BY <1>4, <1>9, <1>10 DEF Flushed, tail, o

LEMMA PrefixBy ==
  ASSUME NEW s \in Seq(0..HEX_BYTE - 1), NEW t \in Seq(0..HEX_BYTE - 1), Len(s) <= Len(t),
         \A p \in 1..Len(s) : s[p] = t[p]
  PROVE  IsPrefix(s, t) /\ (Len(s) = Len(t) => s = t)
<1>1. Len(s) \in Nat /\ Len(t) \in Nat
  OBVIOUS
<1> DEFINE u == SubSeq(s, 1, Len(s))
           v == SubSeq(t, 1, Len(s))
<1>2. u = s
  BY SubSeqFull
<1>3. v \in Seq(0..HEX_BYTE - 1) /\ Len(v) = Len(s) /\ \A p \in 1..Len(s) : v[p] = t[p]
  <2>1. \A p \in 1..Len(s) : t[p] \in 0..HEX_BYTE - 1
    <3> TAKE p \in 1..Len(s)
    <3>1. p \in 1..Len(t)
      BY <1>1
    <3> QED
      BY <3>1, ElementOfSeq
  <2>2. v \in Seq(0..HEX_BYTE - 1)
    <3>1. 1 \in Int /\ Len(s) \in Int
      BY <1>1
    <3> QED
      BY <2>1, <3>1, SubSeqProperties, Zenon
  <2>3. Len(v) = Len(s)
    BY <1>1
  <2>4. ASSUME NEW p \in 1..Len(s) PROVE v[p] = t[p]
    BY <1>1
  <2> QED
    BY <2>2, <2>3, <2>4
<1> HIDE DEF u, v
<1>4. s = v
  BY <1>3, SeqEqual
<1>5. ASSUME Len(s) = Len(t) PROVE s = t
  BY <1>5, SeqEqual
<1> QED
  BY <1>2, <1>4, <1>5 DEF IsPrefix, u, v

LEMMA HexInitInv == HexInit => HexInv
<1> SUFFICES ASSUME HexInit PROVE HexInv
  OBVIOUS
<1>1. hexPc \in {"bin2mcs", "written", "mcs2bin", "done"} /\ written \in BOOLEAN
  BY DEF HexInit, PackInit, ListingInit
<1>2. ASSUME written = TRUE PROVE HexPlace /\ (\E off, base : HexAt(off, base)) /\ RestoresFile
  <2>1. bin \in HexFiles /\ PackInit /\ bin \in Seq(0..HEX_BYTE - 1) /\ Len(bin) \in Nat
    BY <1>2, FileFacts DEF HexInit, PackInit, ListingInit
  <2>2. /\ damaged = FALSE /\ lineCount = 0 /\ binBuff = EmptyBuff /\ binLen = 0
        /\ addrInit = 0 /\ addrNext = 0 /\ image = <<>>
    BY DEF HexInit
  <2>3. binBuff \in [0..SEGMENT - 1 -> 0..HEX_BYTE - 1] /\ image \in Seq(0..HEX_BYTE - 1) /\ Len(image) = 0
    <3>1. EMPTY_BYTE \in 0..HEX_BYTE - 1
      BY HexConstants DEF EMPTY_BYTE
    <3> QED
      BY <2>2, <3>1 DEF EmptyBuff
  <2>z. 0 % WORD32 = 0
    <3>1. WORD32 \in Nat \ {0}
      BY WordFacts
    <3>2. WORD32 * 0 + 0 = 0 /\ 0 \in 0..WORD32 - 1
      BY <3>1
    <3> QED
      BY <3>1, <3>2, ModUnique
  <2>4. IsPrefix(image, bin) /\ (hexPc # "done")
    <3>1. Len(image) <= Len(bin) /\ \A p \in 1..Len(image) : image[p] = bin[p]
      BY <2>1, <2>3
    <3> QED
      BY <2>1, <2>3, <3>1, PrefixBy DEF PackInit
  <2>5. CASE bin = <<>>
    <3>1. hexPc = "written" /\ mcs = <<>> /\ Len(mcs) = 0 /\ Len(bin) = 0 /\ mcs \in Seq(Records)
      BY <2>1, <2>5 DEF PackInit
    <3> DEFINE f == [k \in 1..1 |-> 0]
    <3>2. Path(mcs, bin, f, f)
      BY <2>1, <3>1, HexConstants DEF Path
    <3>3. Complete(mcs, bin, damaged, f, f)
      BY <3>1, <3>2 DEF Complete
    <3>4. ReaderAt(f, f)
      BY <2>2, <2>3, <2>z, <3>1 DEF ReaderAt
    <3>5. HexAt(f, f)
      BY <3>1, <3>3, <3>4 DEF HexAt
    <3>6. HexPlace
      BY <2>1, <2>2, <2>3, <3>1 DEF HexPlace
    <3> QED
      BY <2>4, <3>5, <3>6 DEF RestoresFile
  <2>6. CASE bin # <<>>
    <3>1. hexPc = "bin2mcs" /\ mcs = <<ExtLinearAddr(0)>> /\ addrExt = 1 /\ i = 0 /\ j = 0 /\ remainSize = Len(bin)
      BY <2>1, <2>6 DEF PackInit
    <3>2. 0 \in 0..HEX_BYTE * HEX_BYTE - 1 /\ 0 = 0 * SEGMENT /\ (1 - 1) * SEGMENT = 0 /\ BLOCK * 0 = 0 /\ SEGMENT \in Nat
      BY HexConstants
    <3>3. ExtLinearAddr(0) \in Records
      BY <3>2, LinearRecord
    <3>4. Len(mcs) = 1 /\ mcs \in Seq(Records) /\ mcs[1] = ExtLinearAddr(0)
      BY <3>1, <3>3
    <3> DEFINE f == [k \in 1..2 |-> 0]
    <3>5. f \in [1..2 -> 0..Len(bin)] /\ f[1] = 0 /\ f[2] = 0 /\ f[1 + 1] = 0 /\ f[0 + 1] = 0
      BY <2>1
    <3> HIDE DEF f
    <3>6. Path(mcs, bin, f, f)
      BY <2>1, <3>2, <3>4, <3>5 DEF Path
    <3>7. Moves2(mcs[1], bin, FALSE, f[1], f[1], f[1 + 1], f[1 + 1])
      <4>1. MovesLinear(ExtLinearAddr(0), bin, FALSE, 0, 0, 0, 0)
        BY <3>2 DEF MovesLinear, Reads
      <4> QED
        BY <3>4, <3>5, <4>1 DEF Moves2
    <3>8. Begun(mcs, bin, f, f)
      <4>1. \A k \in 1..Len(mcs) : k = 1
        BY <3>4
      <4> QED
        BY <3>6, <3>7, <4>1, Zenon DEF Begun
    <3>9. WriterAt(f, f)
      <4>1. \E q \in Nat : j = BLOCK * q
        BY <3>1, <3>2
      <4> QED
        BY <2>1, <2>6, <3>1, <3>2, <3>4, <3>5, <4>1 DEF WriterAt
    <3>10. ReaderAt(f, f)
      BY <2>2, <2>3, <2>z, <3>4, <3>5 DEF ReaderAt
    <3>11. HexAt(f, f)
      BY <2>2, <3>1, <3>8, <3>9, <3>10 DEF HexAt
    <3>12. HexPlace
      BY <2>1, <2>2, <2>3, <3>1, <3>4 DEF HexPlace
    <3> QED
      BY <2>4, <3>11, <3>12 DEF RestoresFile
  <2> QED
    BY <2>5, <2>6
<1> QED
  BY <1>1, <1>2 DEF HexInv

(* What bin2mcs writes next.                                               *)
LEMMA WriteData ==
  ASSUME NEW file \in HexFiles, NEW ls \in Seq(Records), NEW off, NEW base, Begun(ls, file, off, base),
         NEW o, NEW b, NEW o2, o = off[Len(ls) + 1], b = base[Len(ls) + 1], o2 \in 0..Len(file),
         o < o2, o2 <= o + BLOCK, o2 - b <= SEGMENT
  PROVE  /\ Begun(ls \o <<DataAt(file, o, b, o2)>>, file, Longer(off, Len(ls), o2), Longer(base, Len(ls), b))
         /\ DataAt(file, o, b, o2) \in Records
<1>1. Len(ls) \in Nat /\ Len(file) \in Nat
  BY FileFacts, LenProperties
<1>2. o \in 0..Len(file) /\ b \in 0..Len(file) /\ b <= o
  <2>1. Len(ls) + 1 \in 1..Len(ls) + 1 /\ Path(ls, file, off, base)
    BY <1>1 DEF Begun
  <2> QED
    BY <2>1 DEF Path
<1>3. DataAt(file, o, b, o2) \in Records
  BY <1>1, <1>2, DataRecord
<1>4. Moves2(DataAt(file, o, b, o2), file, FALSE, o, b, o2, b)
  BY DEF Moves2, MovesData, Reads
<1>5. b <= o2
  BY <1>1, <1>2
<1> QED
  BY <1>2, <1>3, <1>4, <1>5, BegunLonger

LEMMA WriteLinear ==
  ASSUME NEW file \in HexFiles, NEW ls \in Seq(Records), NEW off, NEW base, Begun(ls, file, off, base),
         NEW a \in 0..HEX_BYTE * HEX_BYTE - 1, NEW o, o = off[Len(ls) + 1], o = a * SEGMENT
  PROVE  /\ Begun(ls \o <<ExtLinearAddr(a)>>, file, Longer(off, Len(ls), o), Longer(base, Len(ls), o))
         /\ ExtLinearAddr(a) \in Records
<1>1. Len(ls) \in Nat /\ Len(file) \in Nat /\ SEGMENT \in Nat
  BY FileFacts, LenProperties, HexConstants
<1>2. o \in 0..Len(file)
  <2>1. Len(ls) + 1 \in 1..Len(ls) + 1 /\ Path(ls, file, off, base)
    BY <1>1 DEF Begun
  <2> QED
    BY <2>1 DEF Path
<1>3. ExtLinearAddr(a) \in Records
  BY LinearRecord
<1>4. Moves2(ExtLinearAddr(a), file, FALSE, o, base[Len(ls) + 1], o, o)
  BY DEF Moves2, MovesLinear, Reads
<1>5. o <= o /\ o - o <= SEGMENT
  BY <1>1, <1>2
<1> QED
  BY <1>2, <1>3, <1>4, <1>5, BegunLonger

(* A segment is a number of blocks, so that a block fits where one began.  *)
LEMMA BlockFits ==
  ASSUME NEW q \in Nat, BLOCK * q < SEGMENT
  PROVE  BLOCK * q + BLOCK <= SEGMENT /\ BLOCK * q + BLOCK = BLOCK * (q + 1)
<1>1. PICK b \in Nat \ {0} : b = BLOCK
  BY HexConstants
<1>2. PICK s \in Nat : s = SEGMENT
  BY HexConstants
<1>3. PICK t \in Int : s = b * t
  <2>1. s % b = 0
    BY <1>1, <1>2, HexConstantsOK
  <2>2. s \div b \in Int /\ s = b * (s \div b) + (s % b)
    BY <1>1, <1>2, DivMod
  <2>3. s = b * (s \div b)
    BY <1>1, <2>1, <2>2
  <2> QED
    BY <2>2, <2>3
<1>4. b * q < b * t
  BY <1>1, <1>2, <1>3
<1>5. q < t
  <2>1. CASE q >= t
    <3>1. b * q >= b * t
      BY <1>1, <1>3, <2>1
    <3> QED
      BY <1>1, <1>3, <1>4, <3>1
  <2> QED
    BY <1>3, <2>1
<1>6. b * (q + 1) = b * q + b /\ b * (q + 1) <= b * t
  BY <1>1, <1>3, <1>5
<1> QED
  BY <1>1, <1>2, <1>3, <1>6

(* What the record behind the end of the listing does to the places of it. *)
LEMMA ReaderStays ==
  ASSUME NEW off, NEW base, NEW f, NEW g, ReaderAt(off, base), lineCount = 0,
         f[1] = off[1], g[1] = base[1], lineCount' = lineCount, bin' = bin, unpackVars' = unpackVars
  PROVE  ReaderAt(f, g)'
<1>1. 0 + 1 = 1
  OBVIOUS
<1> QED
  BY <1>1 DEF ReaderAt, unpackVars

LEMMA WriteRecordInv ==
  ASSUME HexInv, written = TRUE, WriteRecord
  PROVE  HexInv'
<1> DEFINE n == Len(mcs)
           o2 == IF i + BLOCK <= Len(bin) THEN i + BLOCK ELSE Len(bin)
<1>1. HexPlace /\ RestoresFile /\ hexPc = "bin2mcs"
  BY DEF HexInv, WriteRecord
<1>2. PICK off, base : HexAt(off, base)
  BY DEF HexInv
<1>3. bin \in HexFiles /\ mcs \in Seq(Records) /\ n \in Nat /\ Len(bin) \in Nat /\ Len(bin) <= WORD32
      /\ lineCount = 0
  BY <1>1, FileFacts, LenProperties DEF HexPlace
<1>4. damaged = FALSE /\ Begun(mcs, bin, off, base) /\ WriterAt(off, base) /\ ReaderAt(off, base)
  BY <1>1, <1>2 DEF HexAt
<1> DEFINE b == base[n + 1]
<1>5. /\ bin # <<>> /\ i \in Nat /\ addrExt \in Nat \ {0} /\ i < Len(bin) /\ off[n + 1] = i
      /\ b = (addrExt - 1) * SEGMENT /\ i = b + j /\ j <= SEGMENT /\ remainSize = Len(bin) - i
  BY <1>3, <1>4 DEF WriterAt, WriteRecord
<1>6. PICK q \in Nat : j = BLOCK * q
  BY <1>4 DEF WriterAt
<1>7. off[1] = 0 /\ base[1] = 0 /\ b \in 0..Len(bin) /\ b <= i
  <2>1. n + 1 \in 1..n + 1
    BY <1>3
  <2> QED
    BY <1>4, <1>5, <2>1 DEF Begun, Path
<1>8. BLOCK \in Nat \ {0} /\ SEGMENT \in Nat \ {0}
  BY HexConstants
<1>9. j \in Nat /\ b \in Nat
  <2>1. BLOCK * q \in Nat
    BY <1>8
  <2> QED
    BY <1>6, <1>7, <2>1
<1>10. o2 \in 0..Len(bin) /\ i < o2 /\ o2 <= i + BLOCK
       /\ o2 = i + BlockSize(remainSize)
       /\ (i + BLOCK < Len(bin) => (IF remainSize < BLOCK THEN remainSize ELSE remainSize - BLOCK) = Len(bin) - (i + BLOCK))
       /\ o2 = IF i + BLOCK <= Len(bin) THEN i + BLOCK ELSE Len(bin)
  BY <1>3, <1>5, <1>8 DEF BlockSize
<1>11. /\ i' = i + BLOCK /\ bin' = bin /\ damaged' = damaged /\ unpackVars' = unpackVars /\ hexPc' = hexPc
       /\ written' = written
       /\ remainSize' = IF remainSize < BLOCK THEN remainSize ELSE remainSize - BLOCK
  BY DEF WriteRecord
<1>12. mcs' \in Seq(Records) => HexPlace' /\ RestoresFile'
  BY <1>1, <1>11 DEF HexPlace, RestoresFile, unpackVars
<1>13. SUFFICES \E f, g : /\ mcs' \in Seq(Records) /\ Begun(mcs', bin, f, g) /\ f[1] = 0 /\ g[1] = 0
                          /\ (addrExt \in Nat \ {0})' /\ f[Len(mcs') + 1] = o2
                          /\ g[Len(mcs') + 1] = (addrExt' - 1) * SEGMENT /\ i + BLOCK = g[Len(mcs') + 1] + j'
                          /\ j' <= SEGMENT /\ \E t \in Nat : j' = BLOCK * t
  <2>1. PICK f, g : /\ mcs' \in Seq(Records) /\ Begun(mcs', bin, f, g) /\ f[1] = 0 /\ g[1] = 0
                    /\ (addrExt \in Nat \ {0})' /\ f[Len(mcs') + 1] = o2
                    /\ g[Len(mcs') + 1] = (addrExt' - 1) * SEGMENT /\ i + BLOCK = g[Len(mcs') + 1] + j'
                    /\ j' <= SEGMENT /\ \E t \in Nat : j' = BLOCK * t
    BY <1>13
  <2> HIDE DEF o2, n, b
  <2>2. ReaderAt(f, g)'
    BY <1>3, <1>4, <1>7, <1>11, <2>1, ReaderStays DEF unpackVars
  <2>3. WriterAt(f, g)'
    <3>1. i' \in Nat /\ f[Len(mcs') + 1] = IF i' <= Len(bin) THEN i' ELSE Len(bin)
      <4>1. i' \in Nat
        <5>1. i \in Nat /\ BLOCK \in Nat /\ i' = i + BLOCK
          BY <1>5, <1>8, <1>11
        <5> QED
          BY <5>1
      <4>2. o2 = IF i' <= Len(bin) THEN i' ELSE Len(bin)
        BY <1>10, <1>11, Zenon
      <4> QED
        BY <2>1, <4>1, <4>2, Zenon
    <3>2. i' < Len(bin) => remainSize' = Len(bin) - i'
      BY <1>10, <1>11
    <3>3. i' = g[Len(mcs') + 1] + j' /\ bin' # <<>>
      BY <1>5, <1>11, <2>1
    <3> QED
      BY <1>11, <2>1, <3>1, <3>2, <3>3 DEF WriterAt
  <2>4. HexAt(f, g)'
    BY <1>1, <1>4, <1>11, <2>1, <2>2, <2>3 DEF HexAt
  <2> QED
    BY <1>1, <1>11, <1>12, <2>1, <2>4 DEF HexInv
<1>14. CASE ~SegmentFull(j)
  <2>1. j < SEGMENT
    BY <1>8, <1>9, <1>14 DEF SegmentFull
  <2>2. j + BLOCK <= SEGMENT /\ j + BLOCK = BLOCK * (q + 1)
    BY <1>6, <2>1, BlockFits
  <2>3. i - b = j /\ o2 - b <= SEGMENT
    BY <1>3, <1>5, <1>8, <1>9, <1>10, <2>2
  <2>4. mcs' = mcs \o <<>> \o <<Record("data", j, SubSeq(bin, i + 1, i + BlockSize(remainSize)))>>
        /\ j' = j + BLOCK /\ addrExt' = addrExt
    BY <1>14 DEF WriteRecord
  <2> DEFINE rec == DataAt(bin, i, b, o2)
             f == Longer(off, n, o2)
             g == Longer(base, n, b)
  <2>5. mcs' = mcs \o <<rec>>
    <3>1. mcs \o <<>> = mcs
      BY <1>3, ConcatEmptySeq
    <3>2. rec = Record("data", j, SubSeq(bin, i + 1, i + BlockSize(remainSize)))
      BY <1>10, <2>3 DEF DataAt
    <3> QED
      BY <2>4, <3>1, <3>2
  <2>6. Begun(mcs \o <<rec>>, bin, f, g) /\ rec \in Records
    BY <1>3, <1>4, <1>5, <1>10, <2>3, WriteData
  <2> HIDE DEF rec
  <2>7. mcs' \in Seq(Records) /\ Len(mcs') = n + 1
    BY <1>3, <2>5, <2>6, LineMore
  <2>8. f[1] = 0 /\ g[1] = 0 /\ f[(n + 1) + 1] = o2 /\ g[(n + 1) + 1] = b
    BY <1>3, <1>7 DEF Longer
  <2> HIDE DEF n, f, g, o2, b
  <2>9. i + BLOCK = b + j' /\ j' <= SEGMENT /\ j' = BLOCK * (q + 1) /\ q + 1 \in Nat
    BY <1>5, <1>8, <1>9, <2>2, <2>4
  <2> QED
    BY <1>5, <2>4, <2>5, <2>6, <2>7, <2>8, <2>9
<1>15. CASE SegmentFull(j)
  <2>1. j = SEGMENT
    BY <1>5, <1>8, <1>9, <1>15 DEF SegmentFull
  <2>2. i = addrExt * SEGMENT
    <3>1. PICK a \in Nat : a = addrExt - 1 /\ a + 1 = addrExt
      BY <1>5
    <3>2. (a + 1) * SEGMENT = a * SEGMENT + SEGMENT
      BY WordFacts
    <3> QED
      BY <1>5, <2>1, <3>1, <3>2
  <2>3. addrExt \in 0..HEX_BYTE * HEX_BYTE - 1
    <3>1. addrExt \in Nat /\ addrExt * SEGMENT < WORD32
      BY <1>3, <1>5, <2>2, WordFacts
    <3>2. addrExt < HEX_BYTE * HEX_BYTE /\ HEX_BYTE * HEX_BYTE \in Nat
      BY <3>1, WordFacts
    <3> DEFINE h == HEX_BYTE * HEX_BYTE
    <3>3. h \in Nat /\ addrExt < h
      BY <3>2
    <3> HIDE DEF h
    <3>4. addrExt \in 0..h - 1
      BY <1>5, <3>3
    <3> QED
      BY <3>4 DEF h
  <2>4. mcs' = mcs \o <<ExtLinearAddr(addrExt)>> \o <<Record("data", 0, SubSeq(bin, i + 1, i + BlockSize(remainSize)))>>
        /\ j' = 0 + BLOCK /\ addrExt' = addrExt + 1
    BY <1>15 DEF WriteRecord
  <2> DEFINE lin == ExtLinearAddr(addrExt)
             f == Longer(off, n, i)
             g == Longer(base, n, i)
             ls == mcs \o <<lin>>
             rec == DataAt(bin, i, i, o2)
             ff == Longer(f, n + 1, o2)
             gg == Longer(g, n + 1, i)
  <2>5. Begun(ls, bin, f, g) /\ lin \in Records
    BY <1>3, <1>4, <1>5, <2>2, <2>3, WriteLinear
  <2>6. ls \in Seq(Records) /\ Len(ls) = n + 1
    BY <1>3, <2>5, LineMore
  <2>7. f[1] = 0 /\ g[1] = 0 /\ f[(n + 1) + 1] = i /\ g[(n + 1) + 1] = i
    BY <1>3, <1>7 DEF Longer
  <2>8. o2 - i <= SEGMENT
    <3>1. BLOCK * 0 = 0 /\ 0 \in Nat
      BY <1>8
    <3>2. BLOCK * 0 < SEGMENT
      BY <1>8, <3>1
    <3>3. BLOCK <= SEGMENT
      BY <1>8, <3>1, <3>2, BlockFits
    <3> QED
      BY <1>3, <1>5, <1>8, <1>10, <3>3
  <2> HIDE DEF f, g, ls
  <2>9. Begun(ls \o <<rec>>, bin, ff, gg) /\ rec \in Records
    <3>1. i = f[Len(ls) + 1] /\ i = g[Len(ls) + 1]
      BY <2>6, <2>7
    <3>2. Begun(ls \o <<rec>>, bin, Longer(f, Len(ls), o2), Longer(g, Len(ls), i)) /\ rec \in Records
      BY <1>3, <1>10, <2>5, <2>6, <2>8, <3>1, WriteData
    <3> QED
      BY <2>6, <3>2
  <2>10. mcs' = ls \o <<rec>>
    <3>1. rec = Record("data", 0, SubSeq(bin, i + 1, i + BlockSize(remainSize)))
      <4>1. i - i = 0
        BY <1>5
      <4> QED
        BY <1>10, <4>1 DEF DataAt
    <3> QED
      BY <2>4, <3>1 DEF ls
  <2> HIDE DEF rec
  <2>11. mcs' \in Seq(Records) /\ Len(mcs') = (n + 1) + 1
    BY <2>6, <2>9, <2>10, LineMore
  <2>12. ff[1] = 0 /\ gg[1] = 0 /\ ff[((n + 1) + 1) + 1] = o2 /\ gg[((n + 1) + 1) + 1] = i
    BY <1>3, <2>7 DEF Longer
  <2> HIDE DEF n, ff, gg, o2, b
  <2>13. BLOCK * 1 = BLOCK /\ BLOCK <= SEGMENT /\ j' = BLOCK /\ 1 \in Nat
    <3>1. BLOCK * 0 = 0 /\ 0 \in Nat /\ BLOCK * 1 = BLOCK
      BY <1>8
    <3>2. BLOCK * 0 < SEGMENT
      BY <1>8, <3>1
    <3>3. BLOCK <= SEGMENT
      BY <1>8, <3>1, <3>2, BlockFits
    <3> QED
      BY <1>8, <2>4, <3>1, <3>3
  <2>14. addrExt' - 1 = addrExt /\ addrExt' \in Nat \ {0}
    BY <1>5, <2>4
  <2>15. i = (addrExt' - 1) * SEGMENT
    BY <2>2, <2>14
  <2> QED
    BY <2>9, <2>10, <2>11, <2>12, <2>13, <2>14, <2>15
<1> QED
  BY <1>14, <1>15

LEMMA WriteEofInv ==
  ASSUME HexInv, written = TRUE, WriteEof
  PROVE  HexInv'
<1> DEFINE n == Len(mcs)
<1>1. HexPlace /\ RestoresFile /\ hexPc = "bin2mcs"
  BY DEF HexInv, WriteEof
<1>2. PICK off, base : HexAt(off, base)
  BY DEF HexInv
<1>3. bin \in HexFiles /\ mcs \in Seq(Records) /\ n \in Nat /\ Len(bin) \in Nat /\ lineCount = 0
  BY <1>1, FileFacts, LenProperties DEF HexPlace
<1>4. damaged = FALSE /\ Begun(mcs, bin, off, base) /\ WriterAt(off, base) /\ ReaderAt(off, base)
  BY <1>1, <1>2 DEF HexAt
<1>5. off[n + 1] = Len(bin)
  BY <1>3, <1>4 DEF WriterAt, WriteEof
<1> DEFINE ms == mcs \o <<EofRecord>>
<1>6. EofRecord \in Records
  BY EofIsRecord
<1>7. mcs' = ms /\ ms \in Seq(Records)
  BY <1>3, <1>6, LineMore DEF WriteEof
<1>8. PICK f, g : Complete(ms, bin, FALSE, f, g) /\ f[1] = off[1] /\ g[1] = base[1]
  <2>1. 1 \in 1..n + 1
    BY <1>3
  <2>2. bin \in HexFiles /\ mcs \in Seq(Records) /\ Begun(mcs, bin, off, base) /\ off[Len(mcs) + 1] = Len(bin)
    BY <1>3, <1>4, <1>5
  <2>3. PICK f, g : Ending(mcs, bin, off, base, f, g)
    BY <2>2, CompleteFromBegun
  <2>4. Complete(ms, bin, FALSE, f, g) /\ f[1] = off[1] /\ g[1] = base[1]
    BY <2>1, <2>3, Zenon DEF Ending
  <2> QED
    BY <2>4, Zenon
<1> HIDE DEF ms
<1>9. /\ bin' = bin /\ damaged' = damaged /\ unpackVars' = unpackVars /\ hexPc' = "written" /\ written' = written
  BY DEF WriteEof
<1>10. ReaderAt(f, g)'
  BY <1>3, <1>4, <1>8, <1>9, ReaderStays DEF unpackVars
<1>11. HexAt(f, g)'
  BY <1>4, <1>7, <1>8, <1>9, <1>10 DEF HexAt
<1>12. HexPlace' /\ RestoresFile'
  BY <1>1, <1>7, <1>9 DEF HexPlace, RestoresFile, unpackVars
<1> QED
  BY <1>9, <1>11, <1>12 DEF HexInv

LEMMA DamageInv ==
  ASSUME HexInv, written = TRUE, Damage
  PROVE  HexInv'
<1>1. HexPlace /\ RestoresFile /\ hexPc = "written"
  BY DEF HexInv, Damage
<1>2. PICK off, base : HexAt(off, base)
  BY DEF HexInv
<1>3. bin \in HexFiles /\ mcs \in Seq(Records) /\ Len(mcs) \in Nat /\ DOMAIN mcs = 1..Len(mcs) /\ damaged = FALSE
  BY <1>1, LenProperties DEF HexPlace, Damage
<1>4. Complete(mcs, bin, FALSE, off, base) /\ ReaderAt(off, base)
  BY <1>1, <1>2, <1>3 DEF HexAt
<1>k. PICK k \in 1..Len(mcs) : \E entry \in Altered(mcs[k]) : mcs' = [mcs EXCEPT ![k] = entry]
  BY <1>3 DEF Damage
<1>5. PICK entry \in Altered(mcs[k]) : mcs' = [mcs EXCEPT ![k] = entry]
  BY <1>k
<1>6. entry \in Records /\ ~Valid(entry)
  <2>1. mcs[k] \in Records
    BY <1>3, ElementOfSeq
  <2>2. Valid(mcs[k])
    BY <1>3, <1>4, UndamagedIsValid
  <2> QED
    BY <2>1, <2>2, DamageIsSeen
<1>7. mcs' \in Seq(Records) /\ Len(mcs') = Len(mcs)
  BY <1>3, <1>5, <1>6, ExceptSeq
<1>8. Complete(mcs', bin, TRUE, off, base)
  BY <1>3, <1>4, <1>5, <1>6, CompleteDamaged
<1>9. bin' = bin /\ damaged' = TRUE /\ unpackVars' = unpackVars /\ hexPc' = hexPc /\ written' = written
  BY DEF Damage
<1>10. ReaderAt(off, base)'
  BY <1>4, <1>7, <1>9 DEF ReaderAt, unpackVars
<1>11. HexAt(off, base)'
  BY <1>1, <1>8, <1>9, <1>10 DEF HexAt
<1>12. HexPlace' /\ RestoresFile'
  BY <1>1, <1>7, <1>9 DEF HexPlace, RestoresFile, unpackVars
<1> QED
  BY <1>1, <1>9, <1>11, <1>12 DEF HexInv

LEMMA ConvertInv ==
  ASSUME HexInv, written = TRUE, Convert
  PROVE  HexInv'
<1>1. HexPlace /\ RestoresFile /\ hexPc = "written" /\ hexPc' = "mcs2bin"
      /\ UNCHANGED <<bin, mcs, written, damaged, unpackVars>>
  BY DEF HexInv, Convert
<1>2. PICK off, base : HexAt(off, base)
  BY DEF HexInv
<1>3. HexAt(off, base)'
  BY <1>1, <1>2 DEF HexAt, ReaderAt, unpackVars
<1>4. HexPlace' /\ RestoresFile'
  BY <1>1 DEF HexPlace, RestoresFile, unpackVars
<1> QED
  BY <1>1, <1>3, <1>4 DEF HexInv

(* Where mcs2bin is when it reads a line, ...                              *)
LEMMA ReadingFacts ==
  ASSUME HexInv, written = TRUE, hexPc = "mcs2bin", NEW off, NEW base, HexAt(off, base)
  PROVE  /\ HexPlace /\ bin \in HexFiles /\ mcs \in Seq(Records) /\ Len(mcs) \in Nat /\ Len(bin) \in Nat
         /\ Complete(mcs, bin, damaged, off, base) /\ Path(mcs, bin, off, base) /\ ReaderAt(off, base)
         /\ bin \in Seq(0..HEX_BYTE - 1) /\ IsPrefix(image, bin) /\ lineCount \in Nat /\ damaged \in BOOLEAN
         /\ lineCount < Len(mcs) => lineCount + 1 \in 1..Len(mcs) /\ Current \in Records
         /\ lineCount >= Len(mcs) => lineCount = 0 /\ Len(mcs) = 0
<1>1. HexPlace /\ RestoresFile
  BY DEF HexInv
<1>2. bin \in HexFiles /\ mcs \in Seq(Records) /\ Len(mcs) \in Nat /\ damaged \in BOOLEAN
  BY <1>1, LenProperties DEF HexPlace
<1>3. Complete(mcs, bin, damaged, off, base) /\ ReaderAt(off, base)
  BY DEF HexAt
<1>4. Path(mcs, bin, off, base)
  BY <1>3 DEF Complete
<1>5. bin \in Seq(0..HEX_BYTE - 1) /\ Len(bin) \in Nat
  BY <1>2, FileFacts
<1>6. IsPrefix(image, bin)
  BY <1>1 DEF RestoresFile
<1>7. lineCount \in Nat /\ (lineCount < Len(mcs) \/ lineCount = 0)
  BY <1>3 DEF ReaderAt
<1>8. ASSUME lineCount < Len(mcs) PROVE lineCount + 1 \in 1..Len(mcs) /\ Current \in Records
  <2>1. lineCount + 1 \in 1..Len(mcs)
    BY <1>2, <1>7, <1>8
  <2> QED
    BY <1>2, <2>1, ElementOfSeq DEF Current
<1>9. ASSUME lineCount >= Len(mcs) PROVE lineCount = 0 /\ Len(mcs) = 0
  BY <1>2, <1>7, <1>9
<1> QED
  BY <1>1, <1>2, <1>3, <1>4, <1>5, <1>6, <1>7, <1>8, <1>9

(* ... and when it is done, with what it wrote as it is.                   *)
LEMMA DoneInv ==
  ASSUME HexInv, written = TRUE, hexPc = "mcs2bin", hexPc' = "done", InputsUnchanged, binBuff' = binBuff,
         image' \in Seq(0..HEX_BYTE - 1), IsPrefix(image', bin), damaged = FALSE => image' = bin
  PROVE  HexInv'
<1>1. PICK off, base : HexAt(off, base)
  BY DEF HexInv
<1>2. UNCHANGED <<bin, mcs, written, damaged>>
  BY DEF InputsUnchanged
<1>3. HexPlace /\ Complete(mcs, bin, damaged, off, base) /\ damaged \in BOOLEAN
  BY <1>1, ReadingFacts
<1>4. HexAt(off, base)'
  BY <1>2, <1>3 DEF HexAt
<1>5. HexPlace'
  BY <1>2, <1>3 DEF HexPlace
<1>6. RestoresFile'
  BY <1>2, <1>3 DEF RestoresFile
<1> QED
  BY <1>2, <1>4, <1>5, <1>6 DEF HexInv

LEMMA EndOfInputInv ==
  ASSUME HexInv, written = TRUE, EndOfInput
  PROVE  HexInv'
<1>1. hexPc = "mcs2bin" /\ ~Reading /\ hexPc' = "done" /\ InputsUnchanged /\ unpackVars' = unpackVars
  BY DEF EndOfInput
<1>2. PICK off, base : HexAt(off, base)
  BY DEF HexInv
<1>3. lineCount >= Len(mcs)
  <2>1. lineCount \in Nat /\ Len(mcs) \in Nat /\ (lineCount < Len(mcs) => Current \in Records)
    BY <1>1, <1>2, ReadingFacts
  <2>2. \A entry \in Records : entry.type # "blank"
    BY TypeCodes DEF Records
  <2> QED
    BY <1>1, <2>1, <2>2 DEF Reading
<1>4. lineCount = 0 /\ Len(mcs) = 0 /\ HexPlace /\ Complete(mcs, bin, damaged, off, base) /\ IsPrefix(image, bin)
      /\ ReaderAt(off, base) /\ bin \in Seq(0..HEX_BYTE - 1)
  BY <1>1, <1>2, <1>3, ReadingFacts
<1>5. Len(bin) = 0 /\ base[1] = 0
  BY <1>4 DEF Complete, Path
<1>6. Len(image) = 0 /\ image \in Seq(0..HEX_BYTE - 1)
  <2>1. 0 + 1 = 1
    OBVIOUS
  <2> QED
    BY <1>4, <1>5, <2>1 DEF ReaderAt, HexPlace
<1>7. image = bin
  BY <1>4, <1>5, <1>6, EmptySeq
<1> QED
  BY <1>1, <1>4, <1>6, <1>7, DoneInv DEF unpackVars

LEMMA RejectRecordInv ==
  ASSUME HexInv, written = TRUE, RejectRecord
  PROVE  HexInv'
<1>1. hexPc = "mcs2bin" /\ lineCount < Len(mcs) /\ ~Valid(Current) /\ hexPc' = "done" /\ InputsUnchanged
      /\ binBuff' = binBuff /\ image' = image
  BY DEF RejectRecord, IsRecord, Reading
<1>2. PICK off, base : HexAt(off, base)
  BY DEF HexInv
<1>3. HexPlace /\ Complete(mcs, bin, damaged, off, base) /\ IsPrefix(image, bin) /\ lineCount + 1 \in 1..Len(mcs)
      /\ bin \in HexFiles /\ mcs \in Seq(Records)
  BY <1>1, <1>2, ReadingFacts
<1>4. ASSUME damaged = FALSE PROVE FALSE
  <2>1. Complete(mcs, bin, FALSE, off, base)
    BY <1>3, <1>4
  <2>2. Valid(mcs[lineCount + 1])
    BY <1>3, <2>1, UndamagedIsValid
  <2> QED
    BY <1>1, <2>2 DEF Current
<1> QED
  BY <1>1, <1>3, <1>4, DoneInv DEF HexPlace

(* Lines that bin2mcs does not write are not met, or not accepted.         *)
LEMMA NothingSkipped ==
  ASSUME HexInv, written = TRUE, SkipText \/ SkipRecord
  PROVE  FALSE
<1>1. /\ hexPc = "mcs2bin" /\ lineCount < Len(mcs)
      /\ Current.type = "text" \/ (Current.type \in {"segment", "start", "unknown"} /\ Valid(Current))
  BY DEF SkipText, SkipRecord, IsRecord, Reading
<1>2. PICK off, base : HexAt(off, base)
  BY DEF HexInv
<1>3. /\ Current \in Records /\ Complete(mcs, bin, damaged, off, base) /\ lineCount + 1 \in 1..Len(mcs)
      /\ bin \in HexFiles /\ mcs \in Seq(Records)
  BY <1>1, <1>2, ReadingFacts
<1>4. Current.type # "text"
  BY <1>3, TypeCodes DEF Records
<1>5. ASSUME Valid(Current) PROVE Current.type \in {"data", "linear", "eof"}
  BY <1>3, <1>5, AcceptedLine DEF Current
<1> QED
  BY <1>1, <1>4, <1>5

LEMMA ReadEofInv ==
  ASSUME HexInv, written = TRUE, ReadEof
  PROVE  HexInv'
<1>1. hexPc = "mcs2bin" /\ lineCount < Len(mcs) /\ Valid(Current) /\ Current.type = "eof" /\ hexPc' = "done"
      /\ InputsUnchanged /\ binBuff' = binBuff /\ image' = Flushed
  BY DEF ReadEof, IsRecord, Reading
<1>2. PICK off, base : HexAt(off, base)
  BY DEF HexInv
<1>3. HexPlace /\ Complete(mcs, bin, damaged, off, base) /\ Path(mcs, bin, off, base) /\ ReaderAt(off, base)
      /\ lineCount + 1 \in 1..Len(mcs) /\ bin \in HexFiles /\ mcs \in Seq(Records) /\ bin \in Seq(0..HEX_BYTE - 1)
      /\ Len(bin) \in Nat
  BY <1>1, <1>2, ReadingFacts
<1>4. off[lineCount + 1] = Len(bin)
  BY <1>1, <1>3, AcceptedLine DEF Current
<1>5. Flushed \in Seq(0..HEX_BYTE - 1) /\ Len(Flushed) = Len(bin) /\ \A p \in 1..Len(bin) : Flushed[p] = bin[p]
  BY <1>3, <1>4, FlushedIs
<1>6. IsPrefix(Flushed, bin) /\ Flushed = bin
  <2>1. Len(Flushed) <= Len(bin)
    BY <1>3, <1>5
  <2> QED
    BY <1>3, <1>5, <2>1, PrefixBy
<1> QED
  BY <1>1, <1>5, <1>6, DoneInv

(* The next line, and what is known of it.                                 *)
LEMMA NextInv ==
  ASSUME HexInv, written = TRUE, hexPc = "mcs2bin", hexPc' = hexPc, InputsUnchanged, NextLine,
         NEW off, NEW base, HexAt(off, base), ReaderAt(off, base)',
         binBuff' \in [0..SEGMENT - 1 -> 0..HEX_BYTE - 1],
         image' \in Seq(0..HEX_BYTE - 1), IsPrefix(image', bin)
  PROVE  HexInv'
<1>1. UNCHANGED <<bin, mcs, written, damaged>>
  BY DEF InputsUnchanged
<1>2. HexPlace /\ Complete(mcs, bin, damaged, off, base)
  BY ReadingFacts
<1>3. HexAt(off, base)'
  BY <1>1, <1>2 DEF HexAt
<1>4. HexPlace'
  BY <1>1, <1>2 DEF HexPlace
<1>5. RestoresFile'
  BY <1>1 DEF RestoresFile
<1> QED
  BY <1>1, <1>3, <1>4, <1>5 DEF HexInv

LEMMA ReadLinearInv ==
  ASSUME HexInv, written = TRUE, ReadLinear
  PROVE  HexInv'
<1>1. /\ hexPc = "mcs2bin" /\ lineCount < Len(mcs) /\ Valid(Current) /\ Current.type = "linear" /\ hexPc' = hexPc
      /\ InputsUnchanged /\ NextLine /\ addrInit' = Segment(Current)
      /\ image' = Flushed \o Dummies(IF addrNext < addrInit' THEN addrInit' - addrNext ELSE 0)
      /\ binBuff' = EmptyBuff /\ binLen' = 0 /\ addrNext' = addrNext
  BY DEF ReadLinear, IsRecord, Reading, Cleared
<1>2. PICK off, base : HexAt(off, base)
  BY DEF HexInv
<1>3. HexPlace /\ Complete(mcs, bin, damaged, off, base) /\ Path(mcs, bin, off, base) /\ ReaderAt(off, base)
      /\ lineCount + 1 \in 1..Len(mcs) /\ bin \in HexFiles /\ mcs \in Seq(Records) /\ bin \in Seq(0..HEX_BYTE - 1)
      /\ Len(bin) \in Nat /\ Len(mcs) \in Nat /\ lineCount \in Nat
  BY <1>1, <1>2, ReadingFacts
<1> DEFINE k == lineCount + 1
           o == off[k]
<1>4. k < Len(mcs) /\ off[k + 1] = o /\ base[k + 1] = o /\ Segment(Current) = o /\ o < WORD32
  BY <1>1, <1>3, AcceptedLine DEF Current
<1>5. Flushed \in Seq(0..HEX_BYTE - 1) /\ Len(Flushed) = o /\ (\A p \in 1..o : Flushed[p] = bin[p])
      /\ o \in 0..Len(bin)
  BY <1>3, FlushedIs
<1>6. lineCount' + 1 = k + 1 /\ lineCount' \in Nat /\ lineCount' < Len(mcs)
  BY <1>1, <1>3, <1>4 DEF NextLine
<1>7. addrNext = o % WORD32
  BY <1>3 DEF ReaderAt
<1> HIDE DEF k, o
<1>8. o % WORD32 = o
  <2>1. WORD32 \in Nat \ {0}
    BY WordFacts
  <2>2. WORD32 * 0 + o = o /\ o \in 0..WORD32 - 1 /\ o \in Int
    BY <1>3, <1>4, <1>5, <2>1
  <2> QED
    BY <2>1, <2>2, ModUnique
<1>9. image' = Flushed
  <2>1. addrInit' = o /\ addrNext = o
    BY <1>1, <1>4, <1>7, <1>8
  <2>2. ~(o < o)
    BY <1>3, <1>5
  <2>3. image' = Flushed \o Dummies(0)
    BY <1>1, <2>1, <2>2
  <2>4. Dummies(0) = <<>>
    BY DEF Dummies
  <2> QED
    BY <1>5, <2>3, <2>4, ConcatEmptySeq
<1>10. IsPrefix(Flushed, bin)
  <2>1. Len(Flushed) <= Len(bin)
    BY <1>3, <1>5
  <2>2. \A p \in 1..Len(Flushed) : Flushed[p] = bin[p]
    BY <1>5
  <2> QED
    BY <1>3, <1>5, <2>1, <2>2, PrefixBy
<1>11. binBuff' \in [0..SEGMENT - 1 -> 0..HEX_BYTE - 1]
  <2>1. EMPTY_BYTE \in 0..HEX_BYTE - 1
    BY HexConstants DEF EMPTY_BYTE
  <2> QED
    BY <1>1, <2>1 DEF EmptyBuff
<1>12. mcs' = mcs /\ bin' = bin
  BY <1>1 DEF InputsUnchanged
<1>13. ReaderAt(off, base)'
  <2>1. o + 0 = o /\ 0..0 - 1 = {}
    BY <1>3, <1>5
  <2>2. /\ addrInit' = o /\ binLen' = 0 /\ image' = Flushed /\ addrNext' = o % WORD32
        /\ lineCount' \in Nat /\ lineCount' < Len(mcs') /\ base[lineCount' + 1] = o /\ off[lineCount' + 1] = o
    BY <1>1, <1>4, <1>6, <1>7, <1>9, <1>12
  <2>3. Len(image') = addrInit' /\ \A p \in 1..addrInit' : image'[p] = bin'[p]
    BY <1>5, <1>12, <2>2
  <2> QED
    BY <2>1, <2>2, <2>3 DEF ReaderAt
<1> QED
  BY <1>1, <1>2, <1>5, <1>9, <1>10, <1>11, <1>13, NextInv

LEMMA ReadDataInv ==
  ASSUME HexInv, written = TRUE, ReadData
  PROVE  HexInv'
<1>1. /\ hexPc = "mcs2bin" /\ lineCount < Len(mcs) /\ Valid(Current) /\ Current.type = "data" /\ hexPc' = hexPc
      /\ InputsUnchanged /\ NextLine /\ addrInit' = addrInit /\ image' = image
      /\ binBuff' = Copied(Current) /\ binLen' = Current.addr + Current.len
      /\ addrNext' = (addrInit + binLen') % WORD32
  BY DEF ReadData, IsRecord, Reading
<1>2. PICK off, base : HexAt(off, base)
  BY DEF HexInv
<1>3. HexPlace /\ Complete(mcs, bin, damaged, off, base) /\ Path(mcs, bin, off, base) /\ ReaderAt(off, base)
      /\ lineCount + 1 \in 1..Len(mcs) /\ bin \in HexFiles /\ mcs \in Seq(Records) /\ bin \in Seq(0..HEX_BYTE - 1)
      /\ Len(bin) \in Nat /\ Len(mcs) \in Nat /\ lineCount \in Nat /\ IsPrefix(image, bin)
  BY <1>1, <1>2, ReadingFacts
<1> DEFINE k == lineCount + 1
           o == off[k]
           b == base[k]
           o2 == off[k + 1]
           entry == Current
<1>4. /\ k < Len(mcs) /\ o < o2 /\ base[k + 1] = b /\ entry.addr = o - b /\ entry.len = o2 - o
      /\ \A l \in 1..o2 - o : entry.data[l] = bin[o + l]
  BY <1>1, <1>3, AcceptedLine DEF Current
<1>5. o \in 0..Len(bin) /\ b \in 0..Len(bin) /\ o2 \in 0..Len(bin) /\ b <= o /\ o2 - b <= SEGMENT
  <2>1. k \in 1..Len(mcs) + 1 /\ k + 1 \in 1..Len(mcs) + 1
    BY <1>3
  <2> QED
    BY <1>3, <1>4, <2>1 DEF Path
<1>6. lineCount' + 1 = k + 1 /\ lineCount' \in Nat /\ lineCount' < Len(mcs)
  BY <1>1, <1>3, <1>4 DEF NextLine
<1>7. /\ addrInit = b /\ addrInit + binLen = o /\ binLen \in Nat /\ Len(image) = addrInit
      /\ \A p \in 1..addrInit : image[p] = bin[p]
      /\ \A a \in 0..binLen - 1 : binBuff[a] = bin[addrInit + a + 1]
  BY <1>3 DEF ReaderAt
<1>8. mcs' = mcs /\ bin' = bin
  BY <1>1 DEF InputsUnchanged
<1>9. binBuff \in [0..SEGMENT - 1 -> 0..HEX_BYTE - 1] /\ image \in Seq(0..HEX_BYTE - 1)
  BY <1>3 DEF HexPlace
<1>10. SEGMENT \in Nat
  BY HexConstants
<1>11. binBuff' = [a \in 0..SEGMENT - 1 |-> IF a \in entry.addr..entry.addr + entry.len - 1
                                            THEN entry.data[a - entry.addr + 1] ELSE binBuff[a]]
  BY <1>1, <1>9 DEF Copied
<1> HIDE DEF k, o, b, o2, entry
<1>t. o \in Nat /\ b \in Nat /\ o2 \in Nat /\ binLen = o - b /\ o <= Len(bin) /\ o2 <= Len(bin)
  BY <1>3, <1>5, <1>7
<1>12. entry.addr = binLen /\ entry.addr + entry.len = o2 - b /\ entry.addr + entry.len - 1 = o2 - b - 1
  <2>1. PICK first_ \in Int, n \in Int : first_ = entry.addr /\ n = entry.len /\ first_ = o - b /\ n = o2 - o
    BY <1>4, <1>t
  <2>2. first_ = binLen /\ first_ + n = o2 - b /\ first_ + n - 1 = o2 - b - 1
    BY <1>t, <2>1
  <2> QED
    BY <2>1, <2>2
<1>13. binBuff' = [a \in 0..SEGMENT - 1 |-> IF a \in binLen..o2 - b - 1
                                            THEN entry.data[a - binLen + 1] ELSE binBuff[a]]
  BY <1>11, <1>12
<1>14. ASSUME NEW a \in 0..SEGMENT - 1, a \in binLen..o2 - b - 1
       PROVE  entry.data[a - binLen + 1] = bin[b + a + 1] /\ bin[b + a + 1] \in 0..HEX_BYTE - 1
  <2>1. a - binLen + 1 \in 1..o2 - o /\ o + (a - binLen + 1) = b + a + 1 /\ b + a + 1 \in 1..Len(bin)
    BY <1>3, <1>4, <1>7, <1>10, <1>14, <1>t
  <2>2. bin[b + a + 1] \in 0..HEX_BYTE - 1
    BY <1>3, <2>1, ElementOfSeq
  <2>3. entry.data[a - binLen + 1] = bin[o + (a - binLen + 1)]
    BY <1>4, <2>1
  <2> QED
    BY <2>1, <2>2, <2>3
<1>15. binBuff' \in [0..SEGMENT - 1 -> 0..HEX_BYTE - 1]
  BY <1>9, <1>13, <1>14
<1>16. ASSUME NEW a \in 0..o2 - b - 1 PROVE binBuff'[a] = bin[b + a + 1]
  <2>1. a \in 0..SEGMENT - 1
    BY <1>5, <1>10, <1>t
  <2>2. CASE a \in binLen..o2 - b - 1
    BY <1>13, <1>14, <2>1, <2>2
  <2>3. CASE ~(a \in binLen..o2 - b - 1)
    <3>1. a \in 0..binLen - 1
      BY <1>7, <1>t, <2>3
    <3>2. binBuff[a] = bin[b + a + 1]
      BY <1>7, <3>1
    <3> QED
      BY <1>13, <2>1, <2>3, <3>2
  <2> QED
    BY <2>2, <2>3
<1>17. binLen' = o2 - b /\ addrInit' = b /\ addrInit' + binLen' = o2 /\ binLen' \in Nat /\ addrNext' = o2 % WORD32
  <2>1. binLen' = o2 - b
    BY <1>1, <1>12 DEF entry
  <2>2. b + (o2 - b) = o2 /\ o2 - b \in Nat
    BY <1>4, <1>5, <1>t
  <2> QED
    BY <1>1, <1>7, <2>1, <2>2
<1>18. ReaderAt(off, base)'
  <2>1. lineCount' \in Nat /\ lineCount' < Len(mcs') /\ base[lineCount' + 1] = b /\ off[lineCount' + 1] = o2
    BY <1>4, <1>6, <1>8 DEF o2
  <2>2. Len(image') = addrInit' /\ \A p \in 1..addrInit' : image'[p] = bin'[p]
    BY <1>1, <1>7, <1>8, <1>17
  <2>3. \A a \in 0..binLen' - 1 : binBuff'[a] = bin'[addrInit' + a + 1]
    BY <1>8, <1>16, <1>17
  <2> QED
    BY <1>17, <2>1, <2>2, <2>3 DEF ReaderAt
<1> QED
  BY <1>1, <1>2, <1>3, <1>9, <1>15, <1>18, NextInv

LEMMA LoseColonInv ==
  ASSUME LoseColon
  PROVE  HexInv'
BY DEF LoseColon, HexInv

LEMMA HexNextInv == HexInv /\ [HexNext]_hexVars => HexInv'
<1> SUFFICES ASSUME HexInv, [HexNext]_hexVars PROVE HexInv'
  OBVIOUS
<1>1. CASE UNCHANGED hexVars
  <2>1. ASSUME NEW off, NEW base, HexAt(off, base) PROVE HexAt(off, base)'
    BY <1>1, <2>1 DEF HexAt, ReaderAt, WriterAt, hexVars, packVars, unpackVars
  <2>2. written' = written /\ hexPc' = hexPc
    BY <1>1 DEF hexVars
  <2>3. ASSUME written = TRUE PROVE HexPlace' /\ (\E off, base : HexAt(off, base)') /\ RestoresFile'
    <3>1. HexPlace /\ RestoresFile /\ \E off, base : HexAt(off, base)
      BY <2>3 DEF HexInv
    <3>2. HexPlace' /\ RestoresFile'
      BY <1>1, <3>1 DEF HexPlace, RestoresFile, hexVars, unpackVars
    <3> QED
      BY <2>1, <3>1, <3>2
  <2> QED
    BY <2>2, <2>3 DEF HexInv
<1>2. CASE HexNext
  <2>1. CASE written # TRUE
    <3>1. (written' = written \/ written' = FALSE) /\ hexPc' \in {"bin2mcs", "written", "mcs2bin", "done"}
      BY <1>2 DEF HexNext, LoseColon, HexInv, WriteRecord, WriteEof, Damage, Convert, EndOfInput, SkipText, RejectRecord,
         ReadData, ReadLinear, ReadEof, SkipRecord, InputsUnchanged
    <3> QED
      BY <2>1, <3>1 DEF HexInv
  <2>2. CASE written = TRUE
    BY <1>2, <2>2, WriteRecordInv, WriteEofInv, DamageInv, LoseColonInv, ConvertInv, EndOfInputInv, NothingSkipped,
       RejectRecordInv, ReadDataInv, ReadLinearInv, ReadEofInv DEF HexNext
  <2> QED
    BY <2>1, <2>2
<1> QED
  BY <1>1, <1>2

(* mcs2bin (intel_hex.c:265-402) undoes bin2mcs (405-502), for a file of   *)
(* any content and any length: it writes the file again if no byte of the  *)
(* listing changed on the way, and nothing but the beginning of the file   *)
(* if a byte of a record did, be it of its length, its address, its type,  *)
(* its data or its checksum.  Its ':' is not among them: see ImageIsExact. *)
THEOREM FileRestored == HexSpec => []RestoresFile
<1>1. HexInit => HexInv
  BY HexInitInv
<1>2. HexInv /\ [HexNext]_hexVars => HexInv'
  BY HexNextInv
<1>3. HexInv => RestoresFile
  BY DEF HexInv, RestoresFile
<1> QED
  BY <1>1, <1>2, <1>3, PTL DEF HexSpec

-----------------------------------------------------------------------------
(* mcs2bin on an orderly listing of any origin: seg has the segment of     *)
(* each line.                                                              *)

DataLines(ls)      == {k \in 1..Len(ls) : ls[k].type = "data"}
PlaceOf(ls, seg, k) == seg[k] + ls[k].addr
EndOf(ls, seg, k)   == PlaceOf(ls, seg, k) + ls[k].len
Holds(ls, seg, k, p) == PlaceOf(ls, seg, k) <= p - 1 /\ p - 1 < EndOf(ls, seg, k)

SegmentsOf(ls, seg) ==
  /\ seg \in [1..Len(ls) + 1 -> Nat] /\ seg[1] = 0
  /\ \A k \in 1..Len(ls) : seg[k + 1] = IF ls[k].type = "linear" THEN Segment(ls[k]) ELSE seg[k]
Layout(ls, seg) ==
  /\ Len(ls) \in Nat \ {0} /\ ls[Len(ls)].type = "eof" /\ SegmentsOf(ls, seg)
  /\ \A k \in 1..Len(ls) :
       /\ ls[k].type # "blank" /\ (ls[k].type = "eof" => k = Len(ls))
       /\ ls[k].type # "text" => Valid(ls[k])
  /\ \A k \in DataLines(ls) :
       /\ ls[k].addr \in Nat /\ ls[k].len \in Nat /\ ls[k].addr + ls[k].len <= SEGMENT
       /\ \A a \in 1..ls[k].len : ls[k].data[a] \in 0..HEX_BYTE - 1
  /\ \A k, l \in DataLines(ls) : k < l => EndOf(ls, seg, k) <= PlaceOf(ls, seg, l)
  /\ \A k \in 1..Len(ls) : ls[k].type = "linear" =>
       /\ Segment(ls[k]) \in 0..WORD32 - 1 /\ ls[k + 1].type = "data"
       /\ \A l \in DataLines(ls) : l < k => EndOf(ls, seg, l) <= Segment(ls[k])

(* v is the byte at place p of the file, as far as the first n lines say.  *)
ByteIs(ls, seg, n, p, v) ==
  /\ \A k \in DataLines(ls) : k <= n /\ Holds(ls, seg, k, p) => v = ls[k].data[p - PlaceOf(ls, seg, k)]
  /\ (\A k \in DataLines(ls) : k <= n => ~Holds(ls, seg, k, p)) => v = EMPTY_BYTE
ReachesTo(ls, seg, n, end) == end = 0 \/ \E k \in DataLines(ls) : k <= n /\ EndOf(ls, seg, k) = end

(* mcs2bin behind the first n lines: what it wrote and what it holds.      *)
ReadTo(ls, seg, n, img, buf, size, first, behind) ==
  /\ n \in 0..Len(ls) - 1 /\ first = seg[n + 1] /\ size \in 0..SEGMENT
  /\ img \in Seq(0..HEX_BYTE - 1) /\ Len(img) = first
  /\ buf \in [0..SEGMENT - 1 -> 0..HEX_BYTE - 1]
  /\ \A k \in DataLines(ls) : k <= n => EndOf(ls, seg, k) <= first + size
  /\ n = 0 \/ ls[n].type # "linear" =>
       behind = (first + size) % WORD32 /\ ReachesTo(ls, seg, n, first + size)
  /\ \A p \in 1..first : ByteIs(ls, seg, n, p, img[p])
  /\ \A a \in 0..SEGMENT - 1 : ByteIs(ls, seg, n, first + a + 1, buf[a])

(* The finished file has every byte that a record says, and ends there.    *)
Finished(ls, seg, img) ==
  /\ img \in Seq(0..HEX_BYTE - 1)
  /\ ReachesTo(ls, seg, Len(ls), Len(img)) /\ \A k \in DataLines(ls) : EndOf(ls, seg, k) <= Len(img)
  /\ \A p \in 1..Len(img) : ByteIs(ls, seg, Len(ls), p, img[p])

(* What mcs2bin has before it reads the first line.                        *)
Unread == /\ lineCount = 0 /\ binBuff = EmptyBuff /\ binLen = 0 /\ addrInit = 0 /\ addrNext = 0
          /\ image = <<>>
AnyLines == Seq({BlankLine, TextLine} \cup Records)

ListingInv ==
  /\ written \in BOOLEAN /\ hexPc \in {"bin2mcs", "written", "mcs2bin", "done"}
  /\ hexPc \in {"bin2mcs", "written"} => written = TRUE /\ Unread
  /\ written = FALSE =>
       /\ hexPc \in {"mcs2bin", "done"} /\ mcs \in Seq({BlankLine, TextLine} \cup Records)
       /\ Orderly => \E seg :
            /\ Layout(mcs, seg)
            /\ hexPc = "mcs2bin" =>
                 ReadTo(mcs, seg, lineCount, image, binBuff, binLen, addrInit, addrNext)
            /\ hexPc = "done" => Finished(mcs, seg, image)

(* Facts about the lines of a listing.                                     *)
LEMMA LayoutFacts ==
  ASSUME NEW ls, NEW seg, Layout(ls, seg)
  PROVE  /\ Len(ls) \in Nat /\ Len(ls) >= 1
         /\ \A k \in DataLines(ls) : /\ k \in Nat /\ k < Len(ls) /\ seg[k] \in Nat
                                     /\ PlaceOf(ls, seg, k) \in Nat /\ EndOf(ls, seg, k) \in Nat
                                     /\ PlaceOf(ls, seg, k) >= seg[k]
                                     /\ EndOf(ls, seg, k) <= seg[k] + SEGMENT
<1>1. Len(ls) \in Nat /\ Len(ls) >= 1
  BY DEF Layout
<1>2. ASSUME NEW k \in DataLines(ls)
      PROVE  /\ k \in Nat /\ k < Len(ls) /\ seg[k] \in Nat /\ PlaceOf(ls, seg, k) \in Nat
             /\ EndOf(ls, seg, k) \in Nat /\ PlaceOf(ls, seg, k) >= seg[k]
             /\ EndOf(ls, seg, k) <= seg[k] + SEGMENT
  <2>1. k \in 1..Len(ls) /\ ls[k].type = "data"
    BY DEF DataLines
  <2>2. k # Len(ls)
    BY <2>1 DEF Layout
  <2>3. k \in 1..Len(ls) + 1
    BY <1>1, <2>1
  <2>4. seg[k] \in Nat
    BY <2>3 DEF Layout, SegmentsOf
  <2>5. ls[k].addr \in Nat /\ ls[k].len \in Nat /\ ls[k].addr + ls[k].len <= SEGMENT
    BY DEF Layout
  <2>6. k \in Nat /\ k < Len(ls)
    BY <1>1, <2>1, <2>2
  <2>7. PICK s \in Nat, a \in Nat, m \in Nat : s = seg[k] /\ a = ls[k].addr /\ m = ls[k].len
    BY <2>4, <2>5
  <2>8. PlaceOf(ls, seg, k) = s + a /\ EndOf(ls, seg, k) = s + a + m
    BY <2>7 DEF PlaceOf, EndOf
  <2>9. a + m <= SEGMENT /\ SEGMENT \in Nat
    BY <2>5, <2>7, HexConstants
  <2>10. s + a \in Nat /\ s + a + m \in Nat /\ s + a >= s /\ s + a + m <= s + SEGMENT
    BY <2>7, <2>9
  <2> QED
    BY <2>6, <2>7, <2>8, <2>10, Zenon
<1> QED
  BY <1>1, <1>2

(* What another line that is no data, or whose data is elsewhere, leaves.  *)
LEMMA ByteStays ==
  ASSUME NEW ls, NEW seg, NEW n \in Nat, NEW p, NEW v, ByteIs(ls, seg, n, p, v),
         n + 1 \in DataLines(ls) => ~Holds(ls, seg, n + 1, p)
  PROVE  ByteIs(ls, seg, n + 1, p, v)
<1>1. \A k \in DataLines(ls) : k <= n + 1 => k <= n \/ k = n + 1
  BY DEF DataLines
<1>2. \A k \in DataLines(ls) : k <= n => k <= n + 1
  BY DEF DataLines
<1> QED
  BY <1>1, <1>2, Zenon DEF ByteIs

(* What is behind all data is empty.                                       *)
LEMMA ByteEmpty ==
  ASSUME NEW ls, NEW seg, Layout(ls, seg), NEW n, NEW p \in Int,
         \A k \in DataLines(ls) : k <= n => EndOf(ls, seg, k) <= p - 1
  PROVE  ByteIs(ls, seg, n, p, EMPTY_BYTE)
<1>1. \A k \in DataLines(ls) : k <= n => ~Holds(ls, seg, k, p)
  BY LayoutFacts DEF Holds
<1> QED
  BY <1>1, Zenon DEF ByteIs

LEMMA ReachedLater ==
  ASSUME NEW ls, NEW seg, NEW n \in Nat, NEW m \in Nat, n <= m, NEW end, ReachesTo(ls, seg, n, end)
  PROVE  ReachesTo(ls, seg, m, end)
<1>1. \A k \in DataLines(ls) : k <= n => k <= m
  BY DEF DataLines
<1> QED
  BY <1>1, Zenon DEF ReachesTo

(* A line that mcs2bin passes over.                                        *)
LEMMA PassOver ==
  ASSUME NEW ls, NEW seg, Layout(ls, seg), NEW n, NEW img, NEW buf, NEW size, NEW first, NEW behind,
         ReadTo(ls, seg, n, img, buf, size, first, behind),
         ls[n + 1].type \notin {"data", "linear", "eof"}
  PROVE  ReadTo(ls, seg, n + 1, img, buf, size, first, behind)
<1>1. n \in Nat /\ n + 1 \in 1..Len(ls) /\ Len(ls) \in Nat /\ n <= n + 1 /\ n + 1 # 0
  BY DEF ReadTo, Layout
<1>2. n + 1 # Len(ls)
  BY DEF Layout
<1>3. n + 1 \in 0..Len(ls) - 1
  BY <1>1, <1>2
<1>4. seg[n + 2] = seg[n + 1] /\ n + 2 = (n + 1) + 1
  <2>1. seg[(n + 1) + 1] = seg[n + 1]
    BY <1>1, Zenon DEF Layout, SegmentsOf
  <2> QED
    BY <1>1, <2>1
<1>5. n + 1 \notin DataLines(ls)
  BY DEF DataLines
<1>6. \A k \in DataLines(ls) : k <= n + 1 => k <= n
  BY <1>1, <1>5 DEF DataLines
<1>7. n = 0 \/ ls[n].type # "linear"
  <2>1. CASE n # 0 /\ ls[n].type = "linear"
    <3>1. n \in 1..Len(ls)
      BY <1>1, <2>1
    <3> QED
      BY <2>1, <3>1 DEF Layout
  <2> QED
    BY <2>1
<1>8. behind = (first + size) % WORD32 /\ ReachesTo(ls, seg, n + 1, first + size)
  BY <1>1, <1>7, ReachedLater DEF ReadTo
<1>9. \A p \in 1..first : ByteIs(ls, seg, n + 1, p, img[p])
  BY <1>1, <1>5, ByteStays, Zenon DEF ReadTo
<1>10. \A a \in 0..SEGMENT - 1 : ByteIs(ls, seg, n + 1, first + a + 1, buf[a])
  BY <1>1, <1>5, ByteStays, Zenon DEF ReadTo
<1> QED
  BY <1>3, <1>4, <1>6, <1>8, <1>9, <1>10, Zenon DEF ReadTo

(* The line at hand and what is before it.                                 *)
LEMMA LineAtHand ==
  ASSUME NEW ls, NEW seg, Layout(ls, seg), NEW n, NEW img, NEW buf, NEW size, NEW first, NEW behind,
         ReadTo(ls, seg, n, img, buf, size, first, behind)
  PROVE  /\ n \in Nat /\ n + 1 \in Nat /\ n + 1 \in 1..Len(ls) /\ Len(ls) \in Nat /\ n <= n + 1 /\ n + 1 # 0
         /\ ls[n + 1].type # "eof" => n + 1 \in 0..Len(ls) - 1
         /\ n + 2 = (n + 1) + 1 /\ first \in Nat /\ size \in Nat /\ first = seg[n + 1]
         /\ seg[n + 2] = IF ls[n + 1].type = "linear" THEN Segment(ls[n + 1]) ELSE seg[n + 1]
         /\ ls[n + 1].type # "data" => n = 0 \/ ls[n].type # "linear"
<1>1. n \in Nat /\ n + 1 \in 1..Len(ls) /\ Len(ls) \in Nat /\ n + 1 \in 1..Len(ls) + 1
  BY DEF ReadTo, Layout
<1>2. ls[n + 1].type # "eof" => n + 1 # Len(ls)
  BY DEF Layout
<1>3. ls[n + 1].type # "eof" => n + 1 \in 0..Len(ls) - 1
  BY <1>1, <1>2
<1>4. seg[(n + 1) + 1] = IF ls[n + 1].type = "linear" THEN Segment(ls[n + 1]) ELSE seg[n + 1]
  BY <1>1, Zenon DEF Layout, SegmentsOf
<1>5. n + 2 = (n + 1) + 1 /\ n + 1 \in Nat /\ n <= n + 1 /\ n + 1 # 0
  BY <1>1
<1>6. first \in Nat /\ first = seg[n + 1] /\ size \in Nat
  <2>1. seg[n + 1] \in Nat
    BY <1>1 DEF Layout, SegmentsOf
  <2> QED
    BY <2>1, HexConstants DEF ReadTo
<1>7. ASSUME ls[n + 1].type # "data" PROVE n = 0 \/ ls[n].type # "linear"
  <2>1. CASE n # 0 /\ ls[n].type = "linear"
    <3>1. n \in 1..Len(ls)
      BY <1>1, <2>1
    <3> QED
      BY <1>7, <2>1, <3>1 DEF Layout
  <2> QED
    BY <2>1
<1> QED
  BY <1>1, <1>3, <1>4, <1>5, <1>6, <1>7

LEMMA DataRead ==
  ASSUME NEW ls, NEW seg, Layout(ls, seg), NEW n, NEW img, NEW buf, NEW size, NEW first, NEW behind,
         ReadTo(ls, seg, n, img, buf, size, first, behind), ls[n + 1].type = "data",
         NEW buf2, buf2 = [a \in 0..SEGMENT - 1 |->
                             IF a \in ls[n + 1].addr..ls[n + 1].addr + ls[n + 1].len - 1
                             THEN ls[n + 1].data[a - ls[n + 1].addr + 1] ELSE buf[a]]
  PROVE  LET to == ls[n + 1].addr + ls[n + 1].len
         IN  ReadTo(ls, seg, n + 1, img, buf2, to, first, (first + to) % WORD32)
<1>1. /\ n \in Nat /\ n + 1 \in Nat /\ n + 1 \in 1..Len(ls) /\ n <= n + 1 /\ n + 1 \in 0..Len(ls) - 1
      /\ n + 2 = (n + 1) + 1 /\ first \in Nat /\ seg[n + 2] = seg[n + 1] /\ first = seg[n + 1]
  BY LineAtHand
<1>0. first \in Nat
  BY <1>1
<1>2. n + 1 \in DataLines(ls)
  BY <1>1 DEF DataLines
<1>3. PICK A \in Nat, m \in Nat : A = ls[n + 1].addr /\ m = ls[n + 1].len
  BY <1>2 DEF Layout
<1>4. /\ A + m <= SEGMENT /\ SEGMENT \in Nat
      /\ \A a \in 1..m : ls[n + 1].data[a] \in 0..HEX_BYTE - 1
  BY <1>2, <1>3, HexConstants DEF Layout
<1>5. PlaceOf(ls, seg, n + 1) = first + A /\ EndOf(ls, seg, n + 1) = first + A + m
  BY <1>1, <1>3 DEF PlaceOf, EndOf
<1>6. \A k \in DataLines(ls) : k <= n => EndOf(ls, seg, k) <= first + A /\ EndOf(ls, seg, k) \in Nat
  <2> TAKE k \in DataLines(ls)
  <2>1. k <= n => k < n + 1
    BY <1>1 DEF DataLines
  <2>2. k <= n => EndOf(ls, seg, k) <= PlaceOf(ls, seg, n + 1)
    BY <1>2, <2>1 DEF Layout
  <2> QED
    BY <1>5, <2>2, LayoutFacts
<1>7. \A k \in DataLines(ls) : k <= n + 1 => k <= n \/ k = n + 1
  BY <1>1 DEF DataLines
<1>8. \A k \in DataLines(ls) : k <= n + 1 => EndOf(ls, seg, k) <= first + (A + m)
  <2> TAKE k \in DataLines(ls)
  <2>1. ASSUME k <= n PROVE EndOf(ls, seg, k) <= first + (A + m)
    <3>1. PICK e \in Nat : e = EndOf(ls, seg, k)
      BY <1>6, <2>1
    <3>2. e <= first + A
      BY <1>6, <2>1, <3>1
    <3>3. e <= first + (A + m)
      BY <1>0, <3>2
    <3> QED
      BY <3>1, <3>3
  <2>2. k = n + 1 => EndOf(ls, seg, k) <= first + (A + m)
    <3>1. PICK e \in Nat : e = first + A + m
      BY <1>0, <1>3
    <3>2. e <= first + (A + m)
      BY <1>0, <1>3, <3>1
    <3> QED
      BY <1>5, <3>1, <3>2, Zenon
  <2> QED
    BY <1>7, <2>1, <2>2
<1>9. ReachesTo(ls, seg, n + 1, first + (A + m))
  <2>1. EndOf(ls, seg, n + 1) = first + (A + m) /\ n + 1 <= n + 1
    BY <1>1, <1>3, <1>5
  <2> QED
    BY <1>2, <2>1 DEF ReachesTo
<1>10. \A p \in 1..first : ByteIs(ls, seg, n + 1, p, img[p])
  <2> TAKE p \in 1..first
  <2>1. ~Holds(ls, seg, n + 1, p)
    BY <1>1, <1>3, <1>5 DEF Holds
  <2>2. ByteIs(ls, seg, n, p, img[p])
    BY DEF ReadTo
  <2> QED
    BY <1>1, <2>1, <2>2, ByteStays, Zenon
<1>11. ASSUME NEW a \in 0..SEGMENT - 1 PROVE ByteIs(ls, seg, n + 1, first + a + 1, buf2[a])
  <2>1. (first + a + 1) - 1 = first + a /\ a \in Nat
    BY <1>1, <1>4
  <2> DEFINE q == (first + a + 1) - 1
  <2>4. Holds(ls, seg, n + 1, first + a + 1) <=> first + A <= q /\ q < first + A + m
    BY <1>5 DEF Holds
  <2>5. first + A <= q /\ q < first + A + m <=> a \in A..A + m - 1
    BY <1>0, <2>1
  <2>2. CASE a \in A..A + m - 1
    <3>1. buf2[a] = ls[n + 1].data[a - A + 1]
      BY <1>3, <2>2
    <3>2. (first + a + 1) - (first + A) = a - A + 1
      BY <1>1, <1>3, <2>1
    <3>3. Holds(ls, seg, n + 1, first + a + 1)
      BY <2>2, <2>4, <2>5
    <3>4. \A k \in DataLines(ls) : k <= n => ~Holds(ls, seg, k, first + a + 1)
      <4> TAKE k \in DataLines(ls)
      <4> SUFFICES ASSUME k <= n PROVE ~Holds(ls, seg, k, first + a + 1)
        OBVIOUS
      <4>1. PICK e \in Nat : e = EndOf(ls, seg, k)
        BY <1>6
      <4>2. e <= first + A
        BY <1>6, <4>1
      <4>3. ~(q < e)
        BY <1>0, <2>1, <2>2, <2>5, <4>2
      <4>4. ~((first + a + 1) - 1 < EndOf(ls, seg, k))
        BY <4>1, <4>3
      <4> QED
        BY <4>4, Zenon DEF Holds
    <3>5. buf2[a] = ls[n + 1].data[(first + a + 1) - PlaceOf(ls, seg, n + 1)]
      BY <1>5, <3>1, <3>2
    <3>6. n + 1 <= n + 1
      BY <1>1
    <3>7. \A k \in DataLines(ls) : k <= n + 1 /\ Holds(ls, seg, k, first + a + 1) => k = n + 1
      BY <1>7, <3>4, Zenon
    <3>8. \A k \in DataLines(ls) : k <= n + 1 /\ Holds(ls, seg, k, first + a + 1)
             => buf2[a] = ls[k].data[(first + a + 1) - PlaceOf(ls, seg, k)]
      BY <3>5, <3>7, Zenon
    <3>9. ~\A k \in DataLines(ls) : k <= n + 1 => ~Holds(ls, seg, k, first + a + 1)
      BY <1>2, <3>3, <3>6, Zenon
    <3> QED
      BY <3>8, <3>9 DEF ByteIs
  <2>3. CASE a \notin A..A + m - 1
    <3>1. buf2[a] = buf[a]
      BY <1>3, <2>3
    <3>2. ~Holds(ls, seg, n + 1, first + a + 1)
      BY <2>3, <2>4, <2>5
    <3>3. ByteIs(ls, seg, n, first + a + 1, buf2[a])
      BY <3>1 DEF ReadTo
    <3> QED
      BY <1>1, <3>2, <3>3, ByteStays, Zenon
  <2> QED
    BY <2>2, <2>3
<1>12. buf2 \in [0..SEGMENT - 1 -> 0..HEX_BYTE - 1]
  <2>1. ASSUME NEW a \in A..A + m - 1 PROVE a - A + 1 \in 1..m
    BY <1>3, SMTT(20)
  <2>2. buf \in [0..SEGMENT - 1 -> 0..HEX_BYTE - 1]
    BY DEF ReadTo
  <2> QED
    BY <1>3, <1>4, <2>1, <2>2
<1>13. A + m \in 0..SEGMENT
  BY <1>3, <1>4
<1>14. img \in Seq(0..HEX_BYTE - 1) /\ Len(img) = first
  BY DEF ReadTo
<1> DEFINE to == A + m
<1>15. ReadTo(ls, seg, n + 1, img, buf2, to, first, (first + to) % WORD32)
  BY <1>1, <1>8, <1>9, <1>10, <1>11, <1>12, <1>13, <1>14, Zenon DEF ReadTo
<1> QED
  BY <1>3, <1>15

(* What mcs2bin adds to the file at the end of a segment.                  *)
LEMMA SegmentFlushed ==
  ASSUME NEW ls, NEW seg, Layout(ls, seg), NEW n, NEW size, NEW first, NEW behind, NEW flushed,
         ReadTo(ls, seg, n, image, binBuff, size, first, behind),
         flushed = image \o [k \in 1..size |-> binBuff[k - 1]]
  PROVE  /\ flushed \in Seq(0..HEX_BYTE - 1) /\ Len(flushed) = first + size
         /\ \A p \in 1..first + size : ByteIs(ls, seg, n, p, flushed[p])
<1> DEFINE tail == [k \in 1..size |-> binBuff[k - 1]]
<1>1. /\ first \in Nat /\ size \in 0..SEGMENT /\ size \in Nat /\ SEGMENT \in Nat
      /\ image \in Seq(0..HEX_BYTE - 1) /\ Len(image) = first
      /\ binBuff \in [0..SEGMENT - 1 -> 0..HEX_BYTE - 1]
  BY LineAtHand, HexConstants DEF ReadTo
<1>2. tail \in Seq(0..HEX_BYTE - 1) /\ Len(tail) = size
  <2>1. \A k \in 1..size : binBuff[k - 1] \in 0..HEX_BYTE - 1
    BY <1>1
  <2> QED
    BY <1>1, <2>1
<1>3. \A k \in 1..size : tail[k] = binBuff[k - 1]
  OBVIOUS
<1> HIDE DEF tail
<1>4. /\ image \o tail \in Seq(0..HEX_BYTE - 1) /\ Len(image \o tail) = Len(image) + Len(tail)
      /\ \A p \in 1..Len(image) + Len(tail) :
           (image \o tail)[p] = IF p <= Len(image) THEN image[p] ELSE tail[p - Len(image)]
  BY <1>1, <1>2, ConcatProperties, Zenon
<1>5. ASSUME NEW p \in 1..first + size PROVE ByteIs(ls, seg, n, p, (image \o tail)[p])
  <2>1. CASE p <= first
    <3>1. (image \o tail)[p] = image[p] /\ p \in 1..first
      BY <1>1, <1>2, <1>4, <2>1
    <3> QED
      BY <3>1 DEF ReadTo
  <2>2. CASE ~(p <= first)
    <3>1. p - first \in 1..size /\ p - first - 1 \in 0..SEGMENT - 1 /\ first + (p - first - 1) + 1 = p
      BY <1>1, <2>2
    <3>2. (image \o tail)[p] = tail[p - first]
      BY <1>1, <1>2, <1>4, <2>2
    <3>3. (image \o tail)[p] = binBuff[p - first - 1]
      BY <1>3, <3>1, <3>2
    <3>4. ByteIs(ls, seg, n, first + (p - first - 1) + 1, binBuff[p - first - 1])
      BY <3>1 DEF ReadTo
    <3> QED
      BY <3>1, <3>3, <3>4
  <2> QED
    BY <2>1, <2>2
<1>6. flushed = image \o tail
  BY DEF tail
<1> QED
  BY <1>1, <1>2, <1>4, <1>5, <1>6

LEMMA EmptyByte == EMPTY_BYTE \in 0..HEX_BYTE - 1
  BY HexConstants DEF EMPTY_BYTE

LEMMA LinearRead ==
  ASSUME NEW ls, NEW seg, Layout(ls, seg), NEW n, NEW size, NEW first, NEW behind, NEW flushed, NEW gap,
         ReadTo(ls, seg, n, image, binBuff, size, first, behind), ls[n + 1].type = "linear",
         flushed = image \o [k \in 1..size |-> binBuff[k - 1]],
         gap = IF behind < Segment(ls[n + 1]) THEN Segment(ls[n + 1]) - behind ELSE 0
  PROVE  ReadTo(ls, seg, n + 1, flushed \o Dummies(gap), EmptyBuff, 0, Segment(ls[n + 1]), behind)
<1>1. /\ n \in Nat /\ n + 1 \in Nat /\ n + 1 \in 1..Len(ls) /\ n <= n + 1 /\ n + 1 \in 0..Len(ls) - 1
      /\ n + 2 = (n + 1) + 1 /\ first \in Nat /\ size \in Nat /\ n + 1 # 0
      /\ n = 0 \/ ls[n].type # "linear"
  BY LineAtHand
<1>2. seg[n + 2] = Segment(ls[n + 1])
  BY LineAtHand
<1>3. PICK S \in 0..WORD32 - 1 : S = Segment(ls[n + 1])
  BY <1>1 DEF Layout
<1>4. WORD32 \in Nat \ {0} /\ SEGMENT \in Nat \ {0}
  BY WordFacts, HexConstants
<1>5. S \in Nat /\ S < WORD32
  BY <1>3, <1>4
<1>6. n + 1 \notin DataLines(ls)
  BY DEF DataLines
<1>7. \A k \in DataLines(ls) : k <= n + 1 => k <= n
  BY <1>1, <1>6 DEF DataLines
<1>8. behind = (first + size) % WORD32 /\ ReachesTo(ls, seg, n, first + size)
  BY <1>1 DEF ReadTo
<1>9. first + size <= S
  <2>1. CASE first + size = 0
    BY <1>5, <2>1
  <2>2. ASSUME NEW k \in DataLines(ls), k <= n, EndOf(ls, seg, k) = first + size PROVE first + size <= S
    <3>1. k < n + 1
      BY <1>1, <2>2 DEF DataLines
    <3> QED
      BY <1>1, <1>3, <2>2, <3>1 DEF Layout
  <2> QED
    BY <1>8, <2>1, <2>2 DEF ReachesTo
<1>10. behind = first + size
  <2>1. first + size \in 0..WORD32 - 1 /\ first + size \in Int /\ first + size = WORD32 * 0 + (first + size)
    BY <1>1, <1>4, <1>5, <1>9
  <2>2. (first + size) % WORD32 = first + size
    <3>1. PICK b \in Nat \ {0} : b = WORD32
      BY <1>4
    <3>2. PICK r \in 0..b - 1 : r = first + size
      BY <2>1, <3>1
    <3>4. r % b = r
      BY ModSmall, Zenon
    <3> QED
      BY <3>1, <3>2, <3>4
  <2> QED
    BY <1>8, <2>2
<1>11. gap \in Nat /\ first + size + gap = S
  <2>1. CASE behind < S
    BY <1>1, <1>3, <1>5, <1>10, <2>1
  <2>2. CASE ~(behind < S)
    BY <1>1, <1>3, <1>5, <1>9, <1>10, <2>2, SMTT(20)
  <2> QED
    BY <2>1, <2>2
<1>12. /\ flushed \in Seq(0..HEX_BYTE - 1) /\ Len(flushed) = first + size
       /\ \A p \in 1..first + size : ByteIs(ls, seg, n, p, flushed[p])
  BY SegmentFlushed, ZenonT(40)
<1> DEFINE empty == Dummies(gap)
<1>13. empty \in Seq(0..HEX_BYTE - 1) /\ Len(empty) = gap /\ \A k \in 1..gap : empty[k] = EMPTY_BYTE
  <2>1. PICK b \in 0..HEX_BYTE - 1 : b = EMPTY_BYTE
    BY EmptyByte
  <2>2. empty = [k \in 1..gap |-> b]
    BY <2>1 DEF Dummies
  <2> HIDE DEF empty
  <2>3. gap \in Nat
    BY <1>11
  <2>4. empty \in Seq(0..HEX_BYTE - 1) /\ Len(empty) = gap
    <3> DEFINE values == 0..HEX_BYTE - 1
    <3>1. empty \in [1..gap -> values]
      BY <2>1, <2>2
    <3> HIDE DEF values
    <3>2. empty \in Seq(values) /\ Len(empty) = gap
      BY <2>3, <3>1
    <3> QED
      BY <3>2 DEF values
  <2>5. \A k \in 1..gap : empty[k] = EMPTY_BYTE
    BY <2>1, <2>2
  <2> QED
    BY <2>4, <2>5
<1> HIDE DEF empty
<1> DEFINE img2 == flushed \o empty
<1>14. /\ img2 \in Seq(0..HEX_BYTE - 1) /\ Len(img2) = Len(flushed) + Len(empty)
       /\ \A p \in 1..Len(flushed) + Len(empty) :
            img2[p] = IF p <= Len(flushed) THEN flushed[p] ELSE empty[p - Len(flushed)]
  BY <1>12, <1>13, ConcatProperties, Zenon
<1> HIDE DEF img2
<1>15. Len(img2) = S
  BY <1>1, <1>11, <1>12, <1>13, <1>14
<1>16. \A k \in DataLines(ls) : k <= n => EndOf(ls, seg, k) <= first + size /\ EndOf(ls, seg, k) \in Nat
  BY LayoutFacts DEF ReadTo
<1>17. ASSUME NEW p \in Int, first + size < p PROVE ByteIs(ls, seg, n, p, EMPTY_BYTE)
  <2>1. \A k \in DataLines(ls) : k <= n => EndOf(ls, seg, k) <= p - 1
    <3> TAKE k \in DataLines(ls)
    <3>1. ASSUME k <= n PROVE EndOf(ls, seg, k) <= p - 1
      <4>1. PICK e \in Nat : e = EndOf(ls, seg, k)
        BY <1>16, <3>1
      <4>2. e <= first + size
        BY <1>16, <3>1, <4>1
      <4>3. e <= p - 1
        BY <1>1, <1>17, <4>2
      <4> QED
        BY <4>1, <4>3
    <3> QED
      BY <3>1
  <2> QED
    BY <2>1, ByteEmpty
<1>18. ASSUME NEW p \in 1..S PROVE ByteIs(ls, seg, n + 1, p, img2[p])
  <2>3. PICK f \in Nat : f = first + size
    BY <1>1
  <2>4. Len(flushed) = f /\ Len(flushed) + Len(empty) = S /\ f + gap = S /\ gap \in Nat
    BY <1>11, <1>12, <1>13, <2>3
  <2>5. p \in 1..Len(flushed) + Len(empty)
    BY <2>4
  <2>6. img2[p] = IF p <= f THEN flushed[p] ELSE empty[p - f]
    BY <1>14, <2>4, <2>5, Zenon
  <2>1. CASE p <= first + size
    <3>1. img2[p] = flushed[p] /\ p \in 1..first + size
      <4>1. img2[p] = flushed[p]
        BY <2>1, <2>3, <2>6
      <4>2. p \in 1..first + size
        BY <1>5, <2>1, <2>3
      <4> QED
        BY <4>1, <4>2
    <3>2. ByteIs(ls, seg, n, p, img2[p])
      BY <1>12, <3>1
    <3> QED
      BY <1>1, <1>6, <3>2, ByteStays, Zenon
  <2>2. CASE ~(p <= first + size)
    <3>1. img2[p] = empty[p - f] /\ p - f \in 1..gap /\ first + size < p /\ p \in Int
      BY <1>5, <2>2, <2>3, <2>4, <2>6
    <3>2. ByteIs(ls, seg, n, p, img2[p])
      BY <1>13, <1>17, <3>1
    <3> QED
      BY <1>1, <1>6, <3>2, ByteStays, Zenon
  <2> QED
    BY <2>1, <2>2
<1>19. ASSUME NEW a \in 0..SEGMENT - 1 PROVE ByteIs(ls, seg, n + 1, S + a + 1, EmptyBuff[a])
  <2>1. EmptyBuff[a] = EMPTY_BYTE
    BY DEF EmptyBuff
  <2>2. S + a + 1 \in Int /\ first + size < S + a + 1
    BY <1>1, <1>4, <1>5, <1>9
  <2>3. ByteIs(ls, seg, n, S + a + 1, EmptyBuff[a])
    BY <1>17, <2>1, <2>2
  <2> QED
    BY <1>1, <1>6, <2>3, ByteStays, Zenon
<1>20. \A k \in DataLines(ls) : k <= n + 1 => EndOf(ls, seg, k) <= S + 0
  <2> TAKE k \in DataLines(ls)
  <2>1. ASSUME k <= n PROVE EndOf(ls, seg, k) <= S + 0
    <3>1. PICK e \in Nat : e = EndOf(ls, seg, k)
      BY <1>16, <2>1
    <3>2. e <= first + size
      BY <1>16, <2>1, <3>1
    <3>3. e <= S + 0
      BY <1>1, <1>5, <1>9, <3>2
    <3> QED
      BY <3>1, <3>3
  <2> QED
    BY <1>7, <2>1
<1>21. EmptyBuff \in [0..SEGMENT - 1 -> 0..HEX_BYTE - 1] /\ 0 \in 0..SEGMENT
  BY <1>4, EmptyByte DEF EmptyBuff
<1>22. ReadTo(ls, seg, n + 1, img2, EmptyBuff, 0, S, behind)
  BY <1>1, <1>2, <1>3, <1>14, <1>15, <1>18, <1>19, <1>20, <1>21, Zenon DEF ReadTo
<1> QED
  BY <1>3, <1>22 DEF img2, empty

LEMMA EofRead ==
  ASSUME NEW ls, NEW seg, Layout(ls, seg), NEW n, NEW size, NEW first, NEW behind, NEW flushed,
         ReadTo(ls, seg, n, image, binBuff, size, first, behind), ls[n + 1].type = "eof",
         flushed = image \o [k \in 1..size |-> binBuff[k - 1]]
  PROVE  Finished(ls, seg, flushed)
<1>1. /\ n \in Nat /\ n + 1 \in Nat /\ n + 1 \in 1..Len(ls) /\ n <= n + 1
      /\ n = 0 \/ ls[n].type # "linear"
  BY LineAtHand
<1>2. n + 1 = Len(ls) /\ n + 1 \notin DataLines(ls)
  BY <1>1 DEF Layout, DataLines
<1>3. /\ flushed \in Seq(0..HEX_BYTE - 1) /\ Len(flushed) = first + size
      /\ \A p \in 1..first + size : ByteIs(ls, seg, n, p, flushed[p])
  BY SegmentFlushed, ZenonT(40)
<1>4. ReachesTo(ls, seg, n + 1, Len(flushed))
  BY <1>1, <1>3, ReachedLater DEF ReadTo
<1>5. \A k \in DataLines(ls) : k <= n
  BY <1>1, <1>2 DEF DataLines
<1>6. \A k \in DataLines(ls) : EndOf(ls, seg, k) <= Len(flushed)
  BY <1>3, <1>5 DEF ReadTo
<1>7. \A p \in 1..Len(flushed) : ByteIs(ls, seg, n + 1, p, flushed[p])
  BY <1>1, <1>2, <1>3, ByteStays, Zenon
<1> QED
  BY <1>2, <1>3, <1>4, <1>6, <1>7 DEF Finished

(* The segment of a line is that of the record of it before the line.      *)
LEMMA SegmentStep ==
  ASSUME Len(mcs) \in Nat, DOMAIN mcs = 1..Len(mcs)
  PROVE  /\ SegmentAt(1) = 0
         /\ \A k \in 1..Len(mcs) :
              SegmentAt(k + 1) = IF mcs[k].type = "linear" THEN Segment(mcs[k]) ELSE SegmentAt(k)
<1> DEFINE Before(k) == {l \in Lines("linear") : l < k}
<1>1. \A k : SegmentAt(k) = IF Before(k) = {} THEN 0 ELSE Segment(mcs[Max(Before(k))])
  BY Zenon DEF SegmentAt
<1>2. Before(1) = {}
  BY DEF Lines
<1>3. ASSUME NEW k \in 1..Len(mcs)
      PROVE  SegmentAt(k + 1) = IF mcs[k].type = "linear" THEN Segment(mcs[k]) ELSE SegmentAt(k)
  <2>1. CASE mcs[k].type = "linear"
    <3>1. k \in Before(k + 1) /\ \A l \in Before(k + 1) : l \in Int /\ k >= l
      BY <2>1 DEF Lines
    <3>2. Max(Before(k + 1)) = k
      <4>1. ASSUME NEW m \in Before(k + 1), \A l \in Before(k + 1) : m >= l PROVE m = k
        <5>1. m >= k /\ k >= m /\ m \in Int /\ k \in Int
          BY <3>1, <4>1
        <5> QED
          BY <5>1
      <4> QED
        BY <3>1, <4>1 DEF Max
    <3> QED
      BY <1>1, <2>1, <3>1, <3>2
  <2>2. CASE mcs[k].type # "linear"
    <3>1. Before(k + 1) = Before(k)
      BY <2>2 DEF Lines
    <3> QED
      BY <1>1, <2>2, <3>1
  <2> QED
    BY <2>1, <2>2
<1> QED
  BY <1>1, <1>2, <1>3

LEMMA SegmentBounds ==
  ASSUME NEW rec \in Records, Len(rec.data) = 2
  PROVE  Segment(rec) \in 0..WORD32 - 1
<1>1. rec.data[1] \in 0..HEX_BYTE - 1 /\ rec.data[2] \in 0..HEX_BYTE - 1
  <2>1. rec.data \in Seq(0..HEX_BYTE - 1)
    BY DEF Records
  <2>2. 1 \in 1..Len(rec.data) /\ 2 \in 1..Len(rec.data)
    OBVIOUS
  <2> QED
    BY <2>1, <2>2, ElementOfSeq
<1>2. PICK h \in Nat \ {0} : h = HEX_BYTE
  BY HexConstants
<1>3. PICK x \in 0..h - 1, y \in 0..h - 1 : x = rec.data[1] /\ y = rec.data[2]
  BY <1>1, <1>2
<1>4. x * h + y < h * h /\ x * h + y \in Nat
  <2>1. x * h <= (h - 1) * h
    BY <1>2, <1>3
  <2>2. (h - 1) * h = h * h - h
    BY <1>2
  <2> QED
    BY <1>2, <1>3, <2>1, <2>2
<1>5. PICK a \in Nat : a = x * h + y
  BY <1>4
<1>6. Segment(rec) = a * SEGMENT
  BY <1>2, <1>3, <1>5 DEF Segment
<1>7. a < HEX_BYTE * HEX_BYTE
  BY <1>2, <1>4, <1>5
<1>8. a * SEGMENT \in Nat /\ a * SEGMENT < WORD32 /\ WORD32 \in Nat
  BY <1>5, <1>7, WordFacts
<1>9. PICK s \in Nat : s = a * SEGMENT
  BY <1>8
<1> QED
  BY <1>6, <1>8, <1>9

(* An orderly listing has a layout, ...                                    *)
LEMMA LayoutOf ==
  ASSUME mcs \in Seq({BlankLine, TextLine} \cup Records), Orderly
  PROVE  \E seg : Layout(mcs, seg)
<1> DEFINE seg == [k \in 1..Len(mcs) + 1 |-> SegmentAt(k)]
<1>1. Len(mcs) \in Nat /\ DOMAIN mcs = 1..Len(mcs) /\ \A k \in 1..Len(mcs) : mcs[k] \in {BlankLine, TextLine} \cup Records
  BY SMTT(30)
<1>2. Len(mcs) \in 1..Len(mcs) /\ mcs[Len(mcs)].type = "eof" /\ \A k \in 1..Len(mcs) : mcs[k].type = "eof" => k = Len(mcs)
  BY <1>1 DEF Orderly, Lines
<1>3. \A k \in 1..Len(mcs) : mcs[k].type # "blank" /\ (mcs[k].type # "text" => Valid(mcs[k]))
  BY <1>1 DEF Orderly, Lines
<1>4. \A k \in 1..Len(mcs) : mcs[k].type \in {"data", "linear"} => mcs[k] \in Records
  BY <1>1 DEF BlankLine, TextLine
<1>5. ASSUME NEW k \in 1..Len(mcs), mcs[k].type = "linear"
      PROVE  /\ Segment(mcs[k]) \in 0..WORD32 - 1 /\ mcs[k + 1].type = "data"
             /\ \A l \in Lines("data") : l < k => Beyond(l) <= Segment(mcs[k])
  <2>1. k \in Lines("linear")
    BY <1>1, <1>5 DEF Lines
  <2>2. Len(mcs[k].data) = 2 /\ mcs[k + 1].type = "data" /\ \A l \in Lines("data") : l < k => Beyond(l) <= Segment(mcs[k])
    BY <2>1 DEF Orderly
  <2> QED
    BY <1>4, <1>5, <2>2, SegmentBounds
<1>6. \A k \in 1..Len(mcs) : seg[k + 1] = IF mcs[k].type = "linear" THEN Segment(mcs[k]) ELSE seg[k]
  BY <1>1, SegmentStep
<1>7. seg[1] = 0
  BY <1>1, SegmentStep
<1>8. \A k \in 1..Len(mcs) + 1 : seg[k] = SegmentAt(k)
  OBVIOUS
<1>9. \A k \in 1..Len(mcs) + 1 : seg[k] \in Nat
  <2> HIDE DEF seg
  <2> DEFINE Wrong == {m \in Nat : m \in 1..Len(mcs) + 1 /\ seg[m] \notin Nat}
  <2>1. ASSUME Wrong # {} PROVE FALSE
    <3>1. PICK m \in Wrong : \A l \in Wrong : m <= l
      BY <2>1, LeastNumber
    <3>2. m # 1
      BY <1>7, <3>1
    <3>3. m - 1 \in 1..Len(mcs) /\ (m - 1) + 1 = m /\ m - 1 \in Nat /\ m - 1 \in 1..Len(mcs) + 1 /\ ~(m <= m - 1)
      BY <1>1, <3>1, <3>2
    <3>4. seg[m - 1] \in Nat
      BY <3>1, <3>3
    <3>5. seg[m] \in Nat
      <4>1. seg[m] = IF mcs[m - 1].type = "linear" THEN Segment(mcs[m - 1]) ELSE seg[m - 1]
        BY <1>6, <3>3
      <4>2. mcs[m - 1].type = "linear" => Segment(mcs[m - 1]) \in Nat
        <5>1. \A x : x \in 0..WORD32 - 1 => x \in Nat
          OBVIOUS
        <5> QED
          BY <1>5, <3>3, <5>1, Zenon
      <4> QED
        BY <3>4, <4>1, <4>2
    <3> QED
      BY <3>1, <3>5
  <2> QED
    BY <1>1, <2>1
<1>10. DataLines(mcs) = Lines("data")
  BY <1>1 DEF DataLines, Lines
<1>11. \A k \in DataLines(mcs) : k \in 1..Len(mcs) + 1 /\ k \in 1..Len(mcs) /\ mcs[k].type = "data"
  BY <1>1 DEF DataLines
<1>12. \A k \in DataLines(mcs) : PlaceOf(mcs, seg, k) = Address(k) /\ EndOf(mcs, seg, k) = Beyond(k)
  BY <1>8, <1>11 DEF PlaceOf, EndOf, Address, Beyond
<1>13. ASSUME NEW k \in DataLines(mcs)
       PROVE  /\ mcs[k].addr \in Nat /\ mcs[k].len \in Nat /\ mcs[k].addr + mcs[k].len <= SEGMENT
              /\ \A a \in 1..mcs[k].len : mcs[k].data[a] \in 0..HEX_BYTE - 1
  <2>1. mcs[k] \in Records /\ Valid(mcs[k])
    BY <1>3, <1>4, <1>11
  <2>2. mcs[k].addr + mcs[k].len <= SEGMENT
    BY <1>10 DEF Orderly
  <2>3. mcs[k].data \in Seq(0..HEX_BYTE - 1) /\ mcs[k].len \in Nat /\ mcs[k].addr \in Nat
    BY <2>1 DEF Records
  <2>4. Len(mcs[k].data) >= mcs[k].len
    BY <2>1 DEF Valid
  <2>5. \A a \in 1..mcs[k].len : a \in 1..Len(mcs[k].data)
    <3>1. Len(mcs[k].data) \in Nat
      BY <2>3, LenProperties
    <3> QED
      BY <2>3, <2>4, <3>1
  <2>6. \A a \in 1..mcs[k].len : mcs[k].data[a] \in 0..HEX_BYTE - 1
    BY <2>3, <2>5, ElementOfSeq
  <2> QED
    BY <2>2, <2>3, <2>6
<1> HIDE DEF seg
<1>14. seg \in [1..Len(mcs) + 1 -> Nat]
  BY <1>9 DEF seg
<1>15. \A k, l \in DataLines(mcs) : k < l => EndOf(mcs, seg, k) <= PlaceOf(mcs, seg, l)
  BY <1>10, <1>12, ZenonT(30) DEF Orderly
<1>16. \A k \in 1..Len(mcs) : mcs[k].type = "linear" =>
         /\ Segment(mcs[k]) \in 0..WORD32 - 1 /\ mcs[k + 1].type = "data"
         /\ \A l \in DataLines(mcs) : l < k => EndOf(mcs, seg, l) <= Segment(mcs[k])
  BY <1>5, <1>10, <1>12, Zenon
<1>17. Len(mcs) \in Nat \ {0}
  <2>1. Len(mcs) # 0
    BY <1>2
  <2> QED
    BY <1>1, <2>1
<1>18. Layout(mcs, seg)
  BY <1>2, <1>3, <1>6, <1>7, <1>13, <1>14, <1>15, <1>16, <1>17, Zenon DEF Layout, SegmentsOf
<1> QED
  BY <1>18

(* ... whose places are the addresses of the listing.                      *)
LEMMA PlacesAgree ==
  ASSUME NEW seg, Layout(mcs, seg), DOMAIN mcs = 1..Len(mcs)
  PROVE  /\ DataLines(mcs) = Lines("data")
         /\ \A k \in DataLines(mcs) : PlaceOf(mcs, seg, k) = Address(k) /\ EndOf(mcs, seg, k) = Beyond(k)
<1>1. Len(mcs) \in Nat /\ seg[1] = 0
      /\ \A k \in 1..Len(mcs) : seg[k + 1] = IF mcs[k].type = "linear" THEN Segment(mcs[k]) ELSE seg[k]
  BY DEF Layout, SegmentsOf
<1> DEFINE Wrong == {m \in Nat : m \in 1..Len(mcs) + 1 /\ seg[m] # SegmentAt(m)}
<1>2. ASSUME Wrong # {} PROVE FALSE
  <2>1. PICK m \in Wrong : \A l \in Wrong : m <= l
    BY <1>2, LeastNumber
  <2>2. m # 1
    BY <1>1, <2>1, SegmentStep
  <2>3. m - 1 \in 1..Len(mcs) /\ (m - 1) + 1 = m /\ m - 1 \in Nat /\ m - 1 \in 1..Len(mcs) + 1 /\ ~(m <= m - 1)
    BY <1>1, <2>1, <2>2
  <2>4. seg[m - 1] = SegmentAt(m - 1)
    BY <2>1, <2>3
  <2>5. seg[m] = SegmentAt(m)
    BY <1>1, <2>3, <2>4, SegmentStep
  <2> QED
    BY <2>1, <2>5
<1>3. \A k \in 1..Len(mcs) : seg[k] = SegmentAt(k)
  BY <1>1, <1>2
<1>4. DataLines(mcs) = Lines("data")
  BY DEF DataLines, Lines
<1>5. \A k \in DataLines(mcs) : PlaceOf(mcs, seg, k) = Address(k) /\ EndOf(mcs, seg, k) = Beyond(k)
  BY <1>3 DEF DataLines, PlaceOf, EndOf, Address, Beyond
<1> QED
  BY <1>4, <1>5

LEMMA SameOrderly == ASSUME mcs' = mcs PROVE Orderly' = Orderly
  BY DEF Orderly, Lines, Beyond, Address, SegmentAt

LEMMA LayoutFound == mcs \in AnyLines /\ Orderly => \E seg : Layout(mcs, seg)
  BY LayoutOf DEF AnyLines

LEMMA LayoutFoundNext == (mcs \in AnyLines /\ Orderly)' => (\E seg : Layout(mcs, seg))'
  BY LayoutFound, PTL

LEMMA ReadNothing ==
  ASSUME NEW ls, NEW seg, Layout(ls, seg)
  PROVE  ReadTo(ls, seg, 0, <<>>, EmptyBuff, 0, 0, 0)
<1>1. WORD32 \in Nat \ {0} /\ SEGMENT \in Nat \ {0}
  BY WordFacts, HexConstants
<1>2. 0 \in 0..Len(ls) - 1 /\ seg[0 + 1] = 0
  BY DEF Layout, SegmentsOf
<1>3. \A k \in DataLines(ls) : ~(k <= 0)
  BY DEF DataLines
<1>4. 0 + 0 = 0 /\ 0 % WORD32 = 0
  <2>1. PICK w \in Nat \ {0} : w = WORD32
    BY <1>1
  <2>2. 0 % w = 0
    <3>1. 0 = w * 0 + 0 /\ 0 \in 0..w - 1
      OBVIOUS
    <3> QED
      BY <3>1, ModUnique
  <2> QED
    BY <2>1, <2>2
<1>5. ReachesTo(ls, seg, 0, 0)
  BY DEF ReachesTo
<1>6. ASSUME NEW a \in 0..SEGMENT - 1 PROVE ByteIs(ls, seg, 0, 0 + a + 1, EmptyBuff[a])
  <2>1. EmptyBuff[a] = EMPTY_BYTE /\ 0 + a + 1 \in Int
    BY DEF EmptyBuff
  <2> QED
    BY <1>3, <2>1, ByteEmpty
<1>7. EmptyBuff \in [0..SEGMENT - 1 -> 0..HEX_BYTE - 1] /\ 0 \in 0..SEGMENT
  BY <1>1, EmptyByte DEF EmptyBuff
<1>8. <<>> \in Seq(0..HEX_BYTE - 1) /\ Len(<<>>) = 0 /\ \A p \in 1..0 : FALSE
  OBVIOUS
<1> QED
  BY <1>2, <1>3, <1>4, <1>5, <1>6, <1>7, <1>8, Zenon DEF ReadTo

LEMMA ListingBegins == HexInit => ListingInv
<1> SUFFICES ASSUME HexInit PROVE ListingInv
  OBVIOUS
<1>1. CASE PackInit
  BY <1>1 DEF PackInit, HexInit, ListingInv, Unread
<1>2. CASE ListingInit
  <2>1. /\ written = FALSE /\ hexPc = "mcs2bin" /\ lineCount = 0 /\ binBuff = EmptyBuff /\ binLen = 0
        /\ addrInit = 0 /\ addrNext = 0 /\ image = <<>> /\ mcs \in Listings
    BY <1>2 DEF ListingInit, HexInit
  <2>2. mcs \in AnyLines
    BY <2>1, HexConstantsOK DEF AnyLines
  <2>3. ASSUME Orderly PROVE \E seg : Layout(mcs, seg) /\ ReadTo(mcs, seg, lineCount, image, binBuff, binLen, addrInit, addrNext)
    <3>1. PICK seg : Layout(mcs, seg)
      BY <2>2, <2>3, LayoutFound
    <3> QED
      BY <2>1, <3>1, ReadNothing
  <2> QED
    BY <2>1, <2>2, <2>3 DEF ListingInv, AnyLines
<1> QED
  BY <1>1, <1>2 DEF HexInit

(* A listing of bin2mcs in which a record lost its ':' is any listing.     *)
LEMMA ColonLost ==
  ASSUME HexInv, ListingInv, LoseColon
  PROVE  ListingInv'
<1>1. /\ hexPc = "written" /\ written' = FALSE /\ hexPc' = "mcs2bin" /\ UNCHANGED unpackVars
      /\ \E k \in DOMAIN mcs, entry \in {TextLine, BlankLine} : mcs' = [mcs EXCEPT ![k] = entry]
  BY DEF LoseColon
<1>2. written = TRUE /\ Unread
  BY <1>1 DEF ListingInv
<1>3. mcs' \in AnyLines
  <2>1. mcs \in Seq(Records)
    BY <1>2 DEF HexInv, HexPlace
  <2>2. PICK k \in DOMAIN mcs, entry \in {TextLine, BlankLine} : mcs' = [mcs EXCEPT ![k] = entry]
    BY <1>1
  <2> DEFINE lines == {BlankLine, TextLine} \cup Records
             old == mcs
  <2>3. old \in Seq(lines) /\ k \in 1..Len(old) /\ entry \in lines
    <3>1. Records \subseteq lines /\ entry \in lines
      OBVIOUS
    <3> HIDE DEF lines
    <3> QED
      BY <2>1, <2>2, <3>1, SeqsWithin
  <2> HIDE DEF lines, old
  <2>4. [old EXCEPT ![k] = entry] \in Seq(lines)
    BY <2>3, ExceptSeq
  <2> QED
    BY <2>2, <2>4, Zenon DEF AnyLines, lines, old
<1>4. ASSUME Orderly'
      PROVE  \E seg : /\ Layout(mcs', seg)
                      /\ ReadTo(mcs', seg, lineCount', image', binBuff', binLen', addrInit', addrNext')
  <2>1. PICK seg : Layout(mcs', seg)
    BY <1>3, <1>4, LayoutFoundNext
  <2>2. ReadTo(mcs', seg, 0, <<>>, EmptyBuff, 0, 0, 0)
    BY <2>1, ReadNothing
  <2> QED
    BY <1>1, <1>2, <2>1, <2>2 DEF Unread, unpackVars
<1> QED
  BY <1>1, <1>3, <1>4 DEF ListingInv, AnyLines

(* A line that is read, of each kind.                                      *)
LEMMA ListingStep ==
  ASSUME hexPc = "mcs2bin", NEW seg, Layout(mcs, seg), HexNext,
         ReadTo(mcs, seg, lineCount, image, binBuff, binLen, addrInit, addrNext)
  PROVE  \/ /\ hexPc' = "mcs2bin"
            /\ ReadTo(mcs, seg, lineCount', image', binBuff', binLen', addrInit', addrNext')
         \/ hexPc' = "done" /\ Finished(mcs, seg, image')
<1>1. /\ lineCount \in Nat /\ lineCount + 1 \in 1..Len(mcs) /\ Len(mcs) \in Nat
      /\ binBuff \in [0..SEGMENT - 1 -> 0..HEX_BYTE - 1]
  BY LineAtHand DEF ReadTo
<1>2. /\ Current = mcs[lineCount + 1] /\ Current.type # "blank"
      /\ Current.type # "text" => Valid(Current)
  BY <1>1 DEF Current, Layout
<1>3. Reading
  BY <1>1, <1>2 DEF Reading
<1>4. CASE SkipText \/ SkipRecord
  <2>1. /\ hexPc' = hexPc /\ lineCount' = lineCount + 1 /\ binBuff' = binBuff /\ binLen' = binLen
        /\ addrInit' = addrInit /\ addrNext' = addrNext /\ image' = image
        /\ Current.type \in {"text", "segment", "start", "unknown"}
    BY <1>4 DEF SkipText, SkipRecord, NextLine
  <2>2. ReadTo(mcs, seg, lineCount + 1, image, binBuff, binLen, addrInit, addrNext)
    BY <1>2, <2>1, PassOver
  <2> QED
    BY <2>1, <2>2
<1>5. CASE ReadData
  <2>1. /\ hexPc' = hexPc /\ lineCount' = lineCount + 1 /\ image' = image /\ addrInit' = addrInit
        /\ binLen' = Current.addr + Current.len /\ addrNext' = (addrInit + binLen') % WORD32
        /\ binBuff' = Copied(Current) /\ mcs[lineCount + 1].type = "data"
    BY <1>2, <1>5 DEF ReadData, NextLine
  <2>2. binBuff' = [a \in 0..SEGMENT - 1 |->
                      IF a \in mcs[lineCount + 1].addr..mcs[lineCount + 1].addr + mcs[lineCount + 1].len - 1
                      THEN mcs[lineCount + 1].data[a - mcs[lineCount + 1].addr + 1] ELSE binBuff[a]]
    BY <1>1, <1>2, <2>1 DEF Copied
  <2> DEFINE to == mcs[lineCount + 1].addr + mcs[lineCount + 1].len
  <2>3. ReadTo(mcs, seg, lineCount + 1, image, binBuff', to, addrInit, (addrInit + to) % WORD32)
    BY <2>1, <2>2, DataRead, Zenon
  <2>4. binLen' = to
    BY <1>2, <2>1
  <2> QED
    BY <2>1, <2>3, <2>4
<1>6. CASE ReadLinear
  <2> DEFINE gap == IF addrNext < addrInit' THEN addrInit' - addrNext ELSE 0
  <2>1. /\ hexPc' = hexPc /\ lineCount' = lineCount + 1 /\ addrInit' = Segment(mcs[lineCount + 1])
        /\ image' = Flushed \o Dummies(gap) /\ binBuff' = EmptyBuff /\ binLen' = 0 /\ addrNext' = addrNext
        /\ mcs[lineCount + 1].type = "linear"
    BY <1>2, <1>6 DEF ReadLinear, NextLine, Cleared
  <2>2. gap = IF addrNext < Segment(mcs[lineCount + 1]) THEN Segment(mcs[lineCount + 1]) - addrNext ELSE 0
    BY <2>1
  <2>3. Flushed = image \o [k \in 1..binLen |-> binBuff[k - 1]]
    BY DEF Flushed
  <2> HIDE DEF gap
  <2>4. ReadTo(mcs, seg, lineCount + 1, Flushed \o Dummies(gap), EmptyBuff, 0, Segment(mcs[lineCount + 1]), addrNext)
    BY <2>1, <2>2, <2>3, LinearRead
  <2> QED
    BY <2>1, <2>4
<1>7. CASE ReadEof
  <2>1. hexPc' = "done" /\ image' = Flushed /\ mcs[lineCount + 1].type = "eof"
    BY <1>2, <1>7 DEF ReadEof
  <2>2. Flushed = image \o [k \in 1..binLen |-> binBuff[k - 1]]
    BY DEF Flushed
  <2>3. Finished(mcs, seg, Flushed)
    BY <2>1, <2>2, EofRead
  <2> QED
    BY <2>1, <2>3
<1>8. ~WriteRecord /\ ~WriteEof /\ ~Damage /\ ~LoseColon /\ ~Convert
  BY DEF WriteRecord, WriteEof, Damage, LoseColon, Convert
<1>9. ~EndOfInput /\ ~RejectRecord
  BY <1>2, <1>3 DEF EndOfInput, RejectRecord, IsRecord
<1> QED
  BY <1>4, <1>5, <1>6, <1>7, <1>8, <1>9 DEF HexNext

LEMMA ListingNext == HexInv /\ ListingInv /\ [HexNext]_hexVars => ListingInv'
<1> SUFFICES ASSUME HexInv, ListingInv, [HexNext]_hexVars PROVE ListingInv'
  OBVIOUS
<1>1. CASE UNCHANGED hexVars
  <2>1. UNCHANGED <<written, hexPc, mcs, lineCount, image, binBuff, binLen, addrInit, addrNext>>
    BY <1>1 DEF hexVars, unpackVars
  <2>2. Orderly' = Orderly
    BY <2>1, SameOrderly
  <2> QED
    BY <2>1, <2>2 DEF ListingInv, Unread
<1>3. CASE LoseColon
  BY <1>3, ColonLost
<1>2. CASE HexNext /\ ~LoseColon
  <2>1. written' = written /\ hexPc' \in {"bin2mcs", "written", "mcs2bin", "done"}
    BY <1>2 DEF HexNext, ListingInv, WriteRecord, WriteEof, Damage, Convert, EndOfInput, SkipText, RejectRecord,
       ReadData, ReadLinear, ReadEof, SkipRecord, InputsUnchanged
  <2>4. hexPc' \in {"bin2mcs", "written"} => written = TRUE /\ Unread'
    <3>1. hexPc' \in {"bin2mcs", "written"} => UNCHANGED unpackVars /\ hexPc \in {"bin2mcs", "written"}
      BY <1>2 DEF HexNext, ListingInv, WriteRecord, WriteEof, Damage, Convert, EndOfInput, SkipText, RejectRecord,
         ReadData, ReadLinear, ReadEof, SkipRecord, IsRecord, Reading
    <3> QED
      BY <3>1, SMTT(20) DEF ListingInv, Unread, unpackVars
  <2>2. CASE written = TRUE
    BY <2>1, <2>2, <2>4 DEF ListingInv
  <2>3. CASE written = FALSE
    <3>1. hexPc \in {"mcs2bin", "done"} /\ mcs \in Seq({BlankLine, TextLine} \cup Records)
      BY <2>3 DEF ListingInv
    <3>2. hexPc = "mcs2bin"
      BY <1>2, <3>1 DEF HexNext, WriteRecord, WriteEof, Damage, Convert, EndOfInput, SkipText, RejectRecord,
         ReadData, ReadLinear, ReadEof, SkipRecord, IsRecord, Reading
    <3>3. mcs' = mcs /\ hexPc' \in {"mcs2bin", "done"}
      BY <1>2, <3>2 DEF HexNext, WriteRecord, WriteEof, Damage, Convert, EndOfInput, SkipText, RejectRecord,
         ReadData, ReadLinear, ReadEof, SkipRecord, InputsUnchanged
    <3>4. Orderly' = Orderly
      BY <3>3, SameOrderly
    <3>5. ASSUME Orderly
          PROVE  \E seg : /\ Layout(mcs, seg)
                          /\ hexPc' = "mcs2bin" =>
                               ReadTo(mcs, seg, lineCount', image', binBuff', binLen', addrInit', addrNext')
                          /\ hexPc' = "done" => Finished(mcs, seg, image')
      <4>1. PICK seg : Layout(mcs, seg) /\ ReadTo(mcs, seg, lineCount, image, binBuff, binLen, addrInit, addrNext)
        BY <2>3, <3>2, <3>5 DEF ListingInv
      <4> QED
        BY <1>2, <3>2, <4>1, ListingStep
    <3> QED
      BY <2>1, <2>4, <3>1, <3>3, <3>4, <3>5 DEF ListingInv
  <2> QED
    BY <2>2, <2>3 DEF ListingInv
<1> QED
  BY <1>1, <1>2, <1>3

LEMMA FinishedIsExact == ListingInv => ImageIsExact
<1> SUFFICES ASSUME ListingInv, written = FALSE, hexPc = "done", Orderly PROVE ImageIsExact
  BY DEF ListingInv, ImageIsExact
<1>1. mcs \in Seq({BlankLine, TextLine} \cup Records)
  BY DEF ListingInv
<1>2. PICK seg : Layout(mcs, seg) /\ Finished(mcs, seg, image)
  BY DEF ListingInv
<1>3. DOMAIN mcs = 1..Len(mcs) /\ image \in Seq(0..HEX_BYTE - 1)
  BY <1>1, <1>2 DEF Finished
<1>4. Len(image) \in Nat /\ DOMAIN image = 1..Len(image)
  BY <1>3
<1>5. /\ DataLines(mcs) = Lines("data")
      /\ \A k \in Lines("data") : /\ PlaceOf(mcs, seg, k) = Address(k) /\ EndOf(mcs, seg, k) = Beyond(k)
                                  /\ k \in Nat /\ k <= Len(mcs) /\ Address(k) \in Nat /\ Beyond(k) \in Nat
  <2>1. DataLines(mcs) = Lines("data")
    BY <1>2, <1>3, PlacesAgree
  <2>2. \A k \in DataLines(mcs) : PlaceOf(mcs, seg, k) = Address(k) /\ EndOf(mcs, seg, k) = Beyond(k)
    BY <1>2, <1>3, PlacesAgree
  <2>3. \A k \in DataLines(mcs) : k \in Nat /\ k <= Len(mcs) /\ PlaceOf(mcs, seg, k) \in Nat /\ EndOf(mcs, seg, k) \in Nat
    BY <1>2, LayoutFacts
  <2> QED
    BY <2>1, <2>2, <2>3
<1> DEFINE ends == {0} \cup {Beyond(k) : k \in Lines("data")}
<1>6. Len(image) \in ends /\ \A e \in ends : Len(image) >= e /\ e \in Nat
  <2>1. Len(image) \in ends
    BY <1>2, <1>5 DEF Finished, ReachesTo
  <2>2. \A k \in Lines("data") : Beyond(k) <= Len(image)
    BY <1>2, <1>5 DEF Finished
  <2> QED
    BY <1>4, <1>5, <2>1, <2>2
<1>7. Len(image) = Max(ends)
  <2> HIDE DEF ends
  <2>1. ASSUME NEW m \in ends, \A e \in ends : m >= e PROVE m = Len(image)
    <3>1. PICK x \in Nat : x = Len(image)
      BY <1>4
    <3>2. x \in ends /\ x >= m /\ m \in Nat
      BY <1>6, <3>1, Zenon
    <3>4. m >= x
      BY <2>1, <3>2, Zenon
    <3>3. m = x
      BY <3>2, <3>4
    <3> QED
      BY <3>1, <3>3, SMTT(20)
  <2> QED
    BY <1>6, <2>1 DEF Max
<1>8. ASSUME NEW p \in DOMAIN image
      PROVE  LET by == {k \in Lines("data") : p - 1 \in Address(k)..Beyond(k) - 1}
             IN  IF by = {} THEN image[p] = EMPTY_BYTE
                 ELSE \A k \in by : image[p] = mcs[k].data[p - Address(k)]
  <2> DEFINE by == {k \in Lines("data") : p - 1 \in Address(k)..Beyond(k) - 1}
  <2>1. ByteIs(mcs, seg, Len(mcs), p, image[p]) /\ p \in Int
    BY <1>2, <1>4 DEF Finished
  <2>2. \A k \in Lines("data") : Holds(mcs, seg, k, p) <=> k \in by
    <3> TAKE k \in Lines("data")
    <3>1. PICK x \in Nat, y \in Nat : x = Address(k) /\ y = Beyond(k)
      BY <1>5
    <3>2. x <= p - 1 /\ p - 1 < y <=> p - 1 \in x..y - 1
      BY <2>1
    <3>3. Holds(mcs, seg, k, p) <=> x <= p - 1 /\ p - 1 < y
      BY <1>5, <3>1 DEF Holds
    <3> QED
      BY <3>1, <3>2, <3>3
  <2>3. \A k \in by : k \in Lines("data")
    OBVIOUS
  <2> HIDE DEF by
  <2>4. by = {} => image[p] = EMPTY_BYTE
    BY <1>5, <2>1, <2>2, Zenon DEF ByteIs
  <2>5. \A k \in by : image[p] = mcs[k].data[p - Address(k)]
    <3> TAKE k \in by
    <3>1. k \in DataLines(mcs) /\ k <= Len(mcs) /\ Holds(mcs, seg, k, p) /\ PlaceOf(mcs, seg, k) = Address(k)
      BY <1>5, <2>2, <2>3
    <3>2. image[p] = mcs[k].data[p - PlaceOf(mcs, seg, k)]
      BY <2>1, <3>1, Zenon DEF ByteIs
    <3> QED
      BY <3>1, <3>2
  <2> QED
    BY <2>4, <2>5 DEF by
<1> QED
  BY <1>7, <1>8 DEF ImageIsExact

(* mcs2bin (intel_hex.c:265-402) on an orderly listing of any origin and   *)
(* any length: the file it writes has each byte of each record at its      *)
(* address, EMPTY_BYTE in the gaps between them, and ends with the last    *)
(* byte, whatever segments are selected and whatever other lines there are.*)
(* So it is where a data record of bin2mcs lost its ':': its bytes are     *)
(* EMPTY_BYTE.                                                             *)
THEOREM ListingImaged == HexSpec => []ImageIsExact
<1>1. HexInit => HexInv /\ ListingInv
  BY HexInitInv, ListingBegins
<1>2. HexInv /\ ListingInv /\ [HexNext]_hexVars => (HexInv /\ ListingInv)'
  BY HexNextInv, ListingNext
<1>3. HexInv /\ ListingInv => ImageIsExact
  BY FinishedIsExact
<1> QED
  BY <1>1, <1>2, <1>3, PTL DEF HexSpec

-----------------------------------------------------------------------------
(* pcapng_to_pcap. *)

Whatever == {Blocks[k].link : k \in 1..Len(Blocks)} \cup {Blocks[k].data : k \in 1..Len(Blocks)}
PcapItem == [header : BOOLEAN, is : Whatever]

(* Where the converter is, and the link types it knows.                    *)
NgPlace ==
  /\ ngPc \in {"blocks", "exit"} /\ ngFile \in CaptureFiles
  /\ blockNum \in 0..Len(Blocks) /\ firstPacket \in BOOLEAN
  /\ pcap \in Seq(PcapItem)
  /\ g_ifLinkType \in Seq(Whatever) /\ Len(g_ifLinkType) <= MAX_INTERFACES
NgKnows ==
  /\ firstPacket <=> Of("packet", blockNum) = {}
  /\ Len(g_ifLinkType) = IF Cardinality(Interfaces(blockNum)) <= MAX_INTERFACES
                         THEN Cardinality(Interfaces(blockNum)) ELSE MAX_INTERFACES
  /\ \A n \in 1..Len(g_ifLinkType) : \E k \in Interfaces(blockNum) : g_ifLinkType[n] = Blocks[k].link
NgInv ==
  /\ NgPlace
  /\ ngPc = "blocks" => NgKnows /\ (OneLink => Converted(blockNum))
  /\ PacketsAreKept

LEMMA OfFacts ==
  ASSUME NEW n \in Nat, NEW kind
  PROVE  /\ IsFiniteSet(Of(kind, n)) /\ Cardinality(Of(kind, n)) \in Nat
         /\ Of(kind, n) \subseteq 1..n
         /\ IsFiniteSet(KeptPackets(n)) /\ Cardinality(KeptPackets(n)) \in Nat
         /\ Blocks[n + 1].kind # kind => Of(kind, n + 1) = Of(kind, n)
         /\ Blocks[n + 1].kind = kind =>
              /\ Of(kind, n + 1) = Of(kind, n) \cup {n + 1}
              /\ Cardinality(Of(kind, n + 1)) = Cardinality(Of(kind, n)) + 1
<1>1. IsFiniteSet(1..n)
  BY FS_Interval
<1>2. Of(kind, n) \subseteq 1..n /\ KeptPackets(n) \subseteq 1..n
  BY DEF Of, KeptPackets
<1>3. IsFiniteSet(Of(kind, n)) /\ IsFiniteSet(KeptPackets(n))
  BY <1>1, <1>2, FS_Subset
<1>4. Cardinality(Of(kind, n)) \in Nat /\ Cardinality(KeptPackets(n)) \in Nat
  BY <1>3, FS_CardinalityType
<1>5. ASSUME Blocks[n + 1].kind # kind PROVE Of(kind, n + 1) = Of(kind, n)
  BY <1>5 DEF Of
<1>6. ASSUME Blocks[n + 1].kind = kind PROVE Of(kind, n + 1) = Of(kind, n) \cup {n + 1}
  BY <1>6 DEF Of
<1>7. ~(n + 1 \in Of(kind, n))
  BY <1>2
<1>8. ASSUME Blocks[n + 1].kind = kind PROVE Cardinality(Of(kind, n + 1)) = Cardinality(Of(kind, n)) + 1
  BY <1>3, <1>6, <1>7, <1>8, FS_AddElement
<1> QED
  BY <1>2, <1>3, <1>4, <1>5, <1>6, <1>8

(* A block that is no packet leaves the packets and the header as they     *)
(* were; so does a stray that is not the first packet.                     *)
LEMMA SamePackets ==
  ASSUME NEW n \in Nat, Of("packet", n + 1) = Of("packet", n)
  PROVE  KeptPackets(n + 1) = KeptPackets(n) /\ FirstIsStray(n + 1) = FirstIsStray(n)
         /\ HeadersOf(n + 1) = HeadersOf(n)
BY DEF KeptPackets, FirstIsStray, HeadersOf

(* What is the same of a file does not change while it is read.            *)
LEMMA SameFile ==
  ASSUME ngFile' = ngFile
  PROVE  /\ Blocks' = Blocks /\ OneLink' = OneLink
         /\ \A n : /\ Of("packet", n)' = Of("packet", n) /\ Interfaces(n)' = Interfaces(n)
                   /\ KeptPackets(n)' = KeptPackets(n) /\ HeadersOf(n)' = HeadersOf(n)
                   /\ Stray(n)' = Stray(n)
BY DEF Blocks, OneLink, Of, Interfaces, KeptPackets, HeadersOf, FirstIsStray, Stray, Described

LEMMA NgInitInv == NgConstantsOK /\ NgInit => NgInv
<1> SUFFICES ASSUME NgConstantsOK, NgInit PROVE NgInv
  OBVIOUS
<1>1. Len(Blocks) \in Nat
  BY DEF NgConstantsOK, NgInit, Blocks
<1>2. Of("packet", 0) = {} /\ Interfaces(0) = {} /\ KeptPackets(0) = {}
  BY DEF Of, Interfaces, KeptPackets
<1>3. Cardinality({}) = 0
  BY FS_EmptySet
<1>4. Len(pcap) = 0 /\ Len(g_ifLinkType) = 0
  BY DEF NgInit
<1>5. Converted(0)
  <2>1. HeadersOf(0) = 0
    BY <1>2 DEF HeadersOf
  <2>2. Cardinality(KeptPackets(0)) = 0
    BY <1>2, <1>3
  <2>3. \A k \in KeptPackets(0) : FALSE
    BY <1>2
  <2> QED
    BY <1>4, <2>1, <2>2, <2>3 DEF Converted
<1>6. NgPlace
  BY <1>1 DEF NgInit, NgPlace, NgConstantsOK
<1>7. NgKnows
  <2>1. blockNum = 0 /\ firstPacket /\ Cardinality(Interfaces(0)) = 0 /\ 0 <= MAX_INTERFACES
    <3>1. blockNum = 0 /\ firstPacket
      BY DEF NgInit
    <3>2. 0 <= MAX_INTERFACES
      BY DEF NgConstantsOK
    <3> QED
      BY <1>2, <1>3, <3>1, <3>2
  <2> QED
    BY <1>2, <1>4, <2>1 DEF NgKnows
<1> QED
  BY <1>5, <1>6, <1>7 DEF NgInv, PacketsAreKept, NgInit

(* The packet that is converted comes behind those before it.              *)
LEMMA NextPacket ==
  ASSUME NEW n \in Nat, Blocks[n + 1].kind = "packet"
  PROVE  /\ ~Stray(n + 1) => /\ KeptPackets(n + 1) = KeptPackets(n) \cup {n + 1}
                             /\ Cardinality(KeptPackets(n + 1)) = Cardinality(KeptPackets(n)) + 1
         /\ Stray(n + 1) => KeptPackets(n + 1) = KeptPackets(n)
         /\ Of("packet", n) = {} => (FirstIsStray(n + 1) <=> Stray(n + 1)) /\ KeptPackets(n) = {}
         /\ Of("packet", n) # {} => (FirstIsStray(n + 1) <=> FirstIsStray(n))
         /\ Of("packet", n) # {} /\ KeptPackets(n) = {} => FirstIsStray(n)
<1>1. Of("packet", n + 1) = Of("packet", n) \cup {n + 1} /\ Of("packet", n) \subseteq 1..n
      /\ IsFiniteSet(KeptPackets(n)) /\ IsFiniteSet(Of("packet", n))
  BY OfFacts
<1>2. ASSUME ~Stray(n + 1) PROVE KeptPackets(n + 1) = KeptPackets(n) \cup {n + 1}
  BY <1>1, <1>2 DEF KeptPackets
<1>3. ~(n + 1 \in KeptPackets(n))
  BY <1>1 DEF KeptPackets
<1>4. ASSUME ~Stray(n + 1) PROVE Cardinality(KeptPackets(n + 1)) = Cardinality(KeptPackets(n)) + 1
  BY <1>1, <1>2, <1>3, <1>4, FS_AddElement
<1>5. ASSUME Stray(n + 1) PROVE KeptPackets(n + 1) = KeptPackets(n)
  BY <1>1, <1>5 DEF KeptPackets
<1>6. ASSUME Of("packet", n) = {} PROVE (FirstIsStray(n + 1) <=> Stray(n + 1)) /\ KeptPackets(n) = {}
  BY <1>1, <1>6 DEF FirstIsStray, KeptPackets
<1>7. ASSUME Of("packet", n) # {} PROVE FirstIsStray(n + 1) <=> FirstIsStray(n)
  <2>1. \A l \in Of("packet", n) : l \in Nat /\ l < n + 1
    BY <1>1
  <2>2. ASSUME FirstIsStray(n) PROVE FirstIsStray(n + 1)
    BY <1>1, <2>1, <2>2 DEF FirstIsStray
  <2>3. ASSUME FirstIsStray(n + 1) PROVE FirstIsStray(n)
    <3>1. PICK k \in Of("packet", n + 1) : Stray(k) /\ \A l \in Of("packet", n + 1) : k <= l
      BY <2>3 DEF FirstIsStray
    <3>2. k # n + 1
      BY <1>1, <1>7, <2>1, <3>1
    <3> QED
      BY <1>1, <3>1, <3>2 DEF FirstIsStray
  <2> QED
    BY <2>2, <2>3
<1>8. ASSUME Of("packet", n) # {}, KeptPackets(n) = {} PROVE FirstIsStray(n)
  <2>1. \A k \in Of("packet", n) : Stray(k)
    BY <1>8 DEF KeptPackets
  <2>2. PICK k \in Of("packet", n) : \A l \in Of("packet", n) : k <= l
    BY <1>1, <1>8, LeastNumber
  <2> QED
    BY <2>1, <2>2 DEF FirstIsStray
<1> QED
  BY <1>2, <1>4, <1>5, <1>6, <1>7, <1>8

(* While nothing is written, what was converted stays so.                  *)
LEMMA NothingWritten ==
  ASSUME ngFile' = ngFile, pcap' = pcap, Converted(blockNum), blockNum \in Nat
  PROVE  /\ blockNum' = blockNum => Converted(blockNum)'
         /\ blockNum' = blockNum + 1 => Converted(blockNum - 1)'
         /\ blockNum' = blockNum + 1 /\ Of("packet", blockNum + 1) = Of("packet", blockNum)
              /\ (Interfaces(blockNum) = {} => KeptPackets(blockNum) = {})
              /\ (\A k, l \in Interfaces(blockNum + 1) : Blocks[k].link = Blocks[l].link)
              /\ Interfaces(blockNum) \subseteq Interfaces(blockNum + 1)
              => Converted(blockNum)'
<1>1. \A m : /\ Interfaces(m)' = Interfaces(m)
             /\ KeptPackets(m)' = KeptPackets(m) /\ HeadersOf(m)' = HeadersOf(m)
             /\ Blocks' = Blocks
  BY SameFile
<1>2. \A m : Converted(m)' <=> Converted(m)
  BY <1>1 DEF Converted
<1>3. ASSUME blockNum' = blockNum PROVE Converted(blockNum)'
  BY <1>2, <1>3
<1>4. ASSUME blockNum' = blockNum + 1 PROVE Converted(blockNum - 1)'
  <2>1. blockNum' - 1 = blockNum
    BY <1>4
  <2> QED
    BY <1>2, <2>1
<1>5. ASSUME blockNum' = blockNum + 1, Of("packet", blockNum + 1) = Of("packet", blockNum),
             Interfaces(blockNum) = {} => KeptPackets(blockNum) = {},
             \A k, l \in Interfaces(blockNum + 1) : Blocks[k].link = Blocks[l].link,
             Interfaces(blockNum) \subseteq Interfaces(blockNum + 1)
      PROVE  Converted(blockNum)'
  <2>1. KeptPackets(blockNum + 1) = KeptPackets(blockNum) /\ HeadersOf(blockNum + 1) = HeadersOf(blockNum)
    BY <1>5, SamePackets
  <2>2. HeadersOf(blockNum) = 1 => Interfaces(blockNum) # {}
    BY <1>5 DEF HeadersOf
  <2>3. Converted(blockNum + 1)
    BY <1>5, <2>1, <2>2 DEF Converted
  <2> QED
    BY <1>2, <1>5, <2>3
<1> QED
  BY <1>3, <1>4, <1>5

(* A packet is kept only if an interface was described before it.          *)
LEMMA KeptHasInterface ==
  ASSUME NgConstantsOK, NgPlace, NEW n \in 0..Len(Blocks), KeptPackets(n) # {}
  PROVE  Interfaces(n) # {}
<1>1. PICK k \in KeptPackets(n) : TRUE
  OBVIOUS
<1>2. Len(Blocks) \in Nat /\ n \in Nat /\ k \in 1..n /\ Blocks[k].kind = "packet" /\ ~Stray(k)
  BY <1>1 DEF NgConstantsOK, NgPlace, Blocks, KeptPackets, Of
<1>3. Blocks[k].id \in Nat
  BY <1>2 DEF NgConstantsOK, NgPlace, Blocks
<1>4. Cardinality(Interfaces(k)) # 0
  BY <1>2, <1>3, OfFacts DEF Stray, Interfaces
<1>5. Interfaces(k) # {}
  BY <1>4, FS_EmptySet
<1> QED
  BY <1>2, <1>5 DEF Interfaces, Of

(* A packet that is kept has its place among those kept.                   *)
LEMMA KeptCount ==
  ASSUME NEW n \in Nat, NEW k \in KeptPackets(n)
  PROVE  Cardinality(KeptPackets(k)) \in 1..Cardinality(KeptPackets(n))
<1>1. k \in 1..n /\ k \in Nat /\ k \in KeptPackets(k) /\ KeptPackets(k) \subseteq KeptPackets(n)
  BY DEF KeptPackets, Of
<1>2. IsFiniteSet(KeptPackets(n)) /\ IsFiniteSet(KeptPackets(k)) /\ Cardinality(KeptPackets(k)) \in Nat
      /\ Cardinality(KeptPackets(n)) \in Nat
  BY <1>1, OfFacts
<1>3. Cardinality(KeptPackets(k)) <= Cardinality(KeptPackets(n))
  BY <1>1, <1>2, FS_Subset
<1>4. Cardinality(KeptPackets(k)) # 0
  BY <1>1, <1>2, FS_EmptySet
<1> QED
  BY <1>2, <1>3, <1>4

(* Converted of the next state, in terms of this one.                      *)
LEMMA Rewritten ==
  ASSUME NEW n, blockNum' = n + 1,
         \A m : /\ Interfaces(m)' = Interfaces(m) /\ Blocks' = Blocks
                /\ KeptPackets(m)' = KeptPackets(m) /\ HeadersOf(m)' = HeadersOf(m),
         Len(pcap') = HeadersOf(n + 1) + Cardinality(KeptPackets(n + 1)),
         \A k \in KeptPackets(n + 1) :
           pcap'[HeadersOf(n + 1) + Cardinality(KeptPackets(k))] = [header |-> FALSE, is |-> Blocks[k].data],
         HeadersOf(n + 1) = 1 => \A k \in Interfaces(n + 1) : pcap'[1] = [header |-> TRUE, is |-> Blocks[k].link]
  PROVE  Converted(blockNum)'
<1>1. \A m : m = n + 1 => Converted(m)'
  BY DEF Converted
<1> QED
  BY <1>1

LEMMA PacketWritten ==
  ASSUME NgConstantsOK, NgPlace, NgKnows, OneLink, Converted(blockNum), EnhancedPacket
  PROVE  Converted(blockNum)'
<1> DEFINE n == blockNum
<1>1. n \in Nat /\ n + 1 \in 1..Len(Blocks) /\ Len(Blocks) \in Nat /\ n + 1 \in Nat
  BY DEF NgPlace, EnhancedPacket, Dealt, HasBlock, NgConstantsOK, Blocks
<1>2. Blocks[n + 1].kind = "packet" /\ Blocks[n + 1].id \in Nat /\ Block = Blocks[n + 1]
      /\ n + 1 \in Of("packet", Len(Blocks))
  BY <1>1 DEF EnhancedPacket, Block, NgConstantsOK, NgPlace, Blocks, Of
<1>3. Interfaces(n + 1) = Interfaces(n) /\ Cardinality(Interfaces(n)) \in Nat
  BY <1>1, <1>2, OfFacts DEF Interfaces
<1>4. Stray(n + 1) \/ Blocks[n + 1].id < MAX_INTERFACES
  BY <1>2 DEF OneLink
<1>5. Known(Block.id) <=> ~Stray(n + 1)
  BY <1>2, <1>3, <1>4 DEF Known, NgKnows, Stray, NgConstantsOK
<1>6. Converted(n + 1) => TRUE
  OBVIOUS
<1>7. \A m : /\ Interfaces(m)' = Interfaces(m) /\ Blocks' = Blocks
             /\ KeptPackets(m)' = KeptPackets(m) /\ HeadersOf(m)' = HeadersOf(m)
  BY SameFile DEF EnhancedPacket, Dealt
<1>8. blockNum' = n + 1
  BY DEF EnhancedPacket, Dealt
<1>9. /\ pcap \in Seq(PcapItem) /\ Cardinality(KeptPackets(n)) \in Nat /\ HeadersOf(n) \in {0, 1}
      /\ Len(pcap) = HeadersOf(n) + Cardinality(KeptPackets(n))
  BY <1>1, OfFacts DEF NgPlace, Converted, HeadersOf
<1> HIDE DEF n
<1>10. CASE Stray(n + 1)
  <2>1. pcap' = pcap
    BY <1>5, <1>10 DEF EnhancedPacket
  <2>2. KeptPackets(n + 1) = KeptPackets(n)
    BY <1>1, <1>2, <1>10, NextPacket
  <2>3. HeadersOf(n + 1) = HeadersOf(n)
    <3>1. CASE Of("packet", n) = {}
      BY <1>1, <1>2, <1>10, <2>2, <3>1, NextPacket DEF HeadersOf
    <3>2. CASE Of("packet", n) # {}
      BY <1>1, <1>2, <1>10, <2>2, <3>2, NextPacket DEF HeadersOf
    <3> QED
      BY <3>1, <3>2
  <2>4. Converted(n)
    BY DEF n
  <2>5. \A m : m = n + 1 => Converted(m)'
    BY <1>3, <1>7, <2>1, <2>2, <2>3, <2>4 DEF Converted
  <2> QED
    BY <1>8, <2>5
<1>11. CASE ~Stray(n + 1)
  <2> DEFINE link == g_ifLinkType[Block.id + 1]
             item == [header |-> FALSE, is |-> Block.data]
             K == KeptPackets(n)
  <2>1. pcap' = convert_to_pcap(link, Block.data)
    BY <1>5, <1>11 DEF EnhancedPacket
  <2>2. KeptPackets(n + 1) = K \cup {n + 1} /\ Cardinality(KeptPackets(n + 1)) = Cardinality(K) + 1
    BY <1>1, <1>2, <1>11, NextPacket
  <2>3. item \in PcapItem
    BY <1>1, <1>2 DEF PcapItem, Whatever
  <2>4. \A k \in K : k \in Nat /\ Cardinality(KeptPackets(k)) \in Nat
    <3>1. K \subseteq 1..n
      BY <1>1, OfFacts DEF KeptPackets
    <3>2. ASSUME NEW k \in K PROVE k \in Nat
      BY <1>1, <3>1
    <3>3. ASSUME NEW k \in K PROVE Cardinality(KeptPackets(k)) \in Nat
      BY <3>2, OfFacts
    <3> QED
      BY <3>2, <3>3
  <2>5. KeptPackets(n + 1) # {}
    BY <2>2
  <2>6. CASE Of("packet", n) = {}
    <3>1. firstPacket /\ K = {} /\ HeadersOf(n) = 0 /\ HeadersOf(n + 1) = 1
      BY <1>1, <1>2, <1>11, <2>5, <2>6, NextPacket DEF NgKnows, HeadersOf, n
    <3>2. Cardinality(K) = 0
      BY <3>1, FS_EmptySet
    <3>3. pcap = <<>>
      BY <1>9, <3>1, <3>2
    <3>4. Block.id + 1 \in 1..Len(g_ifLinkType)
      BY <1>2, <1>5, <1>11 DEF Known, NgPlace
    <3>5. \A k \in Interfaces(n) : link = Blocks[k].link
      <4>1. PICK k \in Interfaces(n) : link = Blocks[k].link
        BY <3>4 DEF NgKnows, n
      <4>2. Interfaces(n) \subseteq Interfaces(Len(Blocks))
        BY <1>1 DEF Interfaces, Of
      <4> QED
        BY <4>1, <4>2 DEF OneLink
    <3>6. link \in Whatever
      BY <3>4 DEF NgPlace
    <3> HIDE DEF link, item, K
    <3>7. pcap' = <<[header |-> TRUE, is |-> link], item>>
      <4> DEFINE head == [header |-> TRUE, is |-> link]
      <4>1. pcap' = (pcap \o <<head>>) \o <<item>>
        BY <2>1, <3>1 DEF convert_to_pcap, item
      <4>2. head \in PcapItem
        BY <3>6 DEF PcapItem
      <4> HIDE DEF head
      <4>3. <<head>> \in Seq(PcapItem) /\ <<item>> \in Seq(PcapItem)
        BY <2>3, <4>2
      <4>4. pcap \o <<head>> = <<head>>
        <5>1. <<>> \o <<head>> = <<head>>
          BY <4>3, ConcatEmptySeq, Zenon
        <5> QED
          BY <3>3, <5>1, Zenon
      <4>5. <<head>> \o <<item>> = <<head, item>>
        BY <2>3, <4>2, Pair, Zenon
      <4> QED
        BY <4>1, <4>4, <4>5 DEF head
    <3>8. Len(pcap') = 2 /\ pcap'[1] = [header |-> TRUE, is |-> link] /\ pcap'[2] = item
      BY <3>7
    <3>9. HeadersOf(n + 1) + Cardinality(KeptPackets(n + 1)) = 2 /\ KeptPackets(n + 1) = {n + 1}
      BY <2>2, <3>1, <3>2
    <3>10. \A k \in KeptPackets(n + 1) :
             pcap'[HeadersOf(n + 1) + Cardinality(KeptPackets(k))] = [header |-> FALSE, is |-> Blocks[k].data]
      BY <1>2, <3>8, <3>9 DEF item
    <3>11. \A k \in Interfaces(n + 1) : pcap'[1] = [header |-> TRUE, is |-> Blocks[k].link]
      BY <1>3, <3>5, <3>8
    <3> QED
      BY <1>7, <1>8, <3>8, <3>9, <3>10, <3>11, Rewritten
  <2>7. CASE Of("packet", n) # {}
    <3>1. ~firstPacket
      BY <2>7 DEF NgKnows, n
    <3>2. HeadersOf(n + 1) = HeadersOf(n)
      BY <1>1, <1>2, <1>11, <2>5, <2>7, NextPacket DEF HeadersOf
    <3>3. pcap' = pcap \o <<item>>
      BY <1>9, <2>1, <3>1 DEF convert_to_pcap
    <3> HIDE DEF item, K
    <3>4. Len(pcap') = Len(pcap) + 1 /\ pcap'[Len(pcap) + 1] = item
          /\ \A k \in 1..Len(pcap) : pcap'[k] = pcap[k]
      BY <1>9, <2>3, <3>3
    <3>5. Converted(n)
      BY DEF n
    <3>6. ASSUME NEW k \in KeptPackets(n + 1)
          PROVE  pcap'[HeadersOf(n + 1) + Cardinality(KeptPackets(k))] = [header |-> FALSE, is |-> Blocks[k].data]
      <4>1. CASE k = n + 1
        <5>1. HeadersOf(n + 1) + Cardinality(KeptPackets(k)) = Len(pcap) + 1
          BY <1>9, <2>2, <3>2, <4>1 DEF K
        <5> QED
          BY <1>2, <3>4, <4>1, <5>1 DEF item
      <4>2. CASE k \in K
        <5>1. pcap[HeadersOf(n) + Cardinality(KeptPackets(k))] = [header |-> FALSE, is |-> Blocks[k].data]
          BY <3>5, <4>2 DEF Converted, K
        <5>2. HeadersOf(n) + Cardinality(KeptPackets(k)) \in 1..Len(pcap)
          BY <1>1, <1>9, <4>2, KeptCount DEF K
        <5> QED
          BY <3>2, <3>4, <5>1, <5>2
      <4> QED
        BY <2>2, <4>1, <4>2
    <3>7. HeadersOf(n + 1) = 1 => \A k \in Interfaces(n + 1) : pcap'[1] = [header |-> TRUE, is |-> Blocks[k].link]
      <4>1. HeadersOf(n) = 1 => Len(pcap) >= 1
        BY <1>9
      <4> QED
        BY <1>3, <1>9, <3>2, <3>4, <3>5, <4>1 DEF Converted
    <3>8. Len(pcap') = HeadersOf(n + 1) + Cardinality(KeptPackets(n + 1))
      BY <1>9, <2>2, <3>2, <3>4 DEF K
    <3> QED
      BY <1>7, <1>8, <3>6, <3>7, <3>8, Rewritten
  <2> QED
    BY <2>6, <2>7
<1> QED
  BY <1>10, <1>11

(* One step for each kind of block: the place of the converter, ...        *)
LEMMA NgNextPlace ==
  ASSUME NgConstantsOK, NgPlace, [NgNext]_ngVars
  PROVE  NgPlace'
<1> DEFINE n == blockNum
<1>1. ngFile' = ngFile /\ Blocks' = Blocks /\ Whatever' = Whatever /\ PcapItem' = PcapItem
  <2>1. ngFile' = ngFile
    BY DEF NgNext, ngVars, EndOfFile, FailBlock, SectionHeader, InterfaceDescription, EnhancedPacket, OtherBlock, Dealt
  <2> QED
    BY <2>1 DEF Blocks, Whatever, PcapItem
<1>2. Len(Blocks) \in Nat /\ blockNum \in 0..Len(Blocks)
  BY DEF NgPlace, NgConstantsOK, Blocks
<1>3. CASE UNCHANGED ngVars
  BY <1>1, <1>3 DEF NgPlace, ngVars
<1>4. CASE EndOfFile
  BY <1>1, <1>4 DEF NgPlace, EndOfFile
<1>5. CASE FailBlock
  BY <1>1, <1>2, <1>5 DEF NgPlace, FailBlock, HasBlock
<1>6. CASE SectionHeader
  BY <1>1, <1>2, <1>6 DEF NgPlace, SectionHeader, Dealt, HasBlock, ReadTrailer
<1>7. CASE OtherBlock
  BY <1>1, <1>2, <1>7 DEF NgPlace, OtherBlock, Dealt, HasBlock, ReadTrailer
<1>8. CASE InterfaceDescription
  <2>1. blockNum' = n + 1 /\ n + 1 \in 1..Len(Blocks) /\ ngPc' \in {"blocks", "exit"}
        /\ firstPacket' = firstPacket /\ pcap' = pcap
    BY <1>2, <1>8 DEF InterfaceDescription, Dealt, HasBlock, ReadTrailer
  <2>2. Block.link \in Whatever
    BY <2>1 DEF Block, Whatever
  <2>3. g_ifLinkType' \in Seq(Whatever) /\ Len(g_ifLinkType') <= MAX_INTERFACES
    BY <1>8, <2>2 DEF InterfaceDescription, NgPlace, NgConstantsOK
  <2> QED
    BY <1>1, <1>2, <2>1, <2>3 DEF NgPlace
<1>9. CASE EnhancedPacket
  <2>1. blockNum' = n + 1 /\ n + 1 \in 1..Len(Blocks) /\ ngPc' \in {"blocks", "exit"}
        /\ firstPacket' = FALSE /\ g_ifLinkType' = g_ifLinkType
    BY <1>2, <1>9 DEF EnhancedPacket, Dealt, HasBlock, ReadTrailer
  <2> DEFINE item == [header |-> FALSE, is |-> Block.data]
             head == [header |-> TRUE, is |-> g_ifLinkType[Block.id + 1]]
  <2>2. item \in PcapItem
    BY <2>1 DEF Block, Whatever, PcapItem
  <2>3. ASSUME Known(Block.id) PROVE head \in PcapItem
    <3>1. Block.kind = "packet"
      BY <1>9 DEF EnhancedPacket
    <3>2. Block.id \in Nat
      BY <2>1, <3>1 DEF Block, NgConstantsOK, NgPlace, Blocks
    <3>3. Block.id + 1 \in 1..Len(g_ifLinkType)
      BY <2>3, <3>2 DEF Known, NgPlace
    <3> QED
      BY <3>3 DEF NgPlace, PcapItem
  <2> HIDE DEF item, head
  <2>4. pcap' \in Seq(PcapItem)
    <3>1. CASE ~Known(Block.id)
      BY <1>9, <3>1 DEF EnhancedPacket, NgPlace
    <3>2. CASE Known(Block.id) /\ firstPacket
      <4>1. pcap' = pcap \o <<head>> \o <<item>>
        BY <1>9, <3>2 DEF EnhancedPacket, convert_to_pcap, head, item
      <4> QED
        BY <2>2, <2>3, <3>2, <4>1 DEF NgPlace
    <3>3. CASE Known(Block.id) /\ ~firstPacket
      <4>1. pcap' = pcap \o <<>> \o <<item>>
        BY <1>9, <3>3 DEF EnhancedPacket, convert_to_pcap, item
      <4> QED
        BY <2>2, <3>3, <4>1 DEF NgPlace
    <3> QED
      BY <3>1, <3>2, <3>3
  <2>5. blockNum' \in 0..Len(Blocks)
    BY <1>2, <2>1
  <2>6. firstPacket' \in BOOLEAN
    BY <2>1
  <2> QED
    BY <1>1, <2>1, <2>4, <2>5, <2>6 DEF NgPlace
<1> QED
  BY <1>3, <1>4, <1>5, <1>6, <1>7, <1>8, <1>9 DEF NgNext

(* ... what it knows of the blocks it has dealt with, ...                  *)
LEMMA NgNextKnows ==
  ASSUME NgConstantsOK, NgPlace, NgKnows, NgNext, Dealt
  PROVE  NgKnows'
<1> DEFINE n == blockNum
<1>1. \A m : Of("packet", m)' = Of("packet", m) /\ Interfaces(m)' = Interfaces(m) /\ Blocks' = Blocks
  BY SameFile DEF Dealt
<1>2. n \in Nat /\ blockNum' = n + 1 /\ Block = Blocks[n + 1] /\ Len(Blocks) \in Nat /\ n + 1 <= Len(Blocks)
  BY DEF NgPlace, Dealt, Block, HasBlock, NgConstantsOK, Blocks
<1>3. Of("packet", blockNum)' = Of("packet", n + 1) /\ Interfaces(blockNum)' = Interfaces(n + 1)
  BY <1>1, <1>2
<1>4. Cardinality(Interfaces(n)) \in Nat
  BY <1>2, OfFacts DEF Interfaces
<1>5. CASE Block.kind = "interface"
  <2>1. Interfaces(n + 1) = Interfaces(n) \cup {n + 1} /\ Of("packet", n + 1) = Of("packet", n)
        /\ Cardinality(Interfaces(n + 1)) = Cardinality(Interfaces(n)) + 1
    BY <1>2, <1>5, OfFacts DEF Interfaces
  <2>2. /\ firstPacket' = firstPacket
        /\ g_ifLinkType' = IF Len(g_ifLinkType) < MAX_INTERFACES
                           THEN Append(g_ifLinkType, Block.link) ELSE g_ifLinkType
    BY <1>5 DEF NgNext, EndOfFile, FailBlock, Dealt, HeadFails, BodyFails, SectionHeader, InterfaceDescription,
                EnhancedPacket, OtherBlock, HasBlock
  <2>3. Block.link \in Whatever
    BY <1>2 DEF Whatever
  <2>4. CASE Len(g_ifLinkType) < MAX_INTERFACES
    <3>1. g_ifLinkType' = Append(g_ifLinkType, Block.link)
      BY <2>2, <2>4
    <3>2. Len(g_ifLinkType') = Len(g_ifLinkType) + 1 /\ g_ifLinkType'[Len(g_ifLinkType) + 1] = Block.link
          /\ \A k \in 1..Len(g_ifLinkType) : g_ifLinkType'[k] = g_ifLinkType[k]
      BY <2>3, <3>1 DEF NgPlace
    <3>3. Len(g_ifLinkType) = Cardinality(Interfaces(n)) /\ Len(g_ifLinkType) \in Nat
      BY <1>4, <2>4 DEF NgKnows, NgPlace, NgConstantsOK
    <3>4. ASSUME NEW k \in 1..Len(g_ifLinkType')
          PROVE  \E l \in Interfaces(n + 1) : g_ifLinkType'[k] = Blocks[l].link
      <4>1. CASE k = Len(g_ifLinkType) + 1
        BY <1>2, <2>1, <3>2, <4>1
      <4>2. CASE k \in 1..Len(g_ifLinkType)
        BY <2>1, <3>2, <4>2 DEF NgKnows
      <4> QED
        BY <3>2, <3>3, <4>1, <4>2
    <3>5. Len(g_ifLinkType') = IF Cardinality(Interfaces(n + 1)) <= MAX_INTERFACES
                               THEN Cardinality(Interfaces(n + 1)) ELSE MAX_INTERFACES
      BY <2>1, <2>4, <3>2, <3>3 DEF NgConstantsOK
    <3> QED
      BY <1>1, <1>3, <2>1, <2>2, <3>4, <3>5 DEF NgKnows
  <2>5. CASE ~(Len(g_ifLinkType) < MAX_INTERFACES)
    <3>1. g_ifLinkType' = g_ifLinkType
      BY <2>2, <2>5
    <3>2. Len(g_ifLinkType) = MAX_INTERFACES /\ Cardinality(Interfaces(n)) >= MAX_INTERFACES
      BY <1>4, <2>5 DEF NgKnows, NgPlace, NgConstantsOK
    <3>3. Len(g_ifLinkType) = IF Cardinality(Interfaces(n + 1)) <= MAX_INTERFACES
                              THEN Cardinality(Interfaces(n + 1)) ELSE MAX_INTERFACES
      BY <1>4, <2>1, <3>2 DEF NgConstantsOK
    <3> QED
      BY <1>1, <1>3, <2>1, <2>2, <3>1, <3>3 DEF NgKnows
  <2> QED
    BY <2>4, <2>5
<1>6. CASE Block.kind = "packet"
  <2>1. Of("packet", n + 1) # {} /\ Interfaces(n + 1) = Interfaces(n)
    BY <1>2, <1>6, OfFacts DEF Interfaces
  <2>2. firstPacket' = FALSE /\ g_ifLinkType' = g_ifLinkType
    BY <1>6 DEF NgNext, EndOfFile, FailBlock, Dealt, HeadFails, BodyFails, SectionHeader, InterfaceDescription,
                EnhancedPacket, OtherBlock, HasBlock
  <2> QED
    BY <1>1, <1>3, <2>1, <2>2 DEF NgKnows
<1>7. CASE Block.kind \notin {"packet", "interface"}
  <2>1. Of("packet", n + 1) = Of("packet", n) /\ Interfaces(n + 1) = Interfaces(n)
    BY <1>2, <1>7, OfFacts DEF Interfaces
  <2>2. firstPacket' = firstPacket /\ g_ifLinkType' = g_ifLinkType
    BY <1>7 DEF NgNext, EndOfFile, FailBlock, Dealt, HeadFails, BodyFails, SectionHeader, InterfaceDescription,
                EnhancedPacket, OtherBlock, HasBlock
  <2> QED
    BY <1>1, <1>3, <2>1, <2>2 DEF NgKnows
<1> QED
  BY <1>5, <1>6, <1>7

(* ... and what it has written.                                            *)
LEMMA NgNextInv ==
  ASSUME NgConstantsOK, NgInv, [NgNext]_ngVars
  PROVE  NgInv'
<1> DEFINE n == blockNum
<1>1. NgPlace /\ NgPlace'
  BY NgNextPlace DEF NgInv
<1>2. n \in Nat /\ Len(Blocks) \in Nat /\ n <= Len(Blocks)
  BY <1>1 DEF NgPlace, NgConstantsOK, Blocks
<1>3. CASE UNCHANGED ngVars
  <2>1. /\ \A m : Of("packet", m)' = Of("packet", m) /\ Interfaces(m)' = Interfaces(m)
                  /\ KeptPackets(m)' = KeptPackets(m) /\ HeadersOf(m)' = HeadersOf(m)
        /\ Blocks' = Blocks /\ OneLink' = OneLink
    BY <1>3, SameFile DEF ngVars
  <2>2. \A m : Converted(m)' <=> Converted(m)
    BY <1>3, <2>1 DEF Converted, ngVars
  <2>3. NgKnows' <=> NgKnows
    BY <1>3, <2>1 DEF NgKnows, ngVars
  <2>4. PacketsAreKept' <=> PacketsAreKept
    BY <1>3, <2>1, <2>2 DEF PacketsAreKept, ngVars
  <2> QED
    BY <1>1, <1>3, <2>1, <2>2, <2>3, <2>4 DEF NgInv, ngVars
<1>4. ASSUME NgNext PROVE NgKnows /\ ngPc = "blocks" /\ ngFile' = ngFile /\ OneLink' = OneLink
                          /\ (OneLink => Converted(blockNum))
  <2>1. ngPc = "blocks" /\ ngFile' = ngFile
    BY <1>4 DEF NgNext, EndOfFile, FailBlock, SectionHeader, InterfaceDescription, EnhancedPacket, OtherBlock, Dealt, HasBlock
  <2> QED
    BY <2>1, SameFile DEF NgInv
<1>5. CASE EndOfFile
  <2>1. OneLink => Converted(blockNum)'
    BY <1>2, <1>4, <1>5, NothingWritten DEF NgNext, EndOfFile
  <2>2. ngPc' = "exit"
    BY <1>5 DEF EndOfFile
  <2> QED
    BY <1>1, <1>4, <1>5, <2>1, <2>2 DEF NgInv, PacketsAreKept, NgNext
<1>6. CASE FailBlock
  <2>1. OneLink => Converted(blockNum - 1)'
    BY <1>2, <1>4, <1>6, NothingWritten DEF NgNext, FailBlock
  <2>2. ngPc' = "exit"
    BY <1>6 DEF FailBlock
  <2> QED
    BY <1>1, <1>4, <1>6, <2>1, <2>2 DEF NgInv, PacketsAreKept, NgNext
<1>7. CASE NgNext /\ Dealt
  <2>1. NgKnows'
    BY <1>1, <1>4, <1>7, NgNextKnows
  <2>2. blockNum' = n + 1 /\ Block = Blocks[n + 1] /\ n + 1 \in 1..Len(Blocks)
    BY <1>2, <1>7 DEF Dealt, Block, HasBlock
  <2>3. ASSUME OneLink PROVE Converted(blockNum)'
    <3>1. CASE Block.kind = "packet"
      <4>1. EnhancedPacket
        BY <1>7, <3>1 DEF NgNext, EndOfFile, FailBlock, Dealt, HasBlock, SectionHeader, InterfaceDescription, OtherBlock
      <4> QED
        BY <1>1, <1>4, <1>7, <2>3, <4>1, PacketWritten
    <3>2. CASE Block.kind # "packet"
      <4>1. pcap' = pcap
        BY <1>7, <3>2 DEF NgNext, EndOfFile, FailBlock, Dealt, HasBlock, SectionHeader, InterfaceDescription,
                          EnhancedPacket, OtherBlock
      <4>2. Of("packet", n + 1) = Of("packet", n)
        BY <1>2, <2>2, <3>2, OfFacts
      <4>3. Interfaces(n) = {} => KeptPackets(n) = {}
        BY <1>1, <1>2, KeptHasInterface
      <4>4. Interfaces(n) \subseteq Interfaces(n + 1) /\ Interfaces(n + 1) \subseteq Interfaces(Len(Blocks))
        BY <1>2, <2>2 DEF Interfaces, Of
      <4>5. \A k, l \in Interfaces(n + 1) : Blocks[k].link = Blocks[l].link
        BY <2>3, <4>4 DEF OneLink
      <4> QED
        BY <1>2, <1>4, <1>7, <2>2, <2>3, <4>1, <4>2, <4>3, <4>4, <4>5, NothingWritten
    <3> QED
      BY <3>1, <3>2
  <2> QED
    BY <1>1, <1>4, <1>7, <2>1, <2>3 DEF NgInv, PacketsAreKept
<1>8. NgNext => EndOfFile \/ FailBlock \/ Dealt
  BY DEF NgNext, SectionHeader, InterfaceDescription, EnhancedPacket, OtherBlock
<1> QED
  BY <1>3, <1>5, <1>6, <1>7, <1>8

(* The pcap file of any capture whose interfaces have one link type holds  *)
(* its packets in their order behind one header, without the strays, up to *)
(* where the file ends or goes wrong (pcapng_to_pcap.c:110-375).           *)
THEOREM CaptureKept == NgSpec => []PacketsAreKept
<1>1. NgInit => NgInv
  BY NgInitInv, NgConstantsOK
<1>2. NgInv /\ [NgNext]_ngVars => NgInv'
  BY NgNextInv, NgConstantsOK
<1>3. NgInv => PacketsAreKept
  BY DEF NgInv
<1> QED
  BY <1>1, <1>2, <1>3, PTL DEF NgSpec

-----------------------------------------------------------------------------
(* The converters as the run Tools has them, beside the other tools.       *)

ConverterInv == HexInv /\ ListingInv /\ (NgIdle \/ NgInv)

LEMMA IdleConverters ==
  /\ HexIdle => HexInv /\ ListingInv
  /\ NgIdle => PacketsAreKept
<1>1. ASSUME HexIdle PROVE HexInv /\ ListingInv
  <2>1. hexPc = "done" /\ written = FALSE /\ mcs = <<>>
    BY <1>1 DEF HexIdle
  <2>2. ~Orderly
    <3>1. Lines("eof") = {} /\ Len(mcs) \in {Len(mcs)}
      BY <2>1 DEF Lines
    <3> QED
      BY <3>1 DEF Orderly
  <2>3. mcs \in Seq({BlankLine, TextLine} \cup Records)
    BY <2>1
  <2> QED
    BY <2>1, <2>2, <2>3 DEF HexInv, ListingInv
<1>2. ASSUME NgIdle PROVE PacketsAreKept
  <2>1. blockNum = 0 /\ Len(pcap) = 0
    BY <1>2 DEF NgIdle
  <2>2. KeptPackets(0) = {}
    BY DEF KeptPackets, Of
  <2>3. HeadersOf(0) = 0 /\ Cardinality(KeptPackets(0)) = 0 /\ \A k \in KeptPackets(0) : FALSE
    BY <2>2, FS_EmptySet DEF HeadersOf
  <2>4. Converted(0)
    BY <2>1, <2>3 DEF Converted
  <2> QED
    BY <2>1, <2>4 DEF PacketsAreKept
<1> QED
  BY <1>1, <1>2

LEMMA ConvertersBegin == ToolsInit => ConverterInv
<1> SUFFICES ASSUME ToolsInit PROVE ConverterInv
  OBVIOUS
<1>1. (HexInit \/ HexIdle) /\ (NgInit \/ NgIdle)
  BY Zenon DEF ToolsInit
<1>2. HexInv /\ ListingInv
  BY <1>1, HexInitInv, ListingBegins, IdleConverters
<1>3. NgIdle \/ NgInv
  BY <1>1, NgInitInv, NgConstantsOK
<1> QED
  BY <1>2, <1>3 DEF ConverterInv

LEMMA ConvertersGo == ConverterInv /\ [ToolsNext]_ToolsVars => ConverterInv'
<1> SUFFICES ASSUME ConverterInv, [ToolsNext]_ToolsVars PROVE ConverterInv'
  OBVIOUS
<1>1. [HexNext]_hexVars /\ [NgNext]_ngVars
  BY Zenon DEF ToolsNext, ToolsVars
<1>2. HexInv' /\ ListingInv'
  BY <1>1, HexNextInv, ListingNext DEF ConverterInv
<1>3. NgIdle' \/ NgInv'
  <2>1. CASE NgInv
    BY <1>1, <2>1, NgNextInv, NgConstantsOK
  <2>2. CASE NgIdle
    <3>1. ~NgNext
      BY <2>2 DEF NgIdle, NgNext, EndOfFile, FailBlock, SectionHeader, InterfaceDescription, EnhancedPacket,
                  OtherBlock, Dealt, HasBlock
    <3>2. UNCHANGED ngVars
      BY <1>1, <3>1
    <3> QED
      BY <2>2, <3>2 DEF NgIdle, ngVars
  <2> QED
    BY <2>1, <2>2 DEF ConverterInv
<1> QED
  BY <1>2, <1>3 DEF ConverterInv

(* What the run Tools checks of the converters on small files holds of all *)
(* files: the three theorems above, in the specification of that run.      *)
THEOREM ConvertersTrue == ToolsSpec => []ConvertersAreTrue
<1>1. ToolsInit => ConverterInv
  BY ConvertersBegin
<1>2. ConverterInv /\ [ToolsNext]_ToolsVars => ConverterInv'
  BY ConvertersGo
<1>3. ConverterInv => ConvertersAreTrue
  <2>1. HexInv => RestoresFile
    BY DEF HexInv, RestoresFile
  <2>2. NgInv => PacketsAreKept
    BY DEF NgInv
  <2> QED
    BY <2>1, <2>2, FinishedIsExact, IdleConverters DEF ConverterInv, ConvertersAreTrue
<1> QED
  BY <1>1, <1>2, <1>3, PTL DEF ToolsSpec
-----------------------------------------------------------------------------
(* The byte tools, when another tool runs: a join of no files that is done. *)
LEMMA IdleBin == BinIdle => BinInv
<1> SUFFICES ASSUME BinIdle PROVE BinInv
  OBVIOUS
<1>1. job.tool = "bincomb" /\ job.files = <<>> /\ binPc = "done" /\ next = 0 /\ at = 0 /\ out = <<>>
  BY DEF BinIdle
<1>2. BinJob(job)
  BY <1>1 DEF BinJob
<1>3. CombineInv
  <2>1. <<>> \in Seq(Nat) /\ <<>> \in Seq(Seq(Nat)) /\ Len(<<>>) = 0 /\ ~(0 > 0) /\ 0 \in Nat /\ 0 <= Len(<<>>) /\ 1..0 = {}
    OBVIOUS
  <2>2. <<>> \o <<>> = <<>>
    BY <2>1, ConcatEmptySeq
  <2>3. Flat(<<>>, 0, <<>>, <<>>)
    BY <2>1 DEF Flat
  <2>4. CombinedTo(<<>>, job.missing, 0, 0, <<>>, "done")
    BY <2>1, <2>2, <2>3, Zenon DEF CombinedTo
  <2> QED
    BY <1>1, <2>4, Zenon DEF CombineInv
<1> QED
  BY <1>1, <1>2, <1>3 DEF BinInv

(* The same in the specification of the run Tools.                         *)
THEOREM BinToolsExact == ToolsSpec => []ToolsAreExact
<1>1. ToolsInit => BinInv
  <2>1. ToolsInit => BinInit \/ BinIdle
    BY Zenon DEF ToolsInit
  <2> QED
    BY <2>1, BinBegins, IdleBin
<1>2. BinInv /\ [ToolsNext]_ToolsVars => BinInv'
  <2>1. [ToolsNext]_ToolsVars => [BinNext]_binVars
    BY Zenon DEF ToolsNext, ToolsVars
  <2> QED
    BY <2>1, BinGoes
<1>3. BinInv => ToolsAreExact
  BY BinExact
<1> QED
  BY <1>1, <1>2, <1>3, PTL DEF ToolsSpec
=============================================================================
