----------------------------- MODULE UuidNames ------------------------------
(***************************************************************************)
(* The UUIDs made from names and the comparison of uuid/uuid.c, on hosts   *)
(* of either byte order and with a long of four or of eight bytes, which   *)
(* is what sysdep.h makes an unsigned32.  A word is the sequence of its    *)
(* bytes, the most significant one first.  What MD5 and SHA-1 compute is   *)
(* left out: any function of the bytes will do for their digests.          *)
(***************************************************************************)
EXTENDS Integers, Sequences, SequencesExt, FiniteSetsExt, Bytes

CONSTANTS
  NameJobs   \* the calls: [call, host, version, nsid, name, padding, behind]
             \* or [call, host, u1, u2]

VARIABLES
  nmPc,     \* "called", "hashed" or "returned"
  nmJob,    \* the call
  hash,     \* the digest, and what lies in memory behind it
  uuid,     \* the UUID
  verdict   \* what uuid_compare returned

nmVars == <<nmPc, nmJob, hash, uuid, verdict>>

NoUuid == [time_low |-> <<>>, time_mid |-> <<>>, time_hi_and_version |-> <<>>, clock_seq |-> <<>>, node |-> <<>>]

NamesInit ==
  nmPc = "called" /\ nmJob \in NameJobs /\ hash = <<>> /\ uuid = NoUuid /\ verdict = 2
-----------------------------------------------------------------------------
(* A word to and from memory; htonl, htons and back are the same turn.     *)
Turned(word) == IF nmJob.host.little THEN Reverse(word) ELSE word
htons(word)  == Turned(word)
htonl(word)  == Zeroes(Len(word) - 4) \o Turned(SubSeq(word, Len(word) - 3, Len(word)))

Swapped(u)   == [u EXCEPT !.time_low = htonl(@), !.time_mid = htons(@), !.time_hi_and_version = htons(@)]
AsItIs(u)    == u                                                  \* mutant

(* A UUID in memory ends in the padding up to the next long.               *)
Memory(u, padding) ==
  Turned(u.time_low) \o Turned(u.time_mid) \o Turned(u.time_hi_and_version)
  \o u.clock_seq \o u.node \o SubSeq(padding, 1, Len(u.time_low) - 4)

FromMemory(bytes, long) ==
  LET after(first, n) == SubSeq(bytes, long + first, long + first + n - 1)
  IN  [time_low |-> Turned(SubSeq(bytes, 1, long)), time_mid |-> Turned(after(1, 2)),
       time_hi_and_version |-> Turned(after(3, 2)), clock_seq |-> after(5, 2), node |-> after(7, 6)]

Length(version) == IF version = 3 THEN 16 ELSE 20
Digest(bytes, version) ==
  [k \in 1..Length(version) |->
    (MapThenSumSet(LAMBDA j : bytes[j] * (j + k), DOMAIN bytes) + 7 * k * Len(bytes) + version) % 256]

(* uuid_create_md5_from_name and uuid_create_sha1_from_name.               *)
CreateFromName ==
  /\ nmPc = "called" /\ nmJob.call = "create"
  /\ LET net_nsid == Swapped(nmJob.nsid)
     IN  hash' = Digest(Memory(net_nsid, nmJob.padding) \o nmJob.name, nmJob.version) \o nmJob.behind
  /\ nmPc' = "hashed"
  /\ UNCHANGED <<nmJob, uuid, verdict>>

Marked(u, v) ==
  [u EXCEPT !.time_hi_and_version = [@ EXCEPT ![1] = (@ % 16) + 16 * v],
            !.clock_seq = [@ EXCEPT ![1] = (@ % 64) + 128]]

(* It copies as many bytes as a UUID has in memory, whatever the hash has. *)
format_uuid_v3or5 ==
  /\ nmPc = "hashed"
  /\ uuid' = Marked(Swapped(FromMemory(hash, nmJob.host.long)), nmJob.version)
  /\ nmPc' = "returned"
  /\ UNCHANGED <<nmJob, hash, verdict>>
-----------------------------------------------------------------------------
Less(a, b) == \E k \in DOMAIN a : a[k] < b[k] /\ SubSeq(a, 1, k - 1) = SubSeq(b, 1, k - 1)
Fields(u)  == <<u.time_low, u.time_mid, u.time_hi_and_version>>
              \o [k \in 1..8 |-> <<(u.clock_seq \o u.node)[k]>>]

uuid_compare ==
  /\ nmPc = "called" /\ nmJob.call = "compare"
  /\ LET differ == {k \in 1..11 : Fields(nmJob.u1)[k] # Fields(nmJob.u2)[k]}
     IN  verdict' = IF differ = {} THEN 0
                    ELSE IF Less(Fields(nmJob.u1)[Min(differ)], Fields(nmJob.u2)[Min(differ)]) THEN -1 ELSE 1
  /\ nmPc' = "returned"
  /\ UNCHANGED <<nmJob, hash, uuid>>

NamesNext == CreateFromName \/ format_uuid_v3or5 \/ uuid_compare
-----------------------------------------------------------------------------
(* Properties.                                                             *)

NamesTypeOK ==
  /\ nmPc \in {"called", "hashed", "returned"} /\ verdict \in {-1, 0, 1, 2}
  /\ DOMAIN uuid = DOMAIN NoUuid

(* The 16 bytes that are printed of a UUID (utest.c:14-26).                *)
Printed(u) == SubSeq(u.time_low, Len(u.time_low) - 3, Len(u.time_low)) \o u.time_mid
              \o u.time_hi_and_version \o u.clock_seq \o u.node

(* RFC 4122, 4.3: the hash of the name space in network order and of the   *)
(* name, the first 16 bytes of it, with the version and the variant.       *)
Rfc4122 ==
  [k \in 1..16 |->
    LET b == Digest(Printed(nmJob.nsid) \o nmJob.name, nmJob.version)[k]
    IN  IF k = 7 THEN (b % 16) + 16 * nmJob.version ELSE IF k = 9 THEN (b % 64) + 128 ELSE b]

(* Where a long has four bytes, hosts of both byte orders make the UUID of *)
(* the standard of a name.  Where it has eight, the name space is hashed   *)
(* with zeros and padding in it, none of them does, and of a version 3     *)
(* UUID the last four bytes are what lay behind the hash                   *)
(* (uuid.c:188-249, sysdep.h:28).                                          *)
NamesAreStable ==
  (nmPc = "returned" /\ nmJob.call = "create") =>
    /\ (Printed(uuid) = Rfc4122) <=> (nmJob.host.long = 4)
    /\ (SubSeq(uuid.node, 3, 6) = nmJob.behind) <=> (nmJob.host.long = 8 /\ nmJob.version = 3)

(* The comparison is the order of what is printed, as uuid.h:35-40 has it. *)
OrderIsLexical ==
  verdict # 2 =>
    LET a == Printed(nmJob.u1)
        b == Printed(nmJob.u2)
    IN  /\ (verdict = 0) <=> (a = b)
        /\ (verdict = -1) <=> Less(a, b)
=============================================================================
