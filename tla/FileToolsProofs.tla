--------------------------- MODULE FileToolsProofs ---------------------------
(***************************************************************************)
(* Proofs about the programs of cert/ and of binutil/.                     *)
(*                                                                         *)
(* Certs: whatever calls fail, no program uses or frees an object twice,   *)
(* each gives back all but what it is known to leak, and the files it      *)
(* writes are whole or as they were.  The proof has two halves: what has   *)
(* to be true of the list of the calls of a program (Sound), which is      *)
(* looked up in the list of each of them, and that no run of a program     *)
(* with such a list goes wrong.                                            *)
(*                                                                         *)
(* BinTools: what a tool for files of bytes has written when it ends is    *)
(* what its name promises, of files of any length.  Each has an invariant  *)
(* of its loop, a predicate of the file, the arguments and what was        *)
(* written so far; three lemmas say that it holds at first, that a turn    *)
(* of the loop keeps it, and that at the end it is the promise.            *)
(***************************************************************************)
EXTENDS Certs, BinTools, SequenceTheorems, FiniteSetTheorems, TLAPS

(* The places of calls of some kinds before place k; what may be held      *)
(* there, and what was freed.                                              *)
Earlier(P, k, kinds) == {n \in 1..Len(P) : n < k /\ P[n].kind \in kinds}
Held(P, k) == {P[n].var : n \in Earlier(P, k, {"get", "take"})} \ {x \in {"pKeyPair"} : Earlier(P, k, {"assign"}) # {}}
Gone(P, k) == UNION {P[n].undo : n \in Earlier(P, k, {"free"})}

(* What a program is known to leak, as in LeftBehind; of what is held, it  *)
(* is what is not given back.  A key that has been given a key pair is.    *)
Leaked(x, end) ==
  CASE ceJob.tool \in {"create_cert", "verify_pem"} -> FALSE
    [] ceJob.tool \in {"convert_cert", "get_pubkey"} -> x = "pBuf"
    [] ceJob.tool = "get_prikey" -> end = "failed" /\ x = "pRsa"
    [] ceJob.tool = "verify_der" -> x \notin {"fp_user", "fp_root"}
Clean(held, gone, end) == \A x \in held : Leaked(x, end) <=> x \notin gone
PairToo(P, k, gone) == Earlier(P, k, {"assign"}) # {} => "pPriKeyNew" \in gone

MayFail(call) == call.kind \in {"get", "check", "assign"} \/ (call.kind = "save" /\ ceJob.tool = "convert_cert")

(* Nothing is used, freed or set after it was freed, and a call that fails *)
(* gives back all there is but the leaks.                                  *)
FreedOnce(P, k) == /\ Gone(P, k) \cap (P[k].uses \cup P[k].undo) = {}
                   /\ P[k].kind \in {"get", "take"} =>
                        /\ P[k].var \notin Gone(P, k) \cup {"inKey"}
                        /\ P[k].var = "pKeyPair" => Earlier(P, k, {"assign"}) = {}
                   /\ P[k].kind = "assign" => "pPriKeyNew" \in P[k].uses
                   /\ "inKey" \notin P[k].uses \cup P[k].undo
FailsClean(P, k) ==
  /\ MayFail(P[k]) => /\ Clean(Held(P, k), P[k].undo \cup Gone(P, k), "failed")
                      /\ PairToo(P, k, P[k].undo \cup Gone(P, k))
  /\ P[k].kind = "need" => Clean(Held(P, k) \ {P[k].var}, Gone(P, k), "failed") /\ PairToo(P, k, Gone(P, k))
EndsClean(P) == LET k == Len(P) + 1 IN Clean(Held(P, k), Gone(P, k), "done") /\ PairToo(P, k, Gone(P, k))

(* Where the files are written: by create_cert the three one after the     *)
(* other before the last call, by convert_cert one, behind which nothing   *)
(* can fail.                                                               *)
Converting == Converts("pem", "der") \/ Converts("der", "pem")
FirstSave(P) == IF Creates THEN Len(P) - 3 ELSE IF Converting THEN Len(P) - 1 ELSE Len(P) + 1
SavesRight(P) ==
  /\ \A k \in 1..Len(P) : k < FirstSave(P) => P[k].kind # "save"
  /\ Creates => /\ Len(P) > 3 /\ P[Len(P)].kind = "free"
                /\ \A k \in Len(P) - 3..Len(P) - 1 : P[k].kind = "save"
                /\ P[Len(P) - 3].var = KeyFile /\ P[Len(P) - 2].var = CertFile /\ P[Len(P) - 1].var = DerFile
  /\ Converting => /\ Len(P) > 1 /\ P[Len(P) - 1].kind = "save" /\ P[Len(P)].kind = "free"
                   /\ P[Len(P) - 1].var = IF ceJob.a = "pem" THEN DerFile ELSE <<"new_pem", "cert">>

Sound(P) == /\ Len(P) \in Nat /\ SavesRight(P)
            /\ \A k \in 1..Len(P) : FreedOnce(P, k) /\ FailsClean(P, k)
            /\ EndsClean(P)
-----------------------------------------------------------------------------
(* The lists of the programs. *)

LEMMA Places ==
  ASSUME NEW n \in 1..17
  PROVE  \/ n = 1 \/ n = 2 \/ n = 3 \/ n = 4 \/ n = 5 \/ n = 6 \/ n = 7 \/ n = 8 \/ n = 9
         \/ n = 10 \/ n = 11 \/ n = 12 \/ n = 13 \/ n = 14 \/ n = 15 \/ n = 16 \/ n = 17
OBVIOUS

LEMMA CreateRootFilesSound ==
  ASSUME ceJob.tool = "create_cert", ceJob.root = TRUE, ceJob.a # "none", NEW P, P = Program
  PROVE  Sound(P)
<1>1. /\ Len(P) = 17
      /\ P[1] = Get("pCertNew", {}, Made) /\ P[2] = Get("pKeyPair", {}, Made) /\ P[3] = Get("pBigNumber", {}, Made)
      /\ P[4] = Must({"pBigNumber"}, Made) /\ P[5] = Must({"pKeyPair", "pBigNumber"}, Made)
      /\ P[6] = Get("pPriKeyNew", {}, Made) /\ P[7] = Call("assign", "pKeyPair", {"pPriKeyNew", "pKeyPair"}, Made)
      /\ P[8] = Must({"pCertNew", "pPriKeyNew"}, Made) /\ P[9] = Get("pFileRoot", {}, Made)
      /\ P[10] = Get("pPriKeyRoot", {"pFileRoot"}, Made) /\ P[11] = Must({"pCertNew", "pPriKeyRoot"}, Made)
      /\ P[12] = Free({"pPriKeyRoot", "pFileRoot"}) /\ P[13] = Free({"pBigNumber"})
      /\ P[14] = Save("new_pem", "key", {"pPriKeyNew"}, {}) /\ P[15] = Save("pem", "cert", {"pCertNew"}, {})
      /\ P[16] = Save("new_der", "cert", {"pCertNew"}, {}) /\ P[17] = Free({"pCertNew", "pPriKeyNew"})
  BY DEF Program, CreateCert, CreateCertificate, SaveCertificate
<1>2. /\ \A n \in 1..17 : P[n].kind = "free" <=> n \in {12, 13, 17}
      /\ \A n \in 1..17 : P[n].kind \in {"get", "take"} <=> n \in {1, 2, 3, 6, 9, 10}
      /\ \A n \in 1..17 : P[n].kind = "assign" <=> n \in {7}
  BY Places, <1>1 DEF Get, Take, Must, Need, Use, Free, Save, Call
<1>3. \A k \in 1..18 : Gone(P, k) =
                         (IF k > 12 THEN {"pPriKeyRoot", "pFileRoot"} ELSE {})
                         \cup (IF k > 13 THEN {"pBigNumber"} ELSE {})
                         \cup (IF k > 17 THEN {"pCertNew", "pPriKeyNew"} ELSE {})
  BY <1>1, <1>2 DEF Gone, Earlier, Get, Take, Must, Need, Use, Free, Save, Call
<1>4. \A k \in 1..18 : Held(P, k) =
                         ((IF k > 1 THEN {"pCertNew"} ELSE {})
                         \cup (IF k > 2 THEN {"pKeyPair"} ELSE {})
                         \cup (IF k > 3 THEN {"pBigNumber"} ELSE {})
                         \cup (IF k > 6 THEN {"pPriKeyNew"} ELSE {})
                         \cup (IF k > 9 THEN {"pFileRoot"} ELSE {})
                         \cup (IF k > 10 THEN {"pPriKeyRoot"} ELSE {})) \ (IF k > 7 THEN {"pKeyPair"} ELSE {})
  BY <1>1, <1>2 DEF Held, Earlier, Get, Take, Must, Need, Use, Free, Save, Call
<1>5. \A k \in 1..17 : FreedOnce(P, k)
  BY <1>1, <1>2, <1>3, Places DEF FreedOnce, Earlier, Get, Take, Must, Need, Use, Free, Save,
     Call, Made
<1>6. \A k \in 1..17 : FailsClean(P, k)
  BY <1>1, <1>2, <1>3, <1>4, Places DEF FailsClean, MayFail, Clean, PairToo, Leaked, Earlier, Get,
     Take, Must, Need, Use, Free, Save, Call, Made
<1>7. EndsClean(P)
  <2>1. Len(P) = 17
    BY <1>1
  <2> QED
    BY <1>2, <1>3, <1>4, <2>1 DEF EndsClean, Clean, PairToo, Leaked, Earlier, Made
<1>8. SavesRight(P)
  BY <1>1, Places DEF SavesRight, FirstSave, Creates, Converting, Converts, KeyFile, CertFile,
     DerFile, Get, Take, Must, Need, Use, Free, Save, Call
<1> QED
  <2>1. Len(P) = 17
    BY <1>1
  <2> QED
    BY <2>1, <1>5, <1>6, <1>7, <1>8 DEF Sound

LEMMA CreateRootSound ==
  ASSUME ceJob.tool = "create_cert", ceJob.root = TRUE, ceJob.a = "none", NEW P, P = Program
  PROVE  Sound(P)
<1>1. /\ Len(P) = 14
      /\ P[1] = Get("pCertNew", {}, Made) /\ P[2] = Get("pKeyPair", {}, Made) /\ P[3] = Get("pBigNumber", {}, Made)
      /\ P[4] = Must({"pBigNumber"}, Made) /\ P[5] = Must({"pKeyPair", "pBigNumber"}, Made)
      /\ P[6] = Get("pPriKeyNew", {}, Made) /\ P[7] = Call("assign", "pKeyPair", {"pPriKeyNew", "pKeyPair"}, Made)
      /\ P[8] = Must({"pCertNew", "pPriKeyNew"}, Made) /\ P[9] = Get("pFileRoot", {}, Made)
      /\ P[10] = Get("pPriKeyRoot", {"pFileRoot"}, Made) /\ P[11] = Must({"pCertNew", "pPriKeyRoot"}, Made)
      /\ P[12] = Free({"pPriKeyRoot", "pFileRoot"}) /\ P[13] = Free({"pBigNumber"})
      /\ P[14] = Free({"pCertNew", "pPriKeyNew"})
  BY DEF Program, CreateCert, CreateCertificate
<1>2. /\ \A n \in 1..14 : P[n].kind = "free" <=> n \in {12, 13, 14}
      /\ \A n \in 1..14 : P[n].kind \in {"get", "take"} <=> n \in {1, 2, 3, 6, 9, 10}
      /\ \A n \in 1..14 : P[n].kind = "assign" <=> n \in {7}
  BY Places, <1>1 DEF Get, Take, Must, Need, Use, Free, Save, Call
<1>3. \A k \in 1..15 : Gone(P, k) =
                         (IF k > 12 THEN {"pPriKeyRoot", "pFileRoot"} ELSE {})
                         \cup (IF k > 13 THEN {"pBigNumber"} ELSE {})
                         \cup (IF k > 14 THEN {"pCertNew", "pPriKeyNew"} ELSE {})
  BY <1>1, <1>2 DEF Gone, Earlier, Get, Take, Must, Need, Use, Free, Save, Call
<1>4. \A k \in 1..15 : Held(P, k) =
                         ((IF k > 1 THEN {"pCertNew"} ELSE {})
                         \cup (IF k > 2 THEN {"pKeyPair"} ELSE {})
                         \cup (IF k > 3 THEN {"pBigNumber"} ELSE {})
                         \cup (IF k > 6 THEN {"pPriKeyNew"} ELSE {})
                         \cup (IF k > 9 THEN {"pFileRoot"} ELSE {})
                         \cup (IF k > 10 THEN {"pPriKeyRoot"} ELSE {})) \ (IF k > 7 THEN {"pKeyPair"} ELSE {})
  BY <1>1, <1>2 DEF Held, Earlier, Get, Take, Must, Need, Use, Free, Save, Call
<1>5. \A k \in 1..14 : FreedOnce(P, k)
  BY <1>1, <1>2, <1>3, Places DEF FreedOnce, Earlier, Get, Take, Must, Need, Use, Free, Save,
     Call, Made
<1>6. \A k \in 1..14 : FailsClean(P, k)
  BY <1>1, <1>2, <1>3, <1>4, Places DEF FailsClean, MayFail, Clean, PairToo, Leaked, Earlier, Get,
     Take, Must, Need, Use, Free, Save, Call, Made
<1>7. EndsClean(P)
  <2>1. Len(P) = 14
    BY <1>1
  <2> QED
    BY <1>2, <1>3, <1>4, <2>1 DEF EndsClean, Clean, PairToo, Leaked, Earlier, Made
<1>8. SavesRight(P)
  BY <1>1, Places DEF SavesRight, FirstSave, Creates, Converting, Converts, KeyFile, CertFile,
     DerFile, Get, Take, Must, Need, Use, Free, Save, Call
<1> QED
  <2>1. Len(P) = 14
    BY <1>1
  <2> QED
    BY <2>1, <1>5, <1>6, <1>7, <1>8 DEF Sound

LEMMA CreateFilesSound ==
  ASSUME ceJob.tool = "create_cert", ceJob.root = FALSE, ceJob.a # "none", NEW P, P = Program
  PROVE  Sound(P)
<1>1. /\ Len(P) = 14
      /\ P[1] = Get("pCertNew", {}, Made) /\ P[2] = Get("pKeyPair", {}, Made) /\ P[3] = Get("pBigNumber", {}, Made)
      /\ P[4] = Must({"pBigNumber"}, Made) /\ P[5] = Must({"pKeyPair", "pBigNumber"}, Made)
      /\ P[6] = Get("pPriKeyNew", {}, Made) /\ P[7] = Call("assign", "pKeyPair", {"pPriKeyNew", "pKeyPair"}, Made)
      /\ P[8] = Must({"pCertNew", "pPriKeyNew"}, Made) /\ P[9] = Must({"pCertNew", "pPriKeyNew"}, Made)
      /\ P[10] = Free({"pBigNumber"}) /\ P[11] = Save("new_pem", "key", {"pPriKeyNew"}, {})
      /\ P[12] = Save("pem", "cert", {"pCertNew"}, {}) /\ P[13] = Save("new_der", "cert", {"pCertNew"}, {})
      /\ P[14] = Free({"pCertNew", "pPriKeyNew"})
  BY DEF Program, CreateCert, CreateCertificate, SaveCertificate
<1>2. /\ \A n \in 1..14 : P[n].kind = "free" <=> n \in {10, 14}
      /\ \A n \in 1..14 : P[n].kind \in {"get", "take"} <=> n \in {1, 2, 3, 6}
      /\ \A n \in 1..14 : P[n].kind = "assign" <=> n \in {7}
  BY Places, <1>1 DEF Get, Take, Must, Need, Use, Free, Save, Call
<1>3. \A k \in 1..15 : Gone(P, k) =
                         (IF k > 10 THEN {"pBigNumber"} ELSE {})
                         \cup (IF k > 14 THEN {"pCertNew", "pPriKeyNew"} ELSE {})
  BY <1>1, <1>2 DEF Gone, Earlier, Get, Take, Must, Need, Use, Free, Save, Call
<1>4. \A k \in 1..15 : Held(P, k) =
                         ((IF k > 1 THEN {"pCertNew"} ELSE {})
                         \cup (IF k > 2 THEN {"pKeyPair"} ELSE {})
                         \cup (IF k > 3 THEN {"pBigNumber"} ELSE {})
                         \cup (IF k > 6 THEN {"pPriKeyNew"} ELSE {})) \ (IF k > 7 THEN {"pKeyPair"} ELSE {})
  BY <1>1, <1>2 DEF Held, Earlier, Get, Take, Must, Need, Use, Free, Save, Call
<1>5. \A k \in 1..14 : FreedOnce(P, k)
  BY <1>1, <1>2, <1>3, Places DEF FreedOnce, Earlier, Get, Take, Must, Need, Use, Free, Save,
     Call, Made
<1>6. \A k \in 1..14 : FailsClean(P, k)
  BY <1>1, <1>2, <1>3, <1>4, Places DEF FailsClean, MayFail, Clean, PairToo, Leaked, Earlier, Get,
     Take, Must, Need, Use, Free, Save, Call, Made
<1>7. EndsClean(P)
  <2>1. Len(P) = 14
    BY <1>1
  <2> QED
    BY <1>2, <1>3, <1>4, <2>1 DEF EndsClean, Clean, PairToo, Leaked, Earlier, Made
<1>8. SavesRight(P)
  BY <1>1, Places DEF SavesRight, FirstSave, Creates, Converting, Converts, KeyFile, CertFile,
     DerFile, Get, Take, Must, Need, Use, Free, Save, Call
<1> QED
  <2>1. Len(P) = 14
    BY <1>1
  <2> QED
    BY <2>1, <1>5, <1>6, <1>7, <1>8 DEF Sound

LEMMA CreateOnlySound ==
  ASSUME ceJob.tool = "create_cert", ceJob.root = FALSE, ceJob.a = "none", NEW P, P = Program
  PROVE  Sound(P)
<1>1. /\ Len(P) = 11
      /\ P[1] = Get("pCertNew", {}, Made) /\ P[2] = Get("pKeyPair", {}, Made) /\ P[3] = Get("pBigNumber", {}, Made)
      /\ P[4] = Must({"pBigNumber"}, Made) /\ P[5] = Must({"pKeyPair", "pBigNumber"}, Made)
      /\ P[6] = Get("pPriKeyNew", {}, Made) /\ P[7] = Call("assign", "pKeyPair", {"pPriKeyNew", "pKeyPair"}, Made)
      /\ P[8] = Must({"pCertNew", "pPriKeyNew"}, Made) /\ P[9] = Must({"pCertNew", "pPriKeyNew"}, Made)
      /\ P[10] = Free({"pBigNumber"}) /\ P[11] = Free({"pCertNew", "pPriKeyNew"})
  BY DEF Program, CreateCert, CreateCertificate
<1>2. /\ \A n \in 1..11 : P[n].kind = "free" <=> n \in {10, 11}
      /\ \A n \in 1..11 : P[n].kind \in {"get", "take"} <=> n \in {1, 2, 3, 6}
      /\ \A n \in 1..11 : P[n].kind = "assign" <=> n \in {7}
  BY Places, <1>1 DEF Get, Take, Must, Need, Use, Free, Save, Call
<1>3. \A k \in 1..12 : Gone(P, k) =
                         (IF k > 10 THEN {"pBigNumber"} ELSE {})
                         \cup (IF k > 11 THEN {"pCertNew", "pPriKeyNew"} ELSE {})
  BY <1>1, <1>2 DEF Gone, Earlier, Get, Take, Must, Need, Use, Free, Save, Call
<1>4. \A k \in 1..12 : Held(P, k) =
                         ((IF k > 1 THEN {"pCertNew"} ELSE {})
                         \cup (IF k > 2 THEN {"pKeyPair"} ELSE {})
                         \cup (IF k > 3 THEN {"pBigNumber"} ELSE {})
                         \cup (IF k > 6 THEN {"pPriKeyNew"} ELSE {})) \ (IF k > 7 THEN {"pKeyPair"} ELSE {})
  BY <1>1, <1>2 DEF Held, Earlier, Get, Take, Must, Need, Use, Free, Save, Call
<1>5. \A k \in 1..11 : FreedOnce(P, k)
  BY <1>1, <1>2, <1>3, Places DEF FreedOnce, Earlier, Get, Take, Must, Need, Use, Free, Save,
     Call, Made
<1>6. \A k \in 1..11 : FailsClean(P, k)
  BY <1>1, <1>2, <1>3, <1>4, Places DEF FailsClean, MayFail, Clean, PairToo, Leaked, Earlier, Get,
     Take, Must, Need, Use, Free, Save, Call, Made
<1>7. EndsClean(P)
  <2>1. Len(P) = 11
    BY <1>1
  <2> QED
    BY <1>2, <1>3, <1>4, <2>1 DEF EndsClean, Clean, PairToo, Leaked, Earlier, Made
<1>8. SavesRight(P)
  BY <1>1, Places DEF SavesRight, FirstSave, Creates, Converting, Converts, KeyFile, CertFile,
     DerFile, Get, Take, Must, Need, Use, Free, Save, Call
<1> QED
  <2>1. Len(P) = 11
    BY <1>1
  <2> QED
    BY <2>1, <1>5, <1>6, <1>7, <1>8 DEF Sound

LEMMA Pem2DerSound ==
  ASSUME ceJob.tool = "convert_cert", ceJob.a = "pem", ceJob.b = "der", NEW P, P = Program
  PROVE  Sound(P)
<1>1. /\ Len(P) = 4
      /\ P[1] = Get("bio", {}, {}) /\ P[2] = Get("x509", {"bio"}, {"bio"})
      /\ P[3] = Save("new_der", "cert", {"x509"}, {"x509", "bio"}) /\ P[4] = Free({"x509", "bio"})
  BY DEF Program, ConvertCert, pem2der
<1>2. /\ \A n \in 1..4 : P[n].kind = "free" <=> n \in {4}
      /\ \A n \in 1..4 : P[n].kind \in {"get", "take"} <=> n \in {1, 2}
      /\ \A n \in 1..4 : P[n].kind = "assign" <=> n \in {}
  BY Places, <1>1 DEF Get, Take, Must, Need, Use, Free, Save, Call
<1>3. \A k \in 1..5 : Gone(P, k) = (IF k > 4 THEN {"x509", "bio"} ELSE {})
  BY <1>1, <1>2 DEF Gone, Earlier, Get, Take, Must, Need, Use, Free, Save, Call
<1>4. \A k \in 1..5 : Held(P, k) =
                        (IF k > 1 THEN {"bio"} ELSE {}) \cup (IF k > 2 THEN {"x509"} ELSE {})
  BY <1>1, <1>2 DEF Held, Earlier, Get, Take, Must, Need, Use, Free, Save, Call
<1>5. \A k \in 1..4 : FreedOnce(P, k)
  BY <1>1, <1>2, <1>3, Places DEF FreedOnce, Earlier, Get, Take, Must, Need, Use, Free, Save, Call
<1>6. \A k \in 1..4 : FailsClean(P, k)
  BY <1>1, <1>2, <1>3, <1>4, Places DEF FailsClean, MayFail, Clean, PairToo, Leaked, Earlier, Get,
     Take, Must, Need, Use, Free, Save, Call
<1>7. EndsClean(P)
  <2>1. Len(P) = 4
    BY <1>1
  <2> QED
    BY <1>2, <1>3, <1>4, <2>1 DEF EndsClean, Clean, PairToo, Leaked, Earlier
<1>8. SavesRight(P)
  BY <1>1, Places DEF SavesRight, FirstSave, Creates, Converting, Converts, KeyFile, CertFile,
     DerFile, Get, Take, Must, Need, Use, Free, Save, Call
<1> QED
  <2>1. Len(P) = 4
    BY <1>1
  <2> QED
    BY <2>1, <1>5, <1>6, <1>7, <1>8 DEF Sound

LEMMA Der2PemSound ==
  ASSUME ceJob.tool = "convert_cert", ceJob.a = "der", ceJob.b = "pem", NEW P, P = Program
  PROVE  Sound(P)
<1>1. /\ Len(P) = 8
      /\ P[1] = Must({}, {}) /\ P[2] = Get("pFile", {}, {}) /\ P[3] = Get("pBuf", {}, {"pFile"})
      /\ P[4] = Free({"pFile"}) /\ P[5] = Get("bio", {"pBuf"}, {}) /\ P[6] = Get("x509", {"bio"}, {"bio"})
      /\ P[7] = Save("new_pem", "cert", {"x509"}, {"bio", "x509"}) /\ P[8] = Free({"bio", "x509"})
  BY DEF Program, ConvertCert, der2pem
<1>2. /\ \A n \in 1..8 : P[n].kind = "free" <=> n \in {4, 8}
      /\ \A n \in 1..8 : P[n].kind \in {"get", "take"} <=> n \in {2, 3, 5, 6}
      /\ \A n \in 1..8 : P[n].kind = "assign" <=> n \in {}
  BY Places, <1>1 DEF Get, Take, Must, Need, Use, Free, Save, Call
<1>3. \A k \in 1..9 : Gone(P, k) =
                        (IF k > 4 THEN {"pFile"} ELSE {})
                        \cup (IF k > 8 THEN {"bio", "x509"} ELSE {})
  BY <1>1, <1>2 DEF Gone, Earlier, Get, Take, Must, Need, Use, Free, Save, Call
<1>4. \A k \in 1..9 : Held(P, k) =
                        (IF k > 2 THEN {"pFile"} ELSE {}) \cup (IF k > 3 THEN {"pBuf"} ELSE {})
                        \cup (IF k > 5 THEN {"bio"} ELSE {}) \cup (IF k > 6 THEN {"x509"} ELSE {})
  BY <1>1, <1>2 DEF Held, Earlier, Get, Take, Must, Need, Use, Free, Save, Call
<1>5. \A k \in 1..8 : FreedOnce(P, k)
  BY <1>1, <1>2, <1>3, Places DEF FreedOnce, Earlier, Get, Take, Must, Need, Use, Free, Save, Call
<1>6. \A k \in 1..8 : FailsClean(P, k)
  BY <1>1, <1>2, <1>3, <1>4, Places DEF FailsClean, MayFail, Clean, PairToo, Leaked, Earlier, Get,
     Take, Must, Need, Use, Free, Save, Call
<1>7. EndsClean(P)
  <2>1. Len(P) = 8
    BY <1>1
  <2> QED
    BY <1>2, <1>3, <1>4, <2>1 DEF EndsClean, Clean, PairToo, Leaked, Earlier
<1>8. SavesRight(P)
  BY <1>1, Places DEF SavesRight, FirstSave, Creates, Converting, Converts, KeyFile, CertFile,
     DerFile, Get, Take, Must, Need, Use, Free, Save, Call
<1> QED
  <2>1. Len(P) = 8
    BY <1>1
  <2> QED
    BY <2>1, <1>5, <1>6, <1>7, <1>8 DEF Sound

LEMMA GetPriKeySound ==
  ASSUME ceJob.tool = "get_prikey", NEW P, P = Program
  PROVE  Sound(P)
<1>1. /\ Len(P) = 9
      /\ P[1] = Get("pFile", {}, {}) /\ P[2] = Take("pPriKey", {"pFile"}) /\ P[3] = Free({"pFile"})
      /\ P[4] = Need("pPriKey") /\ P[5] = Take("pRsa", {"pPriKey"}) /\ P[6] = Free({"pPriKey"})
      /\ P[7] = Need("pRsa") /\ P[8] = Must({"pRsa"}, {}) /\ P[9] = Free({"pRsa"})
  BY DEF Program, GetPriKey
<1>2. /\ \A n \in 1..9 : P[n].kind = "free" <=> n \in {3, 6, 9}
      /\ \A n \in 1..9 : P[n].kind \in {"get", "take"} <=> n \in {1, 2, 5}
      /\ \A n \in 1..9 : P[n].kind = "assign" <=> n \in {}
  BY Places, <1>1 DEF Get, Take, Must, Need, Use, Free, Save, Call
<1>3. \A k \in 1..10 : Gone(P, k) =
                         (IF k > 3 THEN {"pFile"} ELSE {})
                         \cup (IF k > 6 THEN {"pPriKey"} ELSE {})
                         \cup (IF k > 9 THEN {"pRsa"} ELSE {})
  BY <1>1, <1>2 DEF Gone, Earlier, Get, Take, Must, Need, Use, Free, Save, Call
<1>4. \A k \in 1..10 : Held(P, k) =
                         (IF k > 1 THEN {"pFile"} ELSE {})
                         \cup (IF k > 2 THEN {"pPriKey"} ELSE {})
                         \cup (IF k > 5 THEN {"pRsa"} ELSE {})
  BY <1>1, <1>2 DEF Held, Earlier, Get, Take, Must, Need, Use, Free, Save, Call
<1>5. \A k \in 1..9 : FreedOnce(P, k)
  BY <1>1, <1>2, <1>3, Places DEF FreedOnce, Earlier, Get, Take, Must, Need, Use, Free, Save, Call
<1>6. \A k \in 1..9 : FailsClean(P, k)
  BY <1>1, <1>2, <1>3, <1>4, Places DEF FailsClean, MayFail, Clean, PairToo, Leaked, Earlier, Get,
     Take, Must, Need, Use, Free, Save, Call
<1>7. EndsClean(P)
  <2>1. Len(P) = 9
    BY <1>1
  <2> QED
    BY <1>2, <1>3, <1>4, <2>1 DEF EndsClean, Clean, PairToo, Leaked, Earlier
<1>8. SavesRight(P)
  BY <1>1, Places DEF SavesRight, FirstSave, Creates, Converting, Converts, KeyFile, CertFile,
     DerFile, Get, Take, Must, Need, Use, Free, Save, Call
<1> QED
  <2>1. Len(P) = 9
    BY <1>1
  <2> QED
    BY <2>1, <1>5, <1>6, <1>7, <1>8 DEF Sound

LEMMA GetPubKeyDerSound ==
  ASSUME ceJob.tool = "get_pubkey", ceJob.a = "der", NEW P, P = Program
  PROVE  Sound(P)
<1>1. /\ Len(P) = 9
      /\ P[1] = Must({}, EXIT_DER) /\ P[2] = Get("pFile", {}, EXIT_DER) /\ P[3] = Get("pBuf", {}, EXIT_DER)
      /\ P[4] = Get("pX509", {}, EXIT_DER) /\ P[5] = Call("parse", "pX509", {"pBuf"}, {})
      /\ P[6] = Get("pPubKey", {"pX509"}, EXIT_DER) /\ P[7] = Get("pRsa", {"pPubKey"}, EXIT_DER)
      /\ P[8] = Use({"pRsa"}) /\ P[9] = Free(EXIT_DER)
  BY DEF Program, GetPubKey
<1>2. /\ \A n \in 1..9 : P[n].kind = "free" <=> n \in {9}
      /\ \A n \in 1..9 : P[n].kind \in {"get", "take"} <=> n \in {2, 3, 4, 6, 7}
      /\ \A n \in 1..9 : P[n].kind = "assign" <=> n \in {}
  BY Places, <1>1 DEF Get, Take, Must, Need, Use, Free, Save, Call
<1>3. \A k \in 1..10 : Gone(P, k) = (IF k > 9 THEN EXIT_DER ELSE {})
  BY <1>1, <1>2 DEF Gone, Earlier, Get, Take, Must, Need, Use, Free, Save, Call
<1>4. \A k \in 1..10 : Held(P, k) =
                         (IF k > 2 THEN {"pFile"} ELSE {}) \cup (IF k > 3 THEN {"pBuf"} ELSE {})
                         \cup (IF k > 4 THEN {"pX509"} ELSE {})
                         \cup (IF k > 6 THEN {"pPubKey"} ELSE {})
                         \cup (IF k > 7 THEN {"pRsa"} ELSE {})
  BY <1>1, <1>2 DEF Held, Earlier, Get, Take, Must, Need, Use, Free, Save, Call
<1>5. \A k \in 1..9 : FreedOnce(P, k)
  BY <1>1, <1>2, <1>3, Places DEF FreedOnce, Earlier, Get, Take, Must, Need, Use, Free, Save,
     Call, EXIT_DER
<1>6. \A k \in 1..9 : FailsClean(P, k)
  BY <1>1, <1>2, <1>3, <1>4, Places DEF FailsClean, MayFail, Clean, PairToo, Leaked, Earlier, Get,
     Take, Must, Need, Use, Free, Save, Call, EXIT_DER
<1>7. EndsClean(P)
  <2>1. Len(P) = 9
    BY <1>1
  <2> QED
    BY <1>2, <1>3, <1>4, <2>1 DEF EndsClean, Clean, PairToo, Leaked, Earlier, EXIT_DER
<1>8. SavesRight(P)
  BY <1>1, Places DEF SavesRight, FirstSave, Creates, Converting, Converts, KeyFile, CertFile,
     DerFile, Get, Take, Must, Need, Use, Free, Save, Call
<1> QED
  <2>1. Len(P) = 9
    BY <1>1
  <2> QED
    BY <2>1, <1>5, <1>6, <1>7, <1>8 DEF Sound

LEMMA GetPubKeyPemSound ==
  ASSUME ceJob.tool = "get_pubkey", ceJob.a = "pem", NEW P, P = Program
  PROVE  Sound(P)
<1>1. /\ Len(P) = 6
      /\ P[1] = Take("pCert", {}) /\ P[2] = Must({"pCert"}, EXIT_PEM) /\ P[3] = Get("pX509", {"pCert"}, EXIT_PEM)
      /\ P[4] = Get("pPubKey", {"pX509"}, EXIT_PEM) /\ P[5] = Use({"pPubKey"}) /\ P[6] = Free(EXIT_PEM)
  BY DEF Program, GetPubKey
<1>2. /\ \A n \in 1..6 : P[n].kind = "free" <=> n \in {6}
      /\ \A n \in 1..6 : P[n].kind \in {"get", "take"} <=> n \in {1, 3, 4}
      /\ \A n \in 1..6 : P[n].kind = "assign" <=> n \in {}
  BY Places, <1>1 DEF Get, Take, Must, Need, Use, Free, Save, Call
<1>3. \A k \in 1..7 : Gone(P, k) = (IF k > 6 THEN EXIT_PEM ELSE {})
  BY <1>1, <1>2 DEF Gone, Earlier, Get, Take, Must, Need, Use, Free, Save, Call
<1>4. \A k \in 1..7 : Held(P, k) =
                        (IF k > 1 THEN {"pCert"} ELSE {}) \cup (IF k > 3 THEN {"pX509"} ELSE {})
                        \cup (IF k > 4 THEN {"pPubKey"} ELSE {})
  BY <1>1, <1>2 DEF Held, Earlier, Get, Take, Must, Need, Use, Free, Save, Call
<1>5. \A k \in 1..6 : FreedOnce(P, k)
  BY <1>1, <1>2, <1>3, Places DEF FreedOnce, Earlier, Get, Take, Must, Need, Use, Free, Save,
     Call, EXIT_PEM
<1>6. \A k \in 1..6 : FailsClean(P, k)
  BY <1>1, <1>2, <1>3, <1>4, Places DEF FailsClean, MayFail, Clean, PairToo, Leaked, Earlier, Get,
     Take, Must, Need, Use, Free, Save, Call, EXIT_PEM
<1>7. EndsClean(P)
  <2>1. Len(P) = 6
    BY <1>1
  <2> QED
    BY <1>2, <1>3, <1>4, <2>1 DEF EndsClean, Clean, PairToo, Leaked, Earlier, EXIT_PEM
<1>8. SavesRight(P)
  BY <1>1, Places DEF SavesRight, FirstSave, Creates, Converting, Converts, KeyFile, CertFile,
     DerFile, Get, Take, Must, Need, Use, Free, Save, Call
<1> QED
  <2>1. Len(P) = 6
    BY <1>1
  <2> QED
    BY <2>1, <1>5, <1>6, <1>7, <1>8 DEF Sound

LEMMA VerifyDerSound ==
  ASSUME ceJob.tool = "verify_der", NEW P, P = Program
  PROVE  Sound(P)
<1>1. /\ Len(P) = 17
      /\ P[1] = Get("fp_user", {}, {}) /\ P[2] = Must({"fp_user"}, {"fp_user"})
      /\ P[3] = Get("fp_root", {}, {"fp_user"}) /\ P[4] = Must({"fp_root"}, {"fp_user", "fp_root"})
      /\ P[5] = Take("fcert_user", {}) /\ P[6] = Use({"fcert_user", "fp_user"}) /\ P[7] = Free({"fp_user"})
      /\ P[8] = Take("fcert_root", {}) /\ P[9] = Use({"fcert_root", "fp_root"}) /\ P[10] = Free({"fp_root"})
      /\ P[11] = Get("bio_user", {"fcert_user"}, {}) /\ P[12] = Get("bio_root", {"fcert_root"}, {})
      /\ P[13] = Get("x509_user", {"bio_user"}, {}) /\ P[14] = Get("x509_root", {"bio_root"}, {})
      /\ P[15] = Get("pkey_root", {"x509_root"}, {}) /\ P[16] = Use({"x509_user", "pkey_root"}) /\ P[17] = Free({})
  BY DEF Program, VerifyDer, ERROR_EXIT
<1>2. /\ \A n \in 1..17 : P[n].kind = "free" <=> n \in {7, 10, 17}
      /\ \A n \in 1..17 : P[n].kind \in {"get", "take"} <=> n \in {1, 3, 5, 8, 11, 12, 13, 14, 15}
      /\ \A n \in 1..17 : P[n].kind = "assign" <=> n \in {}
  BY Places, <1>1 DEF Get, Take, Must, Need, Use, Free, Save, Call
<1>3. \A k \in 1..18 : Gone(P, k) =
                         (IF k > 7 THEN {"fp_user"} ELSE {})
                         \cup (IF k > 10 THEN {"fp_root"} ELSE {})
  BY <1>1, <1>2 DEF Gone, Earlier, Get, Take, Must, Need, Use, Free, Save, Call
<1>4. \A k \in 1..18 : Held(P, k) =
                         (IF k > 1 THEN {"fp_user"} ELSE {})
                         \cup (IF k > 3 THEN {"fp_root"} ELSE {})
                         \cup (IF k > 5 THEN {"fcert_user"} ELSE {})
                         \cup (IF k > 8 THEN {"fcert_root"} ELSE {})
                         \cup (IF k > 11 THEN {"bio_user"} ELSE {})
                         \cup (IF k > 12 THEN {"bio_root"} ELSE {})
                         \cup (IF k > 13 THEN {"x509_user"} ELSE {})
                         \cup (IF k > 14 THEN {"x509_root"} ELSE {})
                         \cup (IF k > 15 THEN {"pkey_root"} ELSE {})
  BY <1>1, <1>2 DEF Held, Earlier, Get, Take, Must, Need, Use, Free, Save, Call
<1>5. \A k \in 1..17 : FreedOnce(P, k)
  BY <1>1, <1>2, <1>3, Places DEF FreedOnce, Earlier, Get, Take, Must, Need, Use, Free, Save, Call
<1>6. \A k \in 1..17 : FailsClean(P, k)
  BY <1>1, <1>2, <1>3, <1>4, Places DEF FailsClean, MayFail, Clean, PairToo, Leaked, Earlier, Get,
     Take, Must, Need, Use, Free, Save, Call
<1>7. EndsClean(P)
  <2>1. Len(P) = 17
    BY <1>1
  <2> QED
    BY <1>2, <1>3, <1>4, <2>1 DEF EndsClean, Clean, PairToo, Leaked, Earlier
<1>8. SavesRight(P)
  BY <1>1, Places DEF SavesRight, FirstSave, Creates, Converting, Converts, KeyFile, CertFile,
     DerFile, Get, Take, Must, Need, Use, Free, Save, Call
<1> QED
  <2>1. Len(P) = 17
    BY <1>1
  <2> QED
    BY <2>1, <1>5, <1>6, <1>7, <1>8 DEF Sound

LEMMA VerifyPemSound ==
  ASSUME ceJob.tool = "verify_pem", NEW P, P = Program
  PROVE  Sound(P)
<1>1. /\ Len(P) = 10
      /\ P[1] = Take("fcert1", {}) /\ P[2] = Take("fcert2", {}) /\ P[3] = Take("x1", {"fcert1"})
      /\ P[4] = Take("x2", {"fcert2"}) /\ P[5] = Use({"x1"}) /\ P[6] = Use({"x2"}) /\ P[7] = Take("k1", {"x1"})
      /\ P[8] = Take("k2", {"x2"}) /\ P[9] = Use({"x1", "x2"})
      /\ P[10] = Free({"k1", "k2", "x1", "x2", "fcert1", "fcert2"})
  BY DEF Program, VerifyPem
<1>2. /\ \A n \in 1..10 : P[n].kind = "free" <=> n \in {10}
      /\ \A n \in 1..10 : P[n].kind \in {"get", "take"} <=> n \in {1, 2, 3, 4, 7, 8}
      /\ \A n \in 1..10 : P[n].kind = "assign" <=> n \in {}
  BY Places, <1>1 DEF Get, Take, Must, Need, Use, Free, Save, Call
<1>3. \A k \in 1..11 : Gone(P, k) = (IF k > 10 THEN {"k1", "k2", "x1", "x2", "fcert1", "fcert2"} ELSE {})
  BY <1>1, <1>2 DEF Gone, Earlier, Get, Take, Must, Need, Use, Free, Save, Call
<1>4. \A k \in 1..11 : Held(P, k) =
                         (IF k > 1 THEN {"fcert1"} ELSE {})
                         \cup (IF k > 2 THEN {"fcert2"} ELSE {})
                         \cup (IF k > 3 THEN {"x1"} ELSE {}) \cup (IF k > 4 THEN {"x2"} ELSE {})
                         \cup (IF k > 7 THEN {"k1"} ELSE {}) \cup (IF k > 8 THEN {"k2"} ELSE {})
  BY <1>1, <1>2 DEF Held, Earlier, Get, Take, Must, Need, Use, Free, Save, Call
<1>5. \A k \in 1..10 : FreedOnce(P, k)
  BY <1>1, <1>2, <1>3, Places DEF FreedOnce, Earlier, Get, Take, Must, Need, Use, Free, Save, Call
<1>6. \A k \in 1..10 : FailsClean(P, k)
  BY <1>1, <1>2, <1>3, <1>4, Places DEF FailsClean, MayFail, Clean, PairToo, Leaked, Earlier, Get,
     Take, Must, Need, Use, Free, Save, Call
<1>7. EndsClean(P)
  <2>1. Len(P) = 10
    BY <1>1
  <2> QED
    BY <1>2, <1>3, <1>4, <2>1 DEF EndsClean, Clean, PairToo, Leaked, Earlier
<1>8. SavesRight(P)
  BY <1>1, Places DEF SavesRight, FirstSave, Creates, Converting, Converts, KeyFile, CertFile,
     DerFile, Get, Take, Must, Need, Use, Free, Save, Call
<1> QED
  <2>1. Len(P) = 10
    BY <1>1
  <2> QED
    BY <2>1, <1>5, <1>6, <1>7, <1>8 DEF Sound

LEMMA CallExtension ==
  ASSUME NEW P, P = <<Use({"extension"})>> \/ P = <<>>, ~Creates, ~Converting
  PROVE  Sound(P)
<1>1. Len(P) \in {0, 1} /\ \A k \in 1..Len(P) : P[k].kind = "use" /\ P[k].uses = {"extension"} /\ P[k].undo = {}
  BY DEF Use, Call
<1>2. \A k \in 1..Len(P) + 1 : Gone(P, k) = {} /\ Held(P, k) = {} /\ Earlier(P, k, {"assign"}) = {}
  BY <1>1 DEF Gone, Held, Earlier
<1> QED
  BY <1>1, <1>2 DEF Sound, FreedOnce, FailsClean, EndsClean, Clean, PairToo, MayFail, SavesRight

(* The list of every program is sound.                                     *)
LEMMA ProgramSound ==
  ASSUME CertInputsOK, ceJob \in CertJobs
  PROVE  Sound(Program)
<1>1. ceJob.root \in BOOLEAN
  BY DEF CertInputsOK
<1>2. CASE ceJob.tool = "create_cert"
  BY <1>1, <1>2, CreateRootFilesSound, CreateRootSound, CreateFilesSound, CreateOnlySound
<1>3. CASE ceJob.tool = "convert_cert"
  <2>1. CASE ceJob.a = "none" \/ (ceJob.a \in {"der", "pem"} /\ ceJob.b = "none")
    BY <1>3, <2>1, CallExtension DEF Program, ConvertCert, Creates, Converting, Converts
  <2>2. CASE (ceJob.a = "der" /\ ceJob.b = "pem") \/ (ceJob.a = "pem" /\ ceJob.b = "der")
    BY <1>3, <2>2, Der2PemSound, Pem2DerSound
  <2>3. CASE /\ ceJob.a # "none" /\ ~(ceJob.a \in {"der", "pem"} /\ ceJob.b = "none")
             /\ ~(ceJob.a = "der" /\ ceJob.b = "pem") /\ ~(ceJob.a = "pem" /\ ceJob.b = "der")
    BY <1>3, <2>3, CallExtension DEF Program, ConvertCert, Creates, Converting, Converts
  <2> QED
    BY <2>1, <2>2, <2>3
<1>4. CASE ceJob.tool = "get_pubkey"
  <2>1. CASE ceJob.a = "none"
    BY <1>4, <2>1, CallExtension DEF Program, GetPubKey, Creates, Converting, Converts
  <2>2. CASE ceJob.a \in {"der", "pem"}
    BY <1>4, <2>2, GetPubKeyDerSound, GetPubKeyPemSound
  <2>3. CASE ceJob.a \notin {"none", "der", "pem"}
    BY <1>4, <2>3, CallExtension DEF Program, GetPubKey, Creates, Converting, Converts
  <2> QED
    BY <2>1, <2>2, <2>3
<1> QED
  BY <1>2, <1>3, <1>4, GetPriKeySound, VerifyDerSound, VerifyPemSound DEF CertInputsOK
-----------------------------------------------------------------------------
(* A run of a program with a sound list. *)

LEMMA NextCall ==
  ASSUME NEW P, Len(P) \in Nat, NEW k \in 1..Len(P)
  PROVE  /\ P[k].kind # "assign" => Earlier(P, k + 1, {"assign"}) = Earlier(P, k, {"assign"})
         /\ P[k].kind = "assign" => Earlier(P, k + 1, {"assign"}) # {}
         /\ P[k].kind = "free" => Gone(P, k + 1) = Gone(P, k) \cup P[k].undo
         /\ P[k].kind # "free" => Gone(P, k + 1) = Gone(P, k)
<1>1. \A n \in 1..Len(P) : n < k + 1 <=> n < k \/ n = k
  OBVIOUS
<1>2. P[k].kind # "assign" => Earlier(P, k + 1, {"assign"}) = Earlier(P, k, {"assign"})
  BY <1>1 DEF Earlier
<1>3. P[k].kind = "assign" => k \in Earlier(P, k + 1, {"assign"})
  BY <1>1 DEF Earlier
<1>4. P[k].kind = "free" => Earlier(P, k + 1, {"free"}) = Earlier(P, k, {"free"}) \cup {k}
  BY <1>1 DEF Earlier
<1>5. P[k].kind # "free" => Earlier(P, k + 1, {"free"}) = Earlier(P, k, {"free"})
  BY <1>1 DEF Earlier
<1> QED
  BY <1>2, <1>3, <1>4, <1>5 DEF Gone

LEMMA NextHeld ==
  ASSUME NEW P, Len(P) \in Nat, NEW k \in 1..Len(P)
  PROVE  /\ P[k].kind \in {"get", "take"} /\ (P[k].var = "pKeyPair" => Earlier(P, k, {"assign"}) = {}) =>
              Held(P, k + 1) = Held(P, k) \cup {P[k].var}
         /\ P[k].kind = "assign" => Held(P, k) \ {"pKeyPair"} \subseteq Held(P, k + 1)
         /\ P[k].kind \notin {"get", "take", "assign"} => Held(P, k) = Held(P, k + 1)
<1>1. \A n \in 1..Len(P) : n < k + 1 <=> n < k \/ n = k
  OBVIOUS
<1>2. CASE P[k].kind \in {"get", "take"}
  <2>1. Earlier(P, k + 1, {"assign"}) = Earlier(P, k, {"assign"})
    BY <1>1, <1>2 DEF Earlier
  <2>2. Earlier(P, k + 1, {"get", "take"}) = Earlier(P, k, {"get", "take"}) \cup {k}
    BY <1>1, <1>2 DEF Earlier
  <2> QED
    BY <1>2, <2>1, <2>2 DEF Held
<1>3. CASE P[k].kind = "assign"
  <2>1. Earlier(P, k + 1, {"get", "take"}) = Earlier(P, k, {"get", "take"})
    BY <1>1, <1>3 DEF Earlier
  <2> QED
    BY <1>3, <2>1 DEF Held
<1>4. CASE P[k].kind \notin {"get", "take", "assign"}
  <2>1. /\ Earlier(P, k + 1, {"get", "take"}) = Earlier(P, k, {"get", "take"})
        /\ Earlier(P, k + 1, {"assign"}) = Earlier(P, k, {"assign"})
    BY <1>1, <1>4 DEF Earlier
  <2> QED
    BY <1>4, <2>1 DEF Held
<1> QED
  BY <1>2, <1>3, <1>4

(* The condition on which a program can be at a call, and after its end.   *)
AtCall ==
  /\ ptr \subseteq Held(Program, ceAt) /\ "inKey" \notin ptr
  /\ alive \ {"inKey"} = ptr \ Gone(Program, ceAt)
  /\ "inKey" \in alive => Earlier(Program, ceAt, {"assign"}) # {} /\ "pPriKeyNew" \notin Gone(Program, ceAt)
CertInv ==
  /\ ceJob \in CertJobs /\ ceAt \in 1..Len(Program) + 1 /\ ~misused
  /\ ceEnd = "no" => AtCall
  /\ ceEnd \in {"failed", "done"} => alive = LeftBehind

LEMMA CertInitInv == CertInputsOK /\ CertInit => CertInv
<1> SUFFICES ASSUME CertInputsOK, CertInit PROVE CertInv
  OBVIOUS
<1>1. Len(Program) \in Nat
  BY ProgramSound DEF Sound, CertInit
<1>2. Earlier(Program, 1, {"free"}) = {} /\ Earlier(Program, 1, {"assign"}) = {}
  BY <1>1 DEF Earlier
<1> QED
  BY <1>1, <1>2 DEF CertInit, CertInv, AtCall, Gone

LEMMA LeftIsLeaked ==
  ASSUME CertInputsOK, ceJob \in CertJobs
  PROVE  LeftBehind = {x \in ptr : Leaked(x, ceEnd)}
BY DEF CertInputsOK, LeftBehind, Leaked

(* What is left when a clean call ends the program.                        *)
LEMMA CleanEnd ==
  ASSUME NEW held, NEW gone, NEW end, Clean(held, gone, end), ptr \subseteq held
  PROVE  ptr \ gone = {x \in ptr : Leaked(x, end)}
BY DEF Clean

LEMMA SameProgram == UNCHANGED ceJob => Program' = Program
BY DEF Program, CreateCert, ConvertCert, GetPubKey

(* What every step starts from.                                            *)
LEMMA CallIsSound ==
  ASSUME CertInputsOK, CertInv, ceEnd = "no", ceAt \in 1..Len(Program)
  PROVE  /\ AtCall /\ FreedOnce(Program, ceAt) /\ FailsClean(Program, ceAt)
         /\ Step.uses \cap ptr \subseteq alive /\ Step.undo \cap ptr \subseteq alive
<1>1. Sound(Program) /\ AtCall
  BY ProgramSound DEF CertInv
<1>2. FreedOnce(Program, ceAt) /\ FailsClean(Program, ceAt)
  BY <1>1 DEF Sound
<1> QED
  BY <1>1, <1>2 DEF AtCall, FreedOnce, Step

(* A program that goes on.                                                 *)
LEMMA GoesOn ==
  ASSUME CertInputsOK, CertInv, ceEnd = "no", ceAt \in 1..Len(Program), UNCHANGED ceJob, Proceed,
         misused' = FALSE, AtCall'
  PROVE  CertInv'
BY SameProgram, ProgramSound DEF CertInv, Proceed, Sound

(* A call gives back what it says, and a key what it was given.            *)
LEMMA ReleaseIsRight ==
  ASSUME CertInputsOK, CertInv, ceEnd = "no", ceAt \in 1..Len(Program), Release(Step.undo)
  PROVE  /\ misused' = FALSE
         /\ alive' \ {"inKey"} = ptr \ (Step.undo \cup Gone(Program, ceAt))
         /\ "inKey" \in alive' => "inKey" \in alive /\ "pPriKeyNew" \notin Step.undo
<1>1. AtCall /\ "inKey" \notin Step.undo /\ Step.uses \cap ptr \subseteq alive /\ Step.undo \cap ptr \subseteq alive
  BY CallIsSound DEF FreedOnce, Step
<1>2. GivenBack(Step.undo) \subseteq alive
  BY <1>1 DEF GivenBack
<1>3. misused = FALSE
  BY DEF CertInv
<1>4. misused' = FALSE
  BY <1>1, <1>2, <1>3 DEF Release
<1>5. alive' = alive \ GivenBack(Step.undo)
  BY DEF Release
<1>6. alive' \ {"inKey"} = (alive \ {"inKey"}) \ Step.undo
  BY <1>1, <1>5 DEF GivenBack, AtCall
<1> QED
  BY <1>1, <1>4, <1>5, <1>6 DEF GivenBack, AtCall

(* A call that fails leaves the known leaks.                               *)
LEMMA FailureIsClean ==
  ASSUME CertInputsOK, CertInv, ceEnd = "no", ceAt \in 1..Len(Program), MayFail(Step),
         Release(Step.undo), GiveUp, UNCHANGED <<ceJob, ptr>>
  PROVE  CertInv'
<1> DEFINE gone == Step.undo \cup Gone(Program, ceAt)
<1>1. AtCall /\ Clean(Held(Program, ceAt), gone, "failed") /\ PairToo(Program, ceAt, gone)
  BY CallIsSound DEF FailsClean, Step
<1>2. misused' = FALSE /\ alive' \ {"inKey"} = ptr \ gone
  BY ReleaseIsRight
<1>3. "inKey" \notin alive'
  BY <1>1, ReleaseIsRight DEF PairToo, AtCall
<1>4. ptr \ gone = {x \in ptr : Leaked(x, "failed")}
  BY <1>1, CleanEnd DEF AtCall
<1>5. LeftBehind' = {x \in ptr : Leaked(x, "failed")}
  BY DEF LeftBehind, Leaked, GiveUp, CertInv, CertInputsOK
<1> QED
  BY <1>2, <1>3, <1>4, <1>5, SameProgram DEF CertInv, GiveUp

LEMMA CertNextInv == CertInputsOK /\ CertInv /\ [CertNext]_ceVars => CertInv'
<1> SUFFICES ASSUME CertInputsOK, CertInv, [CertNext]_ceVars PROVE CertInv'
  OBVIOUS
<1> DEFINE k == ceAt
<1>0. Sound(Program) /\ Len(Program) \in Nat
  BY ProgramSound DEF CertInv, Sound
<1>a. ASSUME NEW kinds, Reached(kinds)
      PROVE  ceEnd = "no" /\ ceAt \in 1..Len(Program) /\ Step.kind \in kinds
  BY <1>0, <1>a DEF Reached, Step, CertInv
<1>1. CASE Works
  <2>1. ceEnd = "no" /\ k \in 1..Len(Program) /\ Step.kind \in {"get", "take", "check"}
    BY <1>1, <1>a DEF Works
  <2>2. AtCall /\ FreedOnce(Program, k) /\ Step.uses \cap ptr \subseteq alive
    BY <2>1, CallIsSound
  <2>3. misused' = FALSE /\ UNCHANGED ceJob /\ Proceed
    BY <1>1, <2>2 DEF Works, Uses, NoOutput, CertInv
  <2>4. /\ Gone(Program, k + 1) = Gone(Program, k)
        /\ Earlier(Program, k + 1, {"assign"}) = Earlier(Program, k, {"assign"})
    BY <1>0, <2>1, NextCall DEF Step
  <2>5. CASE Step.kind = "check"
    <3>1. ptr' = ptr /\ alive' = alive
      BY <1>1, <2>5 DEF Works
    <3>2. Held(Program, k) = Held(Program, k + 1)
      BY <1>0, <2>1, <2>5, NextHeld DEF Step
    <3>3. AtCall'
      BY <2>2, <2>3, <2>4, <3>1, <3>2, SameProgram DEF AtCall, Proceed
    <3> QED
      BY <2>1, <2>3, <3>3, GoesOn
  <2>6. CASE Step.kind \in {"get", "take"}
    <3>1. ptr' = ptr \cup {Step.var} /\ alive' = alive \cup {Step.var}
      BY <1>1, <2>6 DEF Works
    <3>2. Held(Program, k + 1) = Held(Program, k) \cup {Step.var}
      BY <1>0, <2>1, <2>2, <2>6, NextHeld DEF Step, FreedOnce
    <3>3. Step.var \notin Gone(Program, k) /\ Step.var # "inKey"
      BY <2>2, <2>6 DEF FreedOnce, Step
    <3>4. AtCall'
      BY <2>2, <2>3, <2>4, <3>1, <3>2, <3>3, SameProgram DEF AtCall, Proceed
    <3> QED
      BY <2>1, <2>3, <3>4, GoesOn
  <2> QED
    BY <2>1, <2>5, <2>6
<1>2. CASE Fails
  <2>1. ceEnd = "no" /\ k \in 1..Len(Program) /\ Step.kind \in {"get", "check", "assign"}
    BY <1>2, <1>a DEF Fails
  <2> QED
    BY <1>2, <2>1, FailureIsClean DEF Fails, MayFail, NoOutput
<1>3. CASE FailsUnseen
  <2>1. ceEnd = "no" /\ k \in 1..Len(Program) /\ Step.kind = "take"
    BY <1>3, <1>a DEF FailsUnseen
  <2>2. AtCall /\ FreedOnce(Program, k) /\ Step.uses \cap ptr \subseteq alive
    BY <2>1, CallIsSound
  <2>3. misused' = FALSE /\ UNCHANGED <<ceJob, ptr, alive>> /\ Proceed
    BY <1>3, <2>2 DEF FailsUnseen, Uses, NoOutput, CertInv
  <2>4. /\ Gone(Program, k + 1) = Gone(Program, k)
        /\ Earlier(Program, k + 1, {"assign"}) = Earlier(Program, k, {"assign"})
    BY <1>0, <2>1, NextCall DEF Step
  <2>5. Held(Program, k) \subseteq Held(Program, k + 1)
    BY <1>0, <2>1, <2>2, NextHeld DEF Step, FreedOnce
  <2>6. AtCall'
    BY <2>2, <2>3, <2>4, <2>5, SameProgram DEF AtCall, Proceed
  <2> QED
    BY <2>1, <2>3, <2>6, GoesOn
<1>b. ASSUME ceEnd = "no", k \in 1..Len(Program), Step.kind \notin {"get", "take", "assign", "free"},
             misused' = FALSE, UNCHANGED ceJob, Proceed,
             ptr' \subseteq ptr, alive' \ {"inKey"} = ptr' \ Gone(Program, k), "inKey" \in alive' => "inKey" \in alive
      PROVE  CertInv'
  <2>1. AtCall
    BY <1>b, CallIsSound
  <2>2. /\ Gone(Program, k + 1) = Gone(Program, k)
        /\ Earlier(Program, k + 1, {"assign"}) = Earlier(Program, k, {"assign"})
    BY <1>0, <1>b, NextCall DEF Step
  <2>3. Held(Program, k) = Held(Program, k + 1)
    BY <1>0, <1>b, NextHeld DEF Step
  <2>4. AtCall'
    BY <1>b, <2>1, <2>2, <2>3, SameProgram DEF AtCall, Proceed
  <2> QED
    BY <1>b, <2>4, GoesOn
<1>4. CASE TestPointer
  <2>1. ceEnd = "no" /\ k \in 1..Len(Program) /\ Step.kind = "need"
    BY <1>4, <1>a DEF TestPointer
  <2>2. AtCall /\ FailsClean(Program, k) /\ UNCHANGED <<ptr, alive, misused, ceJob>>
    BY <1>4, <2>1, CallIsSound DEF TestPointer, NoOutput
  <2>3. CASE Step.var \in ptr
    <3>1. Proceed
      BY <1>4, <2>3 DEF TestPointer
    <3>2. misused' = FALSE
      BY <2>2 DEF CertInv
    <3> QED
      BY <1>b, <2>1, <2>2, <3>1, <3>2 DEF AtCall
  <2>4. CASE Step.var \notin ptr
    <3>1. GiveUp
      BY <1>4, <2>4 DEF TestPointer
    <3>2. Clean(Held(Program, k) \ {Step.var}, Gone(Program, k), "failed") /\ PairToo(Program, k, Gone(Program, k))
      BY <2>1, <2>2 DEF FailsClean, Step
    <3>3. ptr \ Gone(Program, k) = {x \in ptr : Leaked(x, "failed")}
      BY <2>2, <2>4, <3>2, CleanEnd DEF AtCall
    <3>4. LeftBehind' = {x \in ptr : Leaked(x, "failed")}
      BY <2>2, <3>1 DEF LeftBehind, Leaked, GiveUp, CertInv, CertInputsOK
    <3>5. "inKey" \notin alive
      BY <2>2, <3>2 DEF AtCall, PairToo
    <3> QED
      BY <2>2, <3>1, <3>3, <3>4, <3>5, SameProgram DEF CertInv, GiveUp, AtCall
  <2> QED
    BY <2>3, <2>4
<1>5. CASE UseObjects
  <2>1. ceEnd = "no" /\ k \in 1..Len(Program) /\ Step.kind = "use"
    BY <1>5, <1>a DEF UseObjects
  <2>2. AtCall /\ UNCHANGED <<ptr, alive, ceJob>> /\ misused' = FALSE
    BY <1>5, <2>1, CallIsSound DEF UseObjects, NoOutput, Uses, CertInv
  <2>3. CASE Proceed
    BY <1>b, <2>1, <2>2, <2>3 DEF AtCall
  <2>4. CASE ceAt' = ceAt /\ ceEnd' = "crashed"
    BY <2>2, <2>4, SameProgram DEF CertInv
  <2> QED
    BY <1>5, <2>3, <2>4 DEF UseObjects
<1>6. CASE FreeObjects
  <2>1. ceEnd = "no" /\ k \in 1..Len(Program) /\ Step.kind = "free" /\ Release(Step.undo)
        /\ UNCHANGED <<ptr, ceJob>> /\ Proceed
    BY <1>6, <1>a DEF FreeObjects, NoOutput
  <2>2. AtCall
    BY <2>1, CallIsSound
  <2>3. /\ Gone(Program, k + 1) = Gone(Program, k) \cup Step.undo
        /\ Earlier(Program, k + 1, {"assign"}) = Earlier(Program, k, {"assign"})
        /\ Held(Program, k) = Held(Program, k + 1)
    BY <1>0, <2>1, NextCall, NextHeld DEF Step
  <2>4. /\ misused' = FALSE /\ alive' \ {"inKey"} = ptr \ (Step.undo \cup Gone(Program, k))
        /\ "inKey" \in alive' => "inKey" \in alive /\ "pPriKeyNew" \notin Step.undo
    BY <2>1, ReleaseIsRight
  <2>5. AtCall'
    BY <2>1, <2>2, <2>3, <2>4, SameProgram DEF AtCall, Proceed
  <2> QED
    BY <2>1, <2>4, <2>5, GoesOn
<1>7. CASE AssignPair
  <2>1. ceEnd = "no" /\ k \in 1..Len(Program) /\ Step.kind = "assign" /\ UNCHANGED ceJob /\ Proceed
        /\ ptr' = ptr \ {"pKeyPair"} /\ alive' = (alive \ {"pKeyPair"}) \cup {"inKey"}
    BY <1>7, <1>a DEF AssignPair, ClearPair, NoOutput
  <2>2. AtCall /\ Step.uses \cap ptr \subseteq alive
    BY <2>1, CallIsSound
  <2>3. misused' = FALSE
    BY <1>7, <2>2 DEF AssignPair, Uses, CertInv
  <2>4. /\ Gone(Program, k + 1) = Gone(Program, k)
        /\ Earlier(Program, k + 1, {"assign"}) # {}
        /\ Held(Program, k) \ {"pKeyPair"} \subseteq Held(Program, k + 1)
    BY <1>0, <2>1, NextCall, NextHeld DEF Step
  <2>5. "pPriKeyNew" \notin Gone(Program, k)
    BY <2>1, <2>2, CallIsSound DEF FreedOnce, Step
  <2>6. AtCall'
    BY <2>1, <2>2, <2>4, <2>5, SameProgram DEF AtCall, Proceed
  <2> QED
    BY <2>1, <2>3, <2>6, GoesOn
<1>8. CASE ParseObject
  <2>1. ceEnd = "no" /\ k \in 1..Len(Program) /\ Step.kind = "parse" /\ UNCHANGED ceJob /\ Proceed
    BY <1>8, <1>a DEF ParseObject, NoOutput
  <2>2. AtCall /\ misused' = FALSE
    BY <1>8, <2>1, CallIsSound DEF ParseObject, Uses, CertInv
  <2> QED
    BY <1>8, <1>b, <2>1, <2>2 DEF ParseObject, AtCall
<1>9. CASE SaveItem
  <2>1. ceEnd = "no" /\ k \in 1..Len(Program) /\ Step.kind = "save" /\ UNCHANGED <<ceJob, ptr, alive>> /\ Proceed
    BY <1>9, <1>a DEF SaveItem
  <2>2. AtCall /\ misused' = FALSE
    BY <1>9, <2>1, CallIsSound DEF SaveItem, Uses, CertInv
  <2> QED
    BY <1>b, <2>1, <2>2 DEF AtCall
<1>10. CASE CannotOpen
  <2>1. ceEnd = "no" /\ k \in 1..Len(Program) /\ Step.kind = "save" /\ UNCHANGED <<ceJob, ptr>>
    BY <1>10, <1>a DEF CannotOpen
  <2>2. CASE ceJob.tool = "convert_cert"
    BY <1>10, <2>1, <2>2, FailureIsClean DEF CannotOpen, MayFail
  <2>3. CASE ceJob.tool # "convert_cert"
    <3>1. Proceed /\ UNCHANGED alive /\ misused' = FALSE
      BY <1>10, <2>3 DEF CannotOpen, CertInv
    <3> QED
      BY <1>b, <2>1, <3>1, CallIsSound DEF AtCall
  <2> QED
    BY <2>2, <2>3
<1>11. CASE ProgramEnds
  <2>1. ceEnd = "no" /\ k = Len(Program) + 1 /\ UNCHANGED <<ceJob, ceAt, ptr, alive, misused>> /\ ceEnd' = "done"
    BY <1>0, <1>11 DEF ProgramEnds, NoOutput, CertInv
  <2>2. AtCall
    BY <2>1 DEF CertInv
  <2>3. Clean(Held(Program, k), Gone(Program, k), "done") /\ PairToo(Program, k, Gone(Program, k))
    BY <1>0, <2>1 DEF Sound, EndsClean
  <2>4. ptr \ Gone(Program, k) = {x \in ptr : Leaked(x, "done")}
    BY <2>2, <2>3, CleanEnd DEF AtCall
  <2>5. LeftBehind' = {x \in ptr : Leaked(x, "done")}
    BY <2>1 DEF LeftBehind, Leaked, CertInv, CertInputsOK
  <2>6. "inKey" \notin alive
    BY <2>2, <2>3 DEF AtCall, PairToo
  <2> QED
    BY <2>1, <2>2, <2>4, <2>5, <2>6, SameProgram DEF CertInv, AtCall
<1>12. CASE UNCHANGED ceVars
  <2>1. UNCHANGED <<ceJob, ceAt, ceEnd, ptr, alive, misused>>
    BY <1>12 DEF ceVars
  <2>2. Program' = Program /\ LeftBehind' = LeftBehind /\ AtCall' = AtCall
    BY <2>1, SameProgram DEF LeftBehind, AtCall
  <2> QED
    BY <2>1, <2>2 DEF CertInv
<1> QED
  BY <1>1, <1>2, <1>3, <1>4, <1>5, <1>6, <1>7, <1>8, <1>9, <1>10, <1>11, <1>12 DEF CertNext

(* No step of a program breaks it: what is alive is what was given and not *)
(* given back, at every call of every program.                             *)
THEOREM CertsInvariant == CertSpec => []CertInv
<1>1. CertInit => CertInv
  BY CertInitInv, CertInputsOK
<1>2. CertInv /\ [CertNext]_ceVars => CertInv'
  BY CertNextInv, CertInputsOK
<1> QED
  BY <1>1, <1>2, PTL DEF CertSpec

-----------------------------------------------------------------------------
(* The output. *)

L == Len(Program)
(* What create_cert has made of the files when it is at a call.            *)
PemSoFar(old) == (IF ceAt > L - 3 /\ KeyFile \notin missed THEN StoredItem("key") ELSE old.pem)
                   \o (IF ceAt > L - 2 /\ CertFile \notin missed THEN StoredItem("cert") ELSE <<>>)
DerSoFar(old) == IF ceAt > L - 1 /\ DerFile \notin missed THEN StoredItem("cert") ELSE old.der
CreatesSoFar(old) ==
  /\ pemFile = PemSoFar(old) /\ derFile = DerSoFar(old)
  /\ KeyFile \in missed => ceAt > L - 3
  /\ CertFile \in missed => ceAt > L - 2
  /\ DerFile \in missed => ceAt > L - 1
ConvertsSoFar(old) ==
  (ceAt = L + 1 \/ (ceAt = L /\ ceEnd = "no")) =>
    IF ceJob.a = "pem" THEN derFile = StoredItem("cert") /\ pemFile = old.pem
    ELSE pemFile = StoredItem("cert") /\ derFile = old.der

OutputSoFar(old) ==
  /\ ceAt \in 1..L + 1 /\ ceEnd \in {"no", "failed", "crashed", "done"}
  /\ ceEnd \in {"failed", "crashed"} => ceAt <= FirstSave(Program) /\ ceAt <= L
  /\ ceEnd = "done" => ceAt = L + 1
  /\ ceAt <= FirstSave(Program) => pemFile = old.pem /\ derFile = old.der
  /\ Creates => CreatesSoFar(old)
  /\ Converting => ConvertsSoFar(old)
OutputInv == ceJob \in CertJobs /\ \E old \in OldFiles : OutputSoFar(old)

LEMMA OutputInitInv == CertInputsOK /\ CertInit => OutputInv
<1> SUFFICES ASSUME CertInputsOK, CertInit PROVE OutputInv
  OBVIOUS
<1>1. L \in Nat /\ (Creates => L > 3) /\ (Converting => L > 1)
  BY ProgramSound DEF Sound, CertInit, SavesRight, L
<1>2. PICK old \in OldFiles : pemFile = old.pem /\ derFile = old.der
  BY DEF CertInit
<1>3. old.pem \in Seq([item : {"key", "cert"}, of : {"old", "older"}])
  BY DEF CertInputsOK
<1>4. old.pem \o <<>> = old.pem
  BY <1>3
<1>5. ceAt = 1 /\ missed = {} /\ ceEnd = "no"
  BY DEF CertInit
<1>6. ASSUME Creates PROVE CreatesSoFar(old)
  <2>1. ~(ceAt > L - 3) /\ ~(ceAt > L - 2) /\ ~(ceAt > L - 1)
    BY <1>1, <1>5, <1>6
  <2> QED
    BY <1>2, <1>4, <1>5, <2>1 DEF CreatesSoFar, PemSoFar, DerSoFar
<1>7. ASSUME Converting PROVE ConvertsSoFar(old)
  BY <1>1, <1>5, <1>7 DEF ConvertsSoFar
<1>8. OutputSoFar(old)
  BY <1>1, <1>2, <1>5, <1>6, <1>7 DEF OutputSoFar
<1> QED
  BY <1>8 DEF OutputInv, CertInit

LEMMA SameOutputNames ==
  UNCHANGED ceJob => /\ L' = L /\ (Creates <=> Creates') /\ (Converting <=> Converting')
                     /\ FirstSave(Program)' = FirstSave(Program)
BY SameProgram DEF L, Creates, Converting, Converts, FirstSave

(* A step that writes no file: it goes on, ends the program, or changes     *)
(* nothing.                                                                *)
LEMMA NoFileStep ==
  ASSUME CertInputsOK, NEW old, OutputSoFar(old), ceJob \in CertJobs,
         UNCHANGED <<ceJob, pemFile, derFile, full, missed>>,
         \/ UNCHANGED <<ceAt, ceEnd>>
         \/ ceEnd = "no" /\ ceAt \in 1..L /\ Step.kind # "save" /\ Proceed
         \/ ceEnd = "no" /\ ceAt \in 1..L /\ Step.kind \notin {"save", "free"} /\ ceAt' = ceAt /\ ceEnd' \in {"failed", "crashed"}
         \/ ceEnd = "no" /\ ceAt = L + 1 /\ ceAt' = ceAt /\ ceEnd' = "done"
  PROVE  OutputSoFar(old)'
<1>1. L \in Nat /\ SavesRight(Program) /\ L = Len(Program)
  BY ProgramSound DEF Sound, L
<1>2. ceAt \in 1..L + 1
  BY DEF OutputSoFar
<1>3. /\ L' = L /\ (Creates <=> Creates') /\ (Converting <=> Converting')
      /\ FirstSave(Program)' = FirstSave(Program)
  BY SameOutputNames
<1>4. FirstSave(Program) = IF Creates THEN L - 3 ELSE IF Converting THEN L - 1 ELSE L + 1
  BY <1>1 DEF FirstSave
<1>5. ~(Creates /\ Converting)
  BY DEF Creates, Converting, Converts
<1>6. Creates => L > 3 /\ \A k \in 1..L : Program[k].kind \notin {"save", "free"} => k < L - 3
  BY <1>1, <1>4 DEF SavesRight
<1>7. Converting => L > 1 /\ \A k \in 1..L : Program[k].kind \notin {"save", "free"} => k < L - 1
  BY <1>1, <1>4 DEF SavesRight
<1>8. Creates => \A k \in 1..L : Program[k].kind # "save" => k < L - 3 \/ k = L
  BY <1>1, <1>4 DEF SavesRight
<1>9. Converting => \A k \in 1..L : Program[k].kind # "save" => k < L - 1 \/ k = L
  BY <1>1, <1>4 DEF SavesRight
<1>14. StoredItem("key")' = StoredItem("key") /\ StoredItem("cert")' = StoredItem("cert")
  BY <1>3 DEF StoredItem
<1>10. CASE UNCHANGED <<ceAt, ceEnd>>
  <2>1. PemSoFar(old)' = PemSoFar(old) /\ DerSoFar(old)' = DerSoFar(old)
    BY <1>3, <1>10 DEF PemSoFar, DerSoFar, StoredItem
  <2> QED
    BY <1>3, <1>10, <1>14, <2>1 DEF OutputSoFar, CreatesSoFar, ConvertsSoFar
<1>11. CASE ceEnd = "no" /\ ceAt \in 1..L /\ Step.kind # "save" /\ Proceed
  <2>1. ceAt' = ceAt + 1 /\ ceEnd' = "no" /\ ceAt \in 1..L /\ Program[ceAt].kind # "save"
    BY <1>11 DEF Proceed, Step
  <2>2. ASSUME Creates PROVE CreatesSoFar(old)'
    <3>1. /\ ceAt' > L' - 3 <=> ceAt > L - 3
          /\ ceAt' > L' - 2 <=> ceAt > L - 2
          /\ ceAt' > L' - 1 <=> ceAt > L - 1
      BY <1>1, <1>3, <1>8, <2>1, <2>2
    <3>2. PemSoFar(old)' = PemSoFar(old) /\ DerSoFar(old)' = DerSoFar(old)
      BY <3>1 DEF PemSoFar, DerSoFar, StoredItem
    <3> QED
      BY <2>2, <3>1, <3>2 DEF OutputSoFar, CreatesSoFar
  <2>3. ASSUME Converting PROVE ConvertsSoFar(old)'
    <3>1. ceAt' = L' + 1 \/ ceAt' = L' => ceAt = L
      BY <1>1, <1>3, <1>9, <2>1, <2>3
    <3> QED
      BY <1>3, <1>11, <1>14, <2>1, <2>3, <3>1 DEF OutputSoFar, ConvertsSoFar
  <2>4. ceAt' <= FirstSave(Program)' => ceAt <= FirstSave(Program)
    BY <1>1, <1>3, <1>4, <2>1
  <2>5. ceAt' \in 1..L' + 1
    BY <1>1, <1>3, <2>1
  <2> QED
    BY <1>3, <2>1, <2>2, <2>3, <2>4, <2>5 DEF OutputSoFar
<1>12. CASE ceEnd = "no" /\ ceAt \in 1..L /\ Step.kind \notin {"save", "free"} /\ ceAt' = ceAt /\ ceEnd' \in {"failed", "crashed"}
  <2>1. ceAt <= FirstSave(Program) /\ ceAt <= L
    BY <1>1, <1>4, <1>6, <1>7, <1>12 DEF Step
  <2>2. PemSoFar(old)' = PemSoFar(old) /\ DerSoFar(old)' = DerSoFar(old)
    BY <1>3, <1>12 DEF PemSoFar, DerSoFar, StoredItem
  <2>3. Creates => CreatesSoFar(old)'
    BY <1>3, <1>12, <2>2 DEF OutputSoFar, CreatesSoFar
  <2>4. ConvertsSoFar(old)'
    <3>1. ceAt' # L' + 1 /\ ceEnd' # "no"
      BY <1>1, <1>3, <1>12
    <3> QED
      BY <3>1 DEF ConvertsSoFar
  <2> QED
    BY <1>3, <1>12, <2>1, <2>3, <2>4 DEF OutputSoFar
<1>13. CASE ceEnd = "no" /\ ceAt = L + 1 /\ ceAt' = ceAt /\ ceEnd' = "done"
  <2>2. PemSoFar(old)' = PemSoFar(old) /\ DerSoFar(old)' = DerSoFar(old)
    BY <1>3, <1>13 DEF PemSoFar, DerSoFar, StoredItem
  <2> QED
    BY <1>3, <1>13, <1>14, <2>2 DEF OutputSoFar, CreatesSoFar, ConvertsSoFar
<1> QED
  BY <1>10, <1>11, <1>12, <1>13

(* What is at the place of a file.                                         *)
LEMMA SavePlaces ==
  ASSUME CertInputsOK, ceJob \in CertJobs, ceAt \in 1..L, Step.kind = "save"
  PROVE  /\ L \in Nat /\ L = Len(Program) /\ ceAt >= FirstSave(Program)
         /\ \/ /\ Creates /\ ~Converting /\ L > 3
               /\ (ceAt = L - 3 /\ Step.var = KeyFile) \/ (ceAt = L - 2 /\ Step.var = CertFile) \/ (ceAt = L - 1 /\ Step.var = DerFile)
            \/ /\ Converting /\ ~Creates /\ L > 1 /\ ceAt = L - 1
               /\ Step.var = IF ceJob.a = "pem" THEN DerFile ELSE <<"new_pem", "cert">>
<1>1. L \in Nat /\ SavesRight(Program) /\ L = Len(Program)
  BY ProgramSound DEF Sound, L
<1>2. FirstSave(Program) = IF Creates THEN L - 3 ELSE IF Converting THEN L - 1 ELSE L + 1
  BY <1>1 DEF FirstSave
<1>3. ~(Creates /\ Converting)
  BY DEF Creates, Converting, Converts
<1>4. ceAt >= FirstSave(Program)
  BY <1>1, <1>2 DEF SavesRight, Step
<1>5. CASE Creates
  <2>1. ceAt # L
    BY <1>1, <1>5 DEF SavesRight, Step
  <2>2. ceAt = L - 3 \/ ceAt = L - 2 \/ ceAt = L - 1
    BY <1>1, <1>2, <1>4, <1>5, <2>1
  <2> QED
    BY <1>1, <1>3, <1>4, <1>5, <2>2 DEF SavesRight, Step
<1>6. CASE Converting
  <2>1. ceAt # L
    BY <1>1, <1>6 DEF SavesRight, Step
  <2>2. ceAt = L - 1
    BY <1>1, <1>2, <1>3, <1>4, <1>6, <2>1
  <2> QED
    BY <1>1, <1>3, <1>4, <1>6, <2>2 DEF SavesRight, Step
<1> QED
  BY <1>1, <1>2, <1>4, <1>5, <1>6

LEMMA Distinct == /\ KeyFile # CertFile /\ KeyFile # DerFile /\ CertFile # DerFile
                  /\ <<"new_pem", "cert">> \notin {KeyFile, CertFile, DerFile}
BY DEF KeyFile, CertFile, DerFile

LEMMA StoredItemSeq ==
  /\ \A x : StoredItem(x) \o <<>> = StoredItem(x) /\ <<>> \o StoredItem(x) = StoredItem(x)
BY DEF StoredItem

LEMMA SaveStep ==
  ASSUME CertInputsOK, NEW old \in OldFiles, OutputSoFar(old), ceJob \in CertJobs, ceAt \in 1..L,
         ceEnd = "no", Step.kind = "save", SaveItem
  PROVE  OutputSoFar(old)'
<1>1. /\ L \in Nat /\ ceAt >= FirstSave(Program)
      /\ \/ /\ Creates /\ ~Converting /\ L > 3
            /\ (ceAt = L - 3 /\ Step.var = KeyFile) \/ (ceAt = L - 2 /\ Step.var = CertFile) \/ (ceAt = L - 1 /\ Step.var = DerFile)
         \/ /\ Converting /\ ~Creates /\ L > 1 /\ ceAt = L - 1
            /\ Step.var = IF ceJob.a = "pem" THEN DerFile ELSE <<"new_pem", "cert">>
  BY SavePlaces
<1>2. ceAt' = ceAt + 1 /\ ceEnd' = "no" /\ UNCHANGED <<ceJob, full, missed>>
  BY DEF SaveItem, Proceed
<1>3. /\ L' = L /\ (Creates <=> Creates') /\ (Converting <=> Converting')
      /\ FirstSave(Program)' = FirstSave(Program) /\ FirstSave(Program) \in Int
  BY <1>1, <1>2, SameOutputNames DEF L, FirstSave
<1>0. StoredItem("key")' = StoredItem("key") /\ StoredItem("cert")' = StoredItem("cert")
  BY <1>2 DEF StoredItem
<1>4. /\ Step.var = KeyFile => pemFile' = StoredItem("key") /\ derFile' = derFile
      /\ Step.var = CertFile => pemFile' = pemFile \o StoredItem("cert") /\ derFile' = derFile
      /\ Step.var = DerFile => derFile' = StoredItem("cert") /\ pemFile' = pemFile
      /\ Step.var = <<"new_pem", "cert">> => pemFile' = StoredItem("cert") /\ derFile' = derFile
  <2>1. /\ \A content : Saved(content, TRUE) = StoredItem(Step.var[2])
        /\ \A content : Saved(content, FALSE) = content \o StoredItem(Step.var[2])
    BY StoredItemSeq DEF Saved
  <2>2. /\ pemFile' = CASE Step.var[1] = "new_pem" -> Saved(pemFile, TRUE) [] Step.var[1] = "pem" -> Saved(pemFile, FALSE)
                         [] OTHER -> pemFile
        /\ derFile' = IF Step.var[1] = "new_der" THEN Saved(derFile, TRUE) ELSE derFile
    BY DEF SaveItem
  <2>3. CASE Step.var = KeyFile
    <3>1. Step.var[1] = "new_pem" /\ Step.var[2] = "key"
      BY <2>3 DEF KeyFile
    <3>2. pemFile' = StoredItem("key") /\ derFile' = derFile
      BY <2>1, <2>2, <3>1
    <3> QED
      BY <2>3, <3>2, Distinct
  <2>4. CASE Step.var = CertFile
    <3>1. Step.var[1] = "pem" /\ Step.var[2] = "cert"
      BY <2>4 DEF CertFile
    <3>2. pemFile' = pemFile \o StoredItem("cert") /\ derFile' = derFile
      BY <2>1, <2>2, <3>1
    <3> QED
      BY <2>4, <3>2, Distinct
  <2>5. CASE Step.var = DerFile
    <3>1. Step.var[1] = "new_der" /\ Step.var[2] = "cert"
      BY <2>5 DEF DerFile
    <3>2. derFile' = StoredItem("cert") /\ pemFile' = pemFile
      BY <2>1, <2>2, <3>1
    <3> QED
      BY <2>5, <3>2, Distinct
  <2>6. CASE Step.var = <<"new_pem", "cert">>
    <3>1. Step.var[1] = "new_pem" /\ Step.var[2] = "cert"
      BY <2>6
    <3>2. pemFile' = StoredItem("cert") /\ derFile' = derFile
      BY <2>1, <2>2, <3>1
    <3> QED
      BY <2>6, <3>2, Distinct
  <2> QED
    BY <2>3, <2>4, <2>5, <2>6
<1>5. old.pem \o <<>> = old.pem
  <2>1. old.pem \in Seq([item : {"key", "cert"}, of : {"old", "older"}])
    BY DEF CertInputsOK
  <2> QED
    BY <2>1, ConcatEmptySeq
<1>6. StoredItem("key") \o <<>> = StoredItem("key")
  BY StoredItemSeq
<1>7. ~(ceAt' <= FirstSave(Program)')
  BY <1>1, <1>2, <1>3
<1>8. ASSUME Creates PROVE CreatesSoFar(old)'
  <2>1. CreatesSoFar(old) /\ (ceAt = L - 3 \/ ceAt = L - 2 \/ ceAt = L - 1) /\ L > 3
    BY <1>1, <1>8 DEF OutputSoFar
  <2>2. /\ KeyFile \in missed' => ceAt' > L' - 3
        /\ CertFile \in missed' => ceAt' > L' - 2
        /\ DerFile \in missed' => ceAt' > L' - 1
    BY <1>1, <1>2, <1>3, <2>1 DEF CreatesSoFar
  <2>3. pemFile' = PemSoFar(old)' /\ derFile' = DerSoFar(old)'
    <3>1. CASE ceAt = L - 3
      <4>1. KeyFile \notin missed /\ Step.var = KeyFile /\ ceAt' = L' - 2
        BY <1>1, <1>2, <1>3, <1>8, <2>1, <3>1 DEF CreatesSoFar
      <4>2. ceAt' > L' - 3 /\ ~(ceAt' > L' - 2) /\ ~(ceAt' > L' - 1) /\ ~(ceAt > L - 1)
        BY <1>1, <1>3, <3>1, <4>1
      <4>3. PemSoFar(old)' = StoredItem("key") \o <<>> /\ DerSoFar(old)' = old.der
        BY <1>0, <1>2, <4>1, <4>2 DEF PemSoFar, DerSoFar
      <4>4. derFile = old.der
        BY <2>1, <4>2 DEF CreatesSoFar, DerSoFar
      <4> QED
        BY <1>4, <1>6, <4>1, <4>3, <4>4
    <3>2. CASE ceAt = L - 2
      <4>1. CertFile \notin missed /\ Step.var = CertFile /\ ceAt' = L' - 1
        BY <1>1, <1>2, <1>3, <1>8, <2>1, <3>2 DEF CreatesSoFar
      <4>2. ceAt' > L' - 3 /\ ceAt' > L' - 2 /\ ~(ceAt' > L' - 1) /\ ~(ceAt > L - 1) /\ ceAt > L - 3 /\ ~(ceAt > L - 2)
        BY <1>1, <1>3, <3>2, <4>1
      <4>3. pemFile = IF KeyFile \notin missed THEN StoredItem("key") ELSE old.pem
        BY <1>5, <1>6, <2>1, <4>2 DEF CreatesSoFar, PemSoFar
      <4> QED
        BY <1>0, <1>2, <1>4, <2>1, <4>1, <4>2, <4>3 DEF CreatesSoFar, PemSoFar, DerSoFar
    <3>3. CASE ceAt = L - 1
      <4>1. DerFile \notin missed /\ Step.var = DerFile /\ ceAt' = L'
        BY <1>1, <1>2, <1>3, <1>8, <2>1, <3>3 DEF CreatesSoFar
      <4>2. ceAt' > L' - 3 /\ ceAt' > L' - 2 /\ ceAt' > L' - 1 /\ ceAt > L - 3 /\ ceAt > L - 2
        BY <1>1, <1>3, <3>3, <4>1
      <4> QED
        BY <1>0, <1>2, <1>4, <2>1, <4>1, <4>2 DEF CreatesSoFar, PemSoFar, DerSoFar
    <3> QED
      BY <2>1, <3>1, <3>2, <3>3
  <2> QED
    BY <1>2, <2>2, <2>3 DEF CreatesSoFar
<1>9. ASSUME Converting PROVE ConvertsSoFar(old)'
  <2>1. Step.var = IF ceJob.a = "pem" THEN DerFile ELSE <<"new_pem", "cert">>
    BY <1>1, <1>9
  <2>2. ceAt <= FirstSave(Program)
    BY <1>1, <1>9, ProgramSound DEF FirstSave, L
  <2>3. pemFile = old.pem /\ derFile = old.der
    BY <2>2 DEF OutputSoFar
  <2>4. ceJob' = ceJob
    BY <1>2
  <2>5. CASE ceJob.a = "pem"
    <3>1. derFile' = StoredItem("cert") /\ pemFile' = old.pem
      BY <1>4, <2>1, <2>3, <2>5
    <3> QED
      BY <1>0, <2>4, <2>5, <3>1 DEF ConvertsSoFar
  <2>6. CASE ceJob.a # "pem"
    <3>1. pemFile' = StoredItem("cert") /\ derFile' = old.der
      BY <1>4, <2>1, <2>3, <2>6
    <3> QED
      BY <1>0, <2>4, <2>6, <3>1 DEF ConvertsSoFar
  <2> QED
    BY <2>5, <2>6
<1> QED
  BY <1>1, <1>2, <1>3, <1>7, <1>8, <1>9 DEF OutputSoFar

LEMMA MissStep ==
  ASSUME CertInputsOK, NEW old \in OldFiles, OutputSoFar(old), ceJob \in CertJobs, ceAt \in 1..L,
         ceEnd = "no", Step.kind = "save", CannotOpen
  PROVE  OutputSoFar(old)'
<1>1. /\ L \in Nat /\ ceAt >= FirstSave(Program)
      /\ \/ /\ Creates /\ ~Converting /\ L > 3
            /\ (ceAt = L - 3 /\ Step.var = KeyFile) \/ (ceAt = L - 2 /\ Step.var = CertFile) \/ (ceAt = L - 1 /\ Step.var = DerFile)
         \/ /\ Converting /\ ~Creates /\ L > 1 /\ ceAt = L - 1
            /\ Step.var = IF ceJob.a = "pem" THEN DerFile ELSE <<"new_pem", "cert">>
  BY SavePlaces
<1>2. /\ ceJob' = ceJob /\ full' = full /\ pemFile' = pemFile /\ derFile' = derFile
      /\ missed' = missed \cup {Step.var}
  BY DEF CannotOpen
<1>3. /\ L' = L /\ (Creates <=> Creates') /\ (Converting <=> Converting')
      /\ FirstSave(Program)' = FirstSave(Program) /\ FirstSave(Program) \in Int
  BY <1>1, <1>2, SameOutputNames DEF L, FirstSave
<1>4. CASE Creates
  <2>1. ceAt' = ceAt + 1 /\ ceEnd' = "no"
    BY <1>4 DEF CannotOpen, Creates, Proceed
  <2>2. CreatesSoFar(old) /\ L > 3
    BY <1>1, <1>4 DEF OutputSoFar
  <2>3. ASSUME ceAt = L - 3 /\ Step.var = KeyFile PROVE CreatesSoFar(old)'
    <3>1. /\ ceAt' > L' - 3 /\ ~(ceAt' > L' - 2) /\ ~(ceAt' > L' - 1)
          /\ ~(ceAt > L - 3) /\ ~(ceAt > L - 2) /\ ~(ceAt > L - 1)
      BY <1>1, <1>3, <2>1, <2>3
    <3>2. PemSoFar(old)' = PemSoFar(old) /\ DerSoFar(old)' = DerSoFar(old)
      BY <1>2, <2>3, <3>1 DEF PemSoFar, DerSoFar, StoredItem
    <3>3. /\ KeyFile \in missed' => KeyFile \in missed \/ ceAt' > L' - 3
          /\ CertFile \in missed' => CertFile \in missed \/ ceAt' > L' - 2
          /\ DerFile \in missed' => DerFile \in missed \/ ceAt' > L' - 1
      BY <1>2, <2>3, <3>1, Distinct
    <3> QED
      BY <1>2, <2>2, <3>1, <3>2, <3>3 DEF CreatesSoFar
  <2>4. ASSUME ceAt = L - 2 /\ Step.var = CertFile PROVE CreatesSoFar(old)'
    <3>1. /\ ceAt' > L' - 3 /\ ceAt' > L' - 2 /\ ~(ceAt' > L' - 1)
          /\ ceAt > L - 3 /\ ~(ceAt > L - 2) /\ ~(ceAt > L - 1)
      BY <1>1, <1>3, <2>1, <2>4
    <3>2. PemSoFar(old)' = PemSoFar(old) /\ DerSoFar(old)' = DerSoFar(old)
      BY <1>2, <2>4, <3>1, Distinct DEF PemSoFar, DerSoFar, StoredItem
    <3>3. /\ KeyFile \in missed' => KeyFile \in missed \/ ceAt' > L' - 3
          /\ CertFile \in missed' => CertFile \in missed \/ ceAt' > L' - 2
          /\ DerFile \in missed' => DerFile \in missed \/ ceAt' > L' - 1
      BY <1>2, <2>4, <3>1, Distinct
    <3> QED
      BY <1>2, <2>2, <3>1, <3>2, <3>3 DEF CreatesSoFar
  <2>5. ASSUME ceAt = L - 1 /\ Step.var = DerFile PROVE CreatesSoFar(old)'
    <3>1. /\ ceAt' > L' - 3 /\ ceAt' > L' - 2 /\ ceAt' > L' - 1
          /\ ceAt > L - 3 /\ ceAt > L - 2 /\ ~(ceAt > L - 1)
      BY <1>1, <1>3, <2>1, <2>5
    <3>2. PemSoFar(old)' = PemSoFar(old) /\ DerSoFar(old)' = DerSoFar(old)
      BY <1>2, <2>5, <3>1, Distinct DEF PemSoFar, DerSoFar, StoredItem
    <3>3. /\ KeyFile \in missed' => KeyFile \in missed \/ ceAt' > L' - 3
          /\ CertFile \in missed' => CertFile \in missed \/ ceAt' > L' - 2
          /\ DerFile \in missed' => DerFile \in missed \/ ceAt' > L' - 1
      BY <1>2, <2>5, <3>1, Distinct
    <3> QED
      BY <1>2, <2>2, <3>1, <3>2, <3>3 DEF CreatesSoFar
  <2>6. CreatesSoFar(old)'
    BY <1>1, <1>4, <2>3, <2>4, <2>5
  <2>7. ~(ceAt' <= FirstSave(Program)') /\ ceAt' \in 1..L' + 1
    BY <1>1, <1>3, <2>1
  <2> QED
    BY <1>1, <1>3, <1>4, <2>1, <2>6, <2>7 DEF OutputSoFar
<1>5. CASE ~Creates
  <2>1. Converting /\ ceAt = L - 1 /\ FirstSave(Program) = L - 1
    BY <1>1, <1>5, SavePlaces DEF FirstSave
  <2>2. ceAt' = ceAt /\ ceEnd' = "failed"
    BY <2>1 DEF CannotOpen, Converting, Converts, GiveUp
  <2>3. ConvertsSoFar(old)'
    BY <1>1, <1>3, <2>1, <2>2 DEF ConvertsSoFar
  <2> QED
    BY <1>1, <1>2, <1>3, <1>5, <2>1, <2>2, <2>3 DEF OutputSoFar
<1> QED
  BY <1>4, <1>5

LEMMA OutputNextInv == CertInputsOK /\ CertInv /\ OutputInv /\ [CertNext]_ceVars => OutputInv'
<1> SUFFICES ASSUME CertInputsOK, CertInv, OutputInv, [CertNext]_ceVars PROVE OutputInv'
  OBVIOUS
<1>1. PICK old \in OldFiles : OutputSoFar(old)
  BY DEF OutputInv
<1>2. ceJob \in CertJobs
  BY DEF OutputInv
<1>3. Sound(Program) /\ L \in Nat /\ L = Len(Program)
  BY <1>2, ProgramSound DEF Sound, L
<1>4. ASSUME NEW kinds, Reached(kinds)
      PROVE  ceEnd = "no" /\ ceAt \in 1..L /\ Step.kind \in kinds
  BY <1>3, <1>4 DEF Reached, Step, CertInv
<1>a. ceEnd = "no" /\ ceAt > L => ceAt = L + 1
  BY <1>1, <1>3 DEF OutputSoFar
<1>5. CASE Works \/ FailsUnseen \/ FreeObjects \/ AssignPair \/ ParseObject
  <2>1. /\ ceEnd = "no" /\ ceAt \in 1..L /\ Step.kind \in {"get", "take", "check", "free", "assign", "parse"}
        /\ Proceed /\ UNCHANGED <<ceJob, pemFile, derFile, full, missed>>
    BY <1>5, <1>4 DEF Works, FailsUnseen, FreeObjects, AssignPair, ParseObject, NoOutput
  <2>2. OutputSoFar(old)'
    BY <1>1, <1>2, <2>1, NoFileStep
  <2> QED
    BY <1>2, <2>1, <2>2 DEF OutputInv
<1>6. CASE Fails
  <2>1. /\ ceEnd = "no" /\ ceAt \in 1..L /\ Step.kind \in {"get", "check", "assign"}
        /\ ceAt' = ceAt /\ ceEnd' = "failed" /\ UNCHANGED <<ceJob, pemFile, derFile, full, missed>>
    BY <1>6, <1>4 DEF Fails, GiveUp, NoOutput
  <2>2. OutputSoFar(old)'
    BY <1>1, <1>2, <2>1, NoFileStep
  <2> QED
    BY <1>2, <2>1, <2>2 DEF OutputInv
<1>7. CASE TestPointer \/ UseObjects
  <2>1. /\ ceEnd = "no" /\ ceAt \in 1..L /\ Step.kind \in {"need", "use"}
        /\ Proceed \/ (ceAt' = ceAt /\ ceEnd' \in {"failed", "crashed"})
        /\ UNCHANGED <<ceJob, pemFile, derFile, full, missed>>
    BY <1>7, <1>4 DEF TestPointer, UseObjects, GiveUp, NoOutput
  <2>2. OutputSoFar(old)'
    BY <1>1, <1>2, <2>1, NoFileStep
  <2> QED
    BY <1>2, <2>1, <2>2 DEF OutputInv
<1>8. CASE ProgramEnds
  <2>1. /\ ceEnd = "no" /\ ceAt = L + 1 /\ ceAt' = ceAt /\ ceEnd' = "done"
        /\ UNCHANGED <<ceJob, pemFile, derFile, full, missed>>
    BY <1>8, <1>3, <1>a DEF ProgramEnds, NoOutput
  <2>2. OutputSoFar(old)'
    BY <1>1, <1>2, <2>1, NoFileStep
  <2> QED
    BY <1>2, <2>1, <2>2 DEF OutputInv
<1>9. CASE UNCHANGED ceVars
  <2>1. UNCHANGED <<ceJob, ceAt, ceEnd, pemFile, derFile, full, missed>>
    BY <1>9 DEF ceVars
  <2>2. OutputSoFar(old)'
    BY <1>1, <1>2, <2>1, NoFileStep
  <2> QED
    BY <1>2, <2>1, <2>2 DEF OutputInv
<1>10. CASE SaveItem
  <2>1. ceEnd = "no" /\ ceAt \in 1..L /\ Step.kind = "save" /\ UNCHANGED ceJob
    BY <1>4, <1>10 DEF SaveItem
  <2>2. OutputSoFar(old)'
    BY <1>1, <1>2, <1>10, <2>1, SaveStep
  <2> QED
    BY <1>2, <2>1, <2>2 DEF OutputInv
<1>11. CASE CannotOpen
  <2>1. ceEnd = "no" /\ ceAt \in 1..L /\ Step.kind = "save" /\ UNCHANGED ceJob
    BY <1>4, <1>11 DEF CannotOpen
  <2>2. OutputSoFar(old)'
    BY <1>1, <1>2, <1>11, <2>1, MissStep
  <2> QED
    BY <1>2, <2>1, <2>2 DEF OutputInv
<1> QED
  BY <1>5, <1>6, <1>7, <1>8, <1>9, <1>10, <1>11 DEF CertNext

(* At every call of every program the files of create_cert and             *)
(* convert_cert are what the calls before it have made of them: as they    *)
(* were up to the first save, and behind it with each item that could be   *)
(* opened stored, or left empty by a full disk, and each that could not be *)
(* left out (create_cert.c:227-261, convert_cert.c:16-128).                *)
THEOREM OutputInvariant == CertSpec => []OutputInv
<1>1. CertInit => OutputInv
  BY OutputInitInv, CertInputsOK
<1>2. CertInv /\ OutputInv /\ [CertNext]_ceVars => OutputInv'
  BY OutputNextInv, CertInputsOK
<1> QED
  BY <1>1, <1>2, CertsInvariant, PTL DEF CertSpec

LEMMA OneOfTwo ==
  ASSUME NEW x, NEW y, x # y, NEW S, S \subseteq {x, y}
  PROVE  Cardinality(S) = 1 <=> (x \in S <=> y \notin S)
<1>1. CASE S = {}
  <2>1. Cardinality(S) = 0
    BY <1>1, FS_EmptySet
  <2> QED
    BY <1>1, <2>1
<1>2. CASE S = {x} \/ S = {y}
  <2>1. Cardinality(S) = 1
    BY <1>2, FS_Singleton
  <2> QED
    BY <1>2, <2>1
<1>3. CASE S = {x, y}
  <2>1. IsFiniteSet({x}) /\ Cardinality({x}) = 1
    BY FS_Singleton
  <2>2. y \notin {x} /\ S = {x} \cup {y}
    BY <1>3
  <2>3. Cardinality(S) = Cardinality({x}) + 1
    BY <2>1, <2>2, FS_AddElement
  <2>4. Cardinality(S) = 2
    BY <2>1, <2>3
  <2> QED
    BY <1>3, <2>4
<1> QED
  BY <1>1, <1>2, <1>3

(* What the .pem of create_cert shows of the two times it was opened.      *)
LEMMA PemTells ==
  ASSUME CertInputsOK, NEW old \in OldFiles, NEW file, file = PemOf(old), ~full
  PROVE  Halved(file) <=> IF {KeyFile, CertFile} \subseteq missed THEN Halved(old.pem)
                          ELSE KeyFile \in missed \/ CertFile \in missed
<1> DEFINE items == {file[k].item : k \in DOMAIN file}
           TheKey == [item |-> "key", of |-> "new"]
           TheCert == [item |-> "cert", of |-> "new"]
<1>1. old.pem \in Seq([item : {"key", "cert"}, of : {"old", "older"}])
  BY DEF CertInputsOK
<1>2. \A k \in DOMAIN old.pem : old.pem[k].of # "new"
  <2> DEFINE Items == [item : {"key", "cert"}, of : {"old", "older"}]
             pem   == old.pem
  <2>1. pem \in Seq(Items)
    BY <1>1
  <2>2. \A k \in DOMAIN pem : pem[k] \in Items
    <3> HIDE DEF Items, pem
    <3> QED
      BY <2>1, LenProperties
  <2> QED
    BY <2>2
<1>3. /\ TheKey.item = "key" /\ TheKey.of = "new" /\ TheCert.item = "cert" /\ TheCert.of = "new"
      /\ StoredItem("key") = <<TheKey>> /\ StoredItem("cert") = <<TheCert>>
  BY DEF StoredItem
<1>4. items \subseteq {"key", "cert"} => (Alone(file) <=> ("key" \in items <=> "cert" \notin items))
  <2>1. Alone(file) <=> Cardinality(items) = 1
    BY DEF Alone
  <2> HIDE DEF items
  <2>2. "key" # "cert"
    OBVIOUS
  <2>3. ASSUME NEW x, NEW y, x # y, items \subseteq {x, y}
        PROVE  Cardinality(items) = 1 <=> (x \in items <=> y \notin items)
    BY <2>3, OneOfTwo, Zenon
  <2> QED
    BY <2>1, <2>2, <2>3
<1> HIDE DEF TheKey, TheCert
<1>5. CASE KeyFile \notin missed /\ CertFile \notin missed
  <2>1. file = <<TheKey>> \o <<TheCert>>
    BY <1>3, <1>5 DEF PemOf
  <2>2. DOMAIN file = {1, 2} /\ file[1] = TheKey /\ file[2] = TheCert
    BY <2>1
  <2>3. items = {"key", "cert"} /\ ~Torn(file)
    BY <1>3, <2>2 DEF Torn
  <2> QED
    BY <1>4, <1>5, <2>3 DEF Halved
<1>6. CASE KeyFile \notin missed /\ CertFile \in missed
  <2>1. file = <<TheKey>> \o <<>>
    BY <1>3, <1>6 DEF PemOf
  <2>2. DOMAIN file = {1} /\ file[1] = TheKey
    BY <2>1
  <2>3. items = {"key"}
    BY <1>3, <2>2
  <2> QED
    BY <1>4, <1>6, <2>3 DEF Halved
<1>7. CASE KeyFile \in missed /\ CertFile \notin missed
  <2>1. file = old.pem \o <<TheCert>>
    BY <1>3, <1>7 DEF PemOf
  <2>2. CASE old.pem = <<>>
    <3>1. DOMAIN file = {1} /\ file[1] = TheCert
      BY <2>1, <2>2
    <3>2. items = {"cert"}
      BY <1>3, <3>1
    <3> QED
      BY <1>4, <1>7, <3>2 DEF Halved
  <2>3. CASE old.pem # <<>>
    <3>1. /\ Len(old.pem) \in Nat /\ Len(old.pem) >= 1 /\ Len(file) = Len(old.pem) + 1
          /\ DOMAIN file = 1..Len(file) /\ file[1] = old.pem[1] /\ file[Len(file)] = TheCert
      BY <1>1, <2>1, <2>3
    <3>2. 1 \in DOMAIN old.pem
      BY <1>1, <3>1
    <3>3. 1 \in DOMAIN file /\ Len(file) \in DOMAIN file
      BY <3>1
    <3>4. file[1].of # file[Len(file)].of
      BY <1>2, <1>3, <3>1, <3>2
    <3>5. Torn(file)
      BY <3>3, <3>4 DEF Torn
    <3> QED
      BY <1>7, <3>5 DEF Halved
  <2> QED
    BY <2>2, <2>3
<1>8. CASE KeyFile \in missed /\ CertFile \in missed
  <2>1. file = old.pem \o <<>>
    BY <1>8 DEF PemOf
  <2>2. file = old.pem
    BY <1>1, <2>1, ConcatEmptySeq
  <2> QED
    BY <1>8, <2>2
<1> QED
  BY <1>5, <1>6, <1>7, <1>8

LEMMA Pair == ASSUME NEW a, NEW b PROVE <<a>> \o <<b>> = <<a, b>>
<1> DEFINE s == <<a>> \o <<b>>
<1>1. s \in Seq({a, b}) /\ Len(s) = 2 /\ s[1] = a /\ s[2] = b
  OBVIOUS
<1>2. <<a, b>> \in Seq({a, b}) /\ Len(<<a, b>>) = 2 /\ <<a, b>>[1] = a /\ <<a, b>>[2] = b
  OBVIOUS
<1> HIDE DEF s
<1>3. \A i \in 1..Len(s) : s[i] = <<a, b>>[i]
  BY <1>1, <1>2
<1>4. s = <<a, b>>
  BY <1>1, <1>2, <1>3, SeqEqual
<1> QED
  BY <1>4 DEF s

LEMMA OutputHolds == CertInputsOK /\ OutputInv => OutputIsWhole
<1> SUFFICES ASSUME CertInputsOK, OutputInv, ceEnd # "no" PROVE OutputIsWhole
  BY DEF OutputIsWhole
<1>1. PICK old \in OldFiles : OutputSoFar(old)
  BY DEF OutputInv
<1>2. L \in Nat /\ L = Len(Program) /\ (Creates => L > 3)
  BY ProgramSound DEF Sound, SavesRight, L, OutputInv
<1>3. FirstSave(Program) = IF Creates THEN L - 3 ELSE IF Converting THEN L - 1 ELSE L + 1
  BY <1>2 DEF FirstSave
<1>4. ASSUME ceEnd # "done" \/ (~Creates /\ ~Converting)
      PROVE  pemFile = old.pem /\ derFile = old.der
  <2>1. ceAt <= FirstSave(Program)
    <3>1. CASE ceEnd \in {"failed", "crashed"}
      BY <1>1, <3>1 DEF OutputSoFar
    <3>2. CASE ceEnd = "done"
      BY <1>1, <1>2, <1>3, <1>4, <3>2 DEF OutputSoFar
    <3> QED
      BY <1>1, <3>1, <3>2 DEF OutputSoFar
  <2> QED
    BY <1>1, <2>1 DEF OutputSoFar
<1>5. ASSUME ceEnd = "done", Creates
      PROVE  pemFile = PemOf(old) /\ derFile = DerOf(old)
  <2>1. ceAt > L - 3 /\ ceAt > L - 2 /\ ceAt > L - 1 /\ CreatesSoFar(old)
    BY <1>1, <1>2, <1>5 DEF OutputSoFar
  <2> QED
    BY <2>1 DEF CreatesSoFar, PemSoFar, DerSoFar, PemOf, DerOf
<1>6. ASSUME ceEnd = "done", Converting
      PROVE  IF ceJob.a = "pem" THEN derFile = StoredItem("cert") /\ pemFile = old.pem
             ELSE pemFile = StoredItem("cert") /\ derFile = old.der
  BY <1>1, <1>6 DEF OutputSoFar, ConvertsSoFar
<1>7. ASSUME ceEnd = "done", Creates, ~full
      PROVE  Halved(pemFile) <=> IF {KeyFile, CertFile} \subseteq missed THEN Halved(old.pem)
                                 ELSE KeyFile \in missed \/ CertFile \in missed
  BY <1>5, <1>7, PemTells
<1>8. ASSUME ~(ceEnd = "done" /\ Creates)
      PROVE  /\ pemFile = IF ceEnd = "done" /\ Converts("der", "pem") THEN StoredItem("cert") ELSE old.pem
             /\ derFile = IF ceEnd = "done" /\ Converts("pem", "der") THEN StoredItem("cert") ELSE old.der
  BY <1>4, <1>6, <1>8 DEF Converting, Converts
<1>9. (ceEnd = "done" /\ Creates) \/ ~(ceEnd = "done" /\ Creates)
  OBVIOUS
<1> QED
  BY <1>5, <1>7, <1>8, <1>9, Zenon DEF OutputIsWhole

(* Whichever calls of whatever program of cert/ fail, with whatever there  *)
(* was before in its files: nothing is used or given back after it was     *)
(* given back, all is given back but the known leaks, a run that fails     *)
(* leaves both files alone, one that ends has stored in them each item it  *)
(* was asked for and could open the file for, and, while the disk is not   *)
(* full, create_cert parts a key from its certificate exactly when one of  *)
(* the two times it opens its .pem fails and the other does not            *)
(* (create_cert.c:134-138, 227-261).                                       *)
THEOREM CertsSafe == CertSpec => []CertsAreSafe
<1>1. CertInv => NothingMisused
  BY DEF CertInv, NothingMisused
<1>2. OutputInv => OutputIsWhole
  BY OutputHolds, CertInputsOK
<1>3. CertInv /\ OutputInv => CertsAreSafe
  BY <1>1, <1>2 DEF CertsAreSafe
<1> QED
  BY <1>3, CertsInvariant, OutputInvariant, PTL
-----------------------------------------------------------------------------
(* Division with remainder, by any number.                                 *)

LEMMA DivMod ==
  ASSUME NEW a \in Int, NEW b \in Nat \ {0}
  PROVE  a \div b \in Int /\ a % b \in 0..b - 1 /\ a = b * (a \div b) + (a % b)
<1>1. PICK q \in Int : q = a \div b
  OBVIOUS
<1>2. PICK r \in 0..b - 1 : r = a % b
  OBVIOUS
<1>3. a = b * q + r
  BY <1>1, <1>2
<1>4. b * q + r = b * (a \div b) + (a % b)
  BY <1>1, <1>2, Zenon
<1>5. a = b * (a \div b) + (a % b)
  BY <1>3, <1>4, Zenon
<1> QED
  BY <1>1, <1>2, <1>5, Zenon

LEMMA ModType ==
  ASSUME NEW a \in Int, NEW b \in Nat \ {0}
  PROVE  a \div b \in Int /\ a % b \in 0..b - 1 /\ a % b \in Int
<1>1. a \div b \in Int /\ a % b \in 0..b - 1
  BY DivMod
<1> QED
  BY <1>1

LEMMA Multiple ==
  ASSUME NEW b \in Nat \ {0}, NEW t \in Int, -b < b * t, b * t < b
  PROVE  t = 0
<1>1. CASE t >= 1
  <2>1. b * t >= b
    BY <1>1
  <2> QED
    BY <2>1
<1>2. CASE t <= -1
  <2>1. b * t <= -b
    BY <1>2
  <2> QED
    BY <2>1
<1> QED
  BY <1>1, <1>2

LEMMA Distribute ==
  ASSUME NEW a \in Int, NEW b \in Int, NEW c \in Int
  PROVE  a * (b + c) = a * b + a * c /\ a * (b - c) = a * b - a * c /\ (b + c) * a = b * a + c * a
         /\ a * b \in Int /\ a * c \in Int
OBVIOUS

LEMMA ModUnique ==
  ASSUME NEW b \in Nat \ {0}, NEW q \in Int, NEW r \in 0..b - 1, NEW a \in Int, a = b * q + r
  PROVE  a % b = r /\ a \div b = q
<1>1. a % b = r
  OBVIOUS
<1>2. a \div b = q
  OBVIOUS
<1> QED
  BY <1>1, <1>2

LEMMA ModSmall ==
  ASSUME NEW b \in Nat \ {0}, NEW r \in 0..b - 1
  PROVE  r % b = r
<1>1. r \in Int /\ b * 0 + r = r /\ 0 \in Int
  OBVIOUS
<1> QED
  BY <1>1, ModUnique


(* Sequences of bytes, place by place.                                     *)
LEMMA Joined ==
  ASSUME NEW s \in Seq(Nat), NEW t \in Seq(Nat)
  PROVE  /\ s \o t \in Seq(Nat) /\ Len(s \o t) = Len(s) + Len(t)
         /\ \A k \in 1..Len(s) : (s \o t)[k] = s[k]
         /\ \A k \in 1..Len(t) : (s \o t)[Len(s) + k] = t[k]
<1>1. /\ s \o t \in Seq(Nat) /\ Len(s \o t) = Len(s) + Len(t)
      /\ \A k \in 1..Len(s) + Len(t) : (s \o t)[k] = IF k <= Len(s) THEN s[k] ELSE t[k - Len(s)]
  BY ConcatProperties
<1>2. Len(s) \in Nat /\ Len(t) \in Nat
  OBVIOUS
<1>3. ASSUME NEW k \in 1..Len(s) PROVE (s \o t)[k] = s[k]
  BY <1>1, <1>2
<1>4. ASSUME NEW k \in 1..Len(t) PROVE (s \o t)[Len(s) + k] = t[k]
  <2>1. Len(s) + k \in 1..Len(s) + Len(t) /\ ~(Len(s) + k <= Len(s)) /\ (Len(s) + k) - Len(s) = k
    BY <1>2
  <2> QED
    BY <1>1, <2>1
<1> QED
  BY <1>1, <1>3, <1>4

LEMMA Part ==
  ASSUME NEW s \in Seq(Nat), NEW m \in Nat, NEW n \in Nat, m <= n, n <= Len(s)
  PROVE  /\ SubSeq(s, m + 1, n) \in Seq(Nat) /\ Len(SubSeq(s, m + 1, n)) = n - m
         /\ \A k \in 1..n - m : SubSeq(s, m + 1, n)[k] = s[m + k]
<1>1. \A k \in m + 1..n : s[k] \in Nat
  OBVIOUS
<1>2. m + 1 \in Int /\ n \in Int
  OBVIOUS
<1>3. SubSeq(s, m + 1, n) \in Seq(Nat)
  BY <1>1, <1>2, SubSeqProperties, Zenon
<1>4. Len(SubSeq(s, m + 1, n)) = n - m
  OBVIOUS
<1>5. ASSUME NEW k \in 1..n - m PROVE SubSeq(s, m + 1, n)[k] = s[m + k]
  <2>1. SubSeq(s, m + 1, n)[k] = s[(m + 1) + (k - 1)] /\ (m + 1) + (k - 1) = m + k
    OBVIOUS
  <2> QED
    BY <2>1, Zenon
<1> QED
  BY <1>3, <1>4, <1>5

LEMMA FirstPart ==
  ASSUME NEW s \in Seq(Nat), NEW n \in Nat, n <= Len(s)
  PROVE  /\ SubSeq(s, 1, n) \in Seq(Nat) /\ Len(SubSeq(s, 1, n)) = n
         /\ \A k \in 1..n : SubSeq(s, 1, n)[k] = s[k]
<1>1. 0 \in Nat /\ 0 <= n /\ 0 + 1 = 1 /\ n - 0 = n /\ \A k \in 1..n : 0 + k = k
  OBVIOUS
<1>2. /\ SubSeq(s, 0 + 1, n) \in Seq(Nat) /\ Len(SubSeq(s, 0 + 1, n)) = n - 0
      /\ \A k \in 1..n - 0 : SubSeq(s, 0 + 1, n)[k] = s[0 + k]
  BY <1>1, Part, Zenon
<1>3. SubSeq(s, 1, n) = SubSeq(s, 0 + 1, n)
  BY <1>1, Zenon
<1>4. \A k \in 1..n : SubSeq(s, 1, n)[k] = s[k]
  BY <1>1, <1>2, <1>3, Zenon
<1> QED
  BY <1>1, <1>2, <1>3, <1>4, Zenon

LEMMA SameBytes ==
  ASSUME NEW s \in Seq(Nat), NEW t \in Seq(Nat), Len(s) = Len(t), \A k \in 1..Len(s) : s[k] = t[k]
  PROVE  s = t
BY SeqEqual

(* bincpy and bindump: a bytes from place s of the file f were copied to o, *)
(* of at most most; the file is at p, c is the last byte that was read.     *)
CopiedTo(f, s, most, tool, a, p, c, o) ==
  /\ a \in Nat /\ p = s + a /\ a <= most /\ p <= Len(f) + 1
  /\ o \in Seq(Nat) /\ Len(o) = a
  /\ c \in Seq(Nat) /\ (Len(c) = 1 \/ (Len(c) = 0 /\ a = 0 /\ tool = "bindump"))
  /\ \A k \in 1..a : s + k <= Len(f) => o[k] = f[s + k]
  /\ tool = "bindump" /\ a > 0 /\ p <= Len(f) => c[1] = f[p]
  /\ tool = "bindump" /\ p = Len(f) + 1 => s > 0 /\ o[a] = f[Len(f)]

LEMMA CopyBegins ==
  ASSUME NEW f \in Seq(Nat), NEW s \in Nat, s = 0 \/ s < Len(f), NEW most \in Nat, NEW tool,
         NEW c \in Seq(Nat), Len(c) = 1 \/ (Len(c) = 0 /\ tool = "bindump")
  PROVE  CopiedTo(f, s, most, tool, 0, s, c, <<>>)
<1>1. s <= Len(f) /\ Len(f) \in Nat /\ <<>> \in Seq(Nat) /\ Len(<<>>) = 0
  OBVIOUS
<1> QED
  BY <1>1 DEF CopiedTo

LEMMA CopyStep ==
  ASSUME NEW f \in Seq(Nat), NEW s \in Nat, s = 0 \/ s < Len(f), NEW most \in Nat, NEW tool,
         tool = "bindump" => most <= Len(f), NEW a, NEW p, NEW c, NEW o,
         CopiedTo(f, s, most, tool, a, p, c, o), a < most, p <= Len(f),
         NEW d, IF p < Len(f) THEN d \in Seq(Nat) /\ Len(d) = 1 /\ d[1] = f[p + 1] ELSE d = c
  PROVE  CopiedTo(f, s, most, tool, a + 1, p + 1, d, o \o d)
<1>1. /\ a \in Nat /\ p = s + a /\ p \in Nat /\ p <= Len(f) /\ Len(f) \in Nat
      /\ o \in Seq(Nat) /\ Len(o) = a /\ c \in Seq(Nat)
  BY DEF CopiedTo
<1>2. \A k \in 1..a : s + k <= Len(f) => o[k] = f[s + k]
  BY DEF CopiedTo
<1>3. tool = "bindump" /\ a > 0 => c[1] = f[p]
  BY <1>1 DEF CopiedTo
<1>4. Len(c) = 1 \/ (Len(c) = 0 /\ a = 0 /\ tool = "bindump")
  BY DEF CopiedTo
<1>6. a + 1 \in Nat /\ p + 1 = s + (a + 1) /\ a + 1 <= most /\ p + 1 <= Len(f) + 1
  BY <1>1
<1>7. ASSUME d \in Seq(Nat), Len(d) = 1, p < Len(f) => d[1] = f[p + 1],
             tool = "bindump" => p < Len(f) \/ (s > 0 /\ d[1] = f[Len(f)])
      PROVE  CopiedTo(f, s, most, tool, a + 1, p + 1, d, o \o d)
  <2>1. 1 \in 1..Len(d)
    BY <1>7
  <2>j. /\ o \o d \in Seq(Nat) /\ Len(o \o d) = Len(o) + Len(d)
        /\ \A k \in 1..Len(o) : (o \o d)[k] = o[k]
        /\ \A k \in 1..Len(d) : (o \o d)[Len(o) + k] = d[k]
    BY <1>1, <1>7, Joined, Zenon
  <2>2. o \o d \in Seq(Nat) /\ Len(o \o d) = a + 1 /\ (o \o d)[a + 1] = d[1]
        /\ \A k \in 1..a : (o \o d)[k] = o[k]
    BY <1>1, <1>7, <2>1, <2>j, Zenon
  <2>3. ASSUME NEW k \in 1..a + 1, s + k <= Len(f) PROVE (o \o d)[k] = f[s + k]
    <3>1. CASE k \in 1..a
      BY <1>2, <2>2, <2>3, <3>1
    <3>2. CASE k = a + 1
      <4>1. s + k = p + 1 /\ p < Len(f)
        BY <1>1, <2>3, <3>2
      <4> QED
        BY <1>7, <2>2, <3>2, <4>1
    <3>3. k \in 1..a \/ k = a + 1
      BY <1>1
    <3> QED
      BY <3>1, <3>2, <3>3
  <2>4. tool = "bindump" /\ a + 1 > 0 /\ p + 1 <= Len(f) => d[1] = f[p + 1]
    BY <1>1, <1>7
  <2>5. tool = "bindump" /\ p + 1 = Len(f) + 1 => s > 0 /\ (o \o d)[a + 1] = f[Len(f)]
    BY <1>1, <1>7, <2>2
  <2> QED
    BY <1>6, <1>7, <2>2, <2>3, <2>4, <2>5 DEF CopiedTo
<1>8. CASE p < Len(f)
  <2> QED
    BY <1>7, <1>8
<1>9. CASE p = Len(f)
  <2>1. d = c
    BY <1>1, <1>9
  <2>2. tool = "bindump" => s > 0 /\ a > 0
    BY <1>1, <1>9
  <2>3. tool = "bindump" => s > 0 /\ c[1] = f[Len(f)]
    BY <1>3, <1>9, <2>2
  <2>4. Len(c) = 1
    BY <1>4, <2>2, <1>1
  <2> QED
    BY <1>1, <1>7, <1>9, <2>1, <2>3, <2>4
<1> QED
  BY <1>1, <1>8, <1>9

(* What was copied when there is no more, or no more is wanted: the bytes  *)
(* that are wanted, or all there are and the last one once more.           *)
CopiedAll(f, s, most, a, o) == a = most /\ s + most <= Len(f) /\ o = SubSeq(f, s + 1, s + most)
CopiedMore(f, s, most, a, o) ==
  /\ Len(o) = Len(f) - s + 1 /\ a = Len(o) /\ a <= most
  /\ SubSeq(o, 1, Len(f) - s) = SubSeq(f, s + 1, Len(f))
LastAgain(f, s, o) == s > 0 /\ o[Len(o)] = f[Len(f)]

LEMMA CopyEnds ==
  ASSUME NEW f \in Seq(Nat), NEW s \in Nat, s = 0 \/ s < Len(f), NEW most \in Nat, NEW tool,
         NEW a, NEW p, NEW c, NEW o,
         CopiedTo(f, s, most, tool, a, p, c, o), ~(a < most /\ p <= Len(f))
  PROVE  \/ CopiedAll(f, s, most, a, o)
         \/ CopiedMore(f, s, most, a, o) /\ (tool = "bindump" => LastAgain(f, s, o))
<1>1. /\ a \in Nat /\ p = s + a /\ p <= Len(f) + 1 /\ a <= most
      /\ o \in Seq(Nat) /\ Len(o) = a /\ Len(f) \in Nat
  BY DEF CopiedTo
<1>2. \A k \in 1..a : s + k <= Len(f) => o[k] = f[s + k]
  BY DEF CopiedTo
<1>4. CASE p <= Len(f)
  <2>2. a = most /\ s + most <= Len(f)
    BY <1>1, <1>4
  <2>3. s + most \in Nat /\ s <= s + most /\ (s + most) - s = most
    OBVIOUS
  <2> DEFINE g == SubSeq(f, s + 1, s + most)
  <2>4. g \in Seq(Nat) /\ Len(g) = most /\ \A k \in 1..most : g[k] = f[s + k]
    BY <2>2, <2>3, Part
  <2> HIDE DEF g
  <2>5. ASSUME NEW k \in 1..Len(o) PROVE o[k] = g[k]
    <3>1. k \in 1..a /\ k \in 1..most /\ s + k <= Len(f)
      BY <1>1, <2>2
    <3> QED
      BY <1>2, <2>4, <3>1
  <2>6. o = g
    BY <1>1, <2>2, <2>4, <2>5, SameBytes
  <2> QED
    BY <2>2, <2>6 DEF g, CopiedAll
<1>5. CASE p = Len(f) + 1
  <2>1. Len(o) = Len(f) - s + 1 /\ Len(f) - s \in Nat /\ s <= Len(f) /\ Len(f) - s <= Len(o)
    BY <1>1, <1>5
  <2> DEFINE g == SubSeq(f, s + 1, Len(f))
             q == SubSeq(o, 1, Len(f) - s)
  <2>2. g \in Seq(Nat) /\ Len(g) = Len(f) - s /\ \A k \in 1..Len(f) - s : g[k] = f[s + k]
    BY <1>1, <2>1, Part
  <2>3. q \in Seq(Nat) /\ Len(q) = Len(f) - s /\ \A k \in 1..Len(f) - s : q[k] = o[k]
    BY <1>1, <2>1, FirstPart
  <2> HIDE DEF g, q
  <2>4. \A k \in 1..Len(q) : q[k] = g[k]
    BY <1>1, <1>2, <1>5, <2>1, <2>2, <2>3
  <2>5. q = g
    BY <2>1, <2>2, <2>3, <2>4, SameBytes
  <2>6. tool = "bindump" => s > 0 /\ o[Len(o)] = f[Len(f)]
    BY <1>1, <1>5 DEF CopiedTo
  <2> QED
    BY <1>1, <2>1, <2>5, <2>6 DEF g, q, CopiedMore, LastAgain
<1> QED
  BY <1>1, <1>4, <1>5

Most == IF job.tool = "bincpy" THEN job.length
        ELSE IF DumpLength > 0 /\ DumpLength < Len(job.file) THEN DumpLength ELSE Len(job.file)
CopyInv ==
  IF NoStart THEN binPc = "done" /\ out = <<>>
  ELSE /\ CopiedTo(job.file, Start, Most, job.tool, at, pos, acc, out)
       /\ eof \in BOOLEAN /\ (eof = TRUE <=> pos = Len(job.file) + 1)
       /\ binPc = "done" => ~(at < Most /\ pos <= Len(job.file))

LEMMA CopyArguments ==
  ASSUME BinJob(job), job.tool \in {"bincpy", "bindump"}
  PROVE  /\ job.file \in Seq(Nat) /\ Len(job.file) \in Nat
         /\ job.tool = "bincpy" => job.start \in Nat /\ job.length \in Nat /\ Start = job.start
         /\ job.tool = "bindump" => /\ job.start \in Int /\ job.length \in Int
                                    /\ Start = DumpStart /\ DumpLength \in Int /\ DumpStart \in Int
<1>1. CASE job.tool = "bincpy"
  BY <1>1 DEF BinJob, Start
<1>2. CASE job.tool = "bindump"
  <2>1. job.file \in Seq(Nat) /\ job.start \in Int /\ job.length \in Int
    BY <1>2 DEF BinJob
  <2>2. PICK n \in Nat : n = Len(job.file)
    BY <2>1
  <2>3. LAST_BYTES \in Nat
    BY BinConstantsOK
  <2>4. Min({n, LAST_BYTES}) \in Int
    <3>1. \E x \in {n, LAST_BYTES} : \A y \in {n, LAST_BYTES} : x =< y
      BY <2>2, <2>3
    <3> QED
      BY <2>2, <2>3, <3>1 DEF Min
  <2>5. DumpLength \in Int
    BY <2>1, <2>2, <2>4 DEF DumpLength
  <2>6. DumpStart \in Int
    BY <2>1, <2>2, <2>5 DEF DumpStart
  <2> QED
    BY <1>2, <2>1, <2>2, <2>5, <2>6 DEF Start
<1> QED
  BY <1>1, <1>2

LEMMA CopyStarts ==
  ASSUME BinJob(job), job.tool \in {"bincpy", "bindump"}, ~NoStart
  PROVE  /\ Start \in Nat /\ (Start = 0 \/ Start < Len(job.file)) /\ Most \in Nat
         /\ job.tool = "bindump" => Most <= Len(job.file)
         /\ at \in Nat => (Wanted <=> at < Most)
<1>1. /\ job.file \in Seq(Nat) /\ Len(job.file) \in Nat
      /\ job.tool = "bincpy" => job.start \in Nat /\ job.length \in Nat /\ Start = job.start
      /\ job.tool = "bindump" => /\ job.start \in Int /\ job.length \in Int
                                 /\ Start = DumpStart /\ DumpLength \in Int /\ DumpStart \in Int
  BY CopyArguments
<1>2. ~(Start > 0 /\ Start >= Len(job.file))
  BY DEF NoStart, BadStart
<1>3. CASE job.tool = "bincpy"
  BY <1>1, <1>2, <1>3 DEF Most, Wanted
<1>4. CASE job.tool = "bindump"
  <2>1. job.start < 0 => DumpStart \in 0..Len(job.file) - 1
    BY <1>4 DEF NoStart
  <2>2. ~(job.start < 0) => DumpStart = job.start
    BY DEF DumpStart
  <2>3. Start \in Nat
    BY <1>1, <1>4, <2>1, <2>2
  <2>4. Most \in Nat /\ Most <= Len(job.file)
    BY <1>1, <1>4 DEF Most
  <2>5. at \in Nat => (Wanted <=> at < Most)
    BY <1>1, <1>4 DEF Most, Wanted
  <2> QED
    BY <1>1, <1>2, <1>4, <2>3, <2>4, <2>5
<1> QED
  BY <1>3, <1>4

LEMMA CopyInit ==
  ASSUME BinInit, BinJob(job), job.tool \in {"bincpy", "bindump"}
  PROVE  CopyInv
<1>1. CASE NoStart
  BY <1>1 DEF BinInit, CopyInv
<1>2. CASE ~NoStart
  <2>1. /\ Start \in Nat /\ (Start = 0 \/ Start < Len(job.file)) /\ Most \in Nat
        /\ job.file \in Seq(Nat) /\ Len(job.file) \in Nat
    BY <1>2, CopyStarts, CopyArguments
  <2>2. acc \in Seq(Nat) /\ (Len(acc) = 1 \/ (Len(acc) = 0 /\ job.tool = "bindump"))
    <3>1. CASE job.tool = "bincpy"
      <4>1. PICK b \in Nat : acc = <<b>>
        BY <3>1, BinConstantsOK DEF BinInit
      <4> QED
        BY <4>1
    <3>2. CASE job.tool = "bindump"
      BY <3>2 DEF BinInit
    <3> QED
      BY <3>1, <3>2
  <2>3. at = 0 /\ pos = Start /\ out = <<>> /\ eof = FALSE /\ binPc = "loop"
    BY <1>2 DEF BinInit
  <2>4. CopiedTo(job.file, Start, Most, job.tool, 0, Start, acc, <<>>)
    BY <2>1, <2>2, CopyBegins
  <2>5. Start # Len(job.file) + 1
    BY <2>1
  <2> QED
    BY <1>2, <2>3, <2>4, <2>5 DEF CopyInv
<1> QED
  BY <1>1, <1>2

LEMMA CopyNext ==
  ASSUME CopyInv, BinJob(job), CopyByte
  PROVE  CopyInv'
<1>1. job.tool \in {"bincpy", "bindump"} /\ binPc = "loop" /\ job' = job
  BY DEF CopyByte, Turn
<1>2. ~NoStart
  BY <1>1 DEF CopyInv
<1>3. NoStart' = NoStart /\ Start' = Start /\ Most' = Most
  BY <1>1 DEF NoStart, Start, Most, DumpLength, DumpStart, BadStart
<1> DEFINE f == job.file
           s == Start
           most == Most
<1>4. /\ f \in Seq(Nat) /\ Len(f) \in Nat /\ s \in Nat /\ (s = 0 \/ s < Len(f)) /\ most \in Nat
      /\ job.tool = "bindump" => most <= Len(f)
      /\ at \in Nat => (Wanted <=> at < most)
  BY <1>1, <1>2, CopyStarts, CopyArguments
<1>5. /\ CopiedTo(f, s, most, job.tool, at, pos, acc, out)
      /\ eof \in BOOLEAN /\ (eof = TRUE <=> pos = Len(f) + 1)
  BY <1>2 DEF CopyInv
<1>6. at \in Nat /\ pos \in Nat /\ pos <= Len(f) + 1 /\ pos = s + at /\ acc \in Seq(Nat)
  BY <1>4, <1>5 DEF CopiedTo
<1>7. SUFFICES /\ CopiedTo(f, s, most, job.tool, at', pos', acc', out')
               /\ eof' \in BOOLEAN /\ (eof' = TRUE <=> pos' = Len(f) + 1)
               /\ binPc' = "done" => ~(at' < most /\ pos' <= Len(f))
  BY <1>1, <1>2, <1>3 DEF CopyInv
<1>8. (Wanted /\ ~eof) <=> (at < most /\ pos <= Len(f))
  <2>1. pos <= Len(f) <=> pos # Len(f) + 1
    <3>1. PICK l \in Nat : l = Len(f)
      BY <1>4, Zenon
    <3>2. PICK p \in Nat : p = pos /\ p <= l + 1
      BY <1>6, <3>1, Zenon
    <3>3. p <= l <=> p # l + 1
      BY <3>1, <3>2
    <3> QED
      BY <3>1, <3>2, <3>3, Zenon
  <2>2. ~eof <=> eof # TRUE
    BY <1>5, Zenon
  <2>3. (eof # TRUE) <=> pos <= Len(f)
    BY <1>5, <2>1, Zenon
  <2>4. Wanted <=> at < most
    BY <1>4, <1>6, Zenon
  <2> QED
    BY <2>2, <2>3, <2>4, Zenon
<1>9. CASE Wanted /\ ~eof
  <2>1. /\ acc' = IF pos < Len(f) THEN <<f[pos + 1]>> ELSE acc
        /\ eof' = (pos >= Len(f)) /\ pos' = pos + 1 /\ at' = at + 1 /\ out' = out \o acc' /\ binPc' = "loop"
    BY <1>9 DEF CopyByte
  <2>2. IF pos < Len(f) THEN acc' \in Seq(Nat) /\ Len(acc') = 1 /\ acc'[1] = f[pos + 1] ELSE acc' = acc
    <3>1. CASE pos < Len(f)
      <4>1. acc' = <<f[pos + 1]>>
        BY <2>1, <3>1
      <4>2. f[pos + 1] \in Nat
        BY <1>4, <1>6, <3>1
      <4> QED
        BY <3>1, <4>1, <4>2
    <3> QED
      BY <2>1, <3>1
  <2>3. at < most /\ pos <= Len(f)
    BY <1>8, <1>9
  <2> HIDE DEF f, s, most
  <2>4. CopiedTo(f, s, most, job.tool, at + 1, pos + 1, acc', out \o acc')
    BY <1>4, <1>5, <2>2, <2>3, CopyStep
  <2>5. eof' \in BOOLEAN /\ (eof' = TRUE <=> pos + 1 = Len(f) + 1)
    <3>1. pos >= Len(f) <=> pos + 1 = Len(f) + 1
      BY <1>4, <1>6, <2>3
    <3>2. eof' \in BOOLEAN /\ (eof' = TRUE <=> pos >= Len(f))
      <4>1. CASE pos >= Len(f)
        BY <2>1, <4>1, Zenon
      <4>2. CASE ~(pos >= Len(f))
        <5>1. eof' = FALSE
          <6>1. \A p \in BOOLEAN : ~p => p = FALSE
            OBVIOUS
          <6>2. (pos >= Len(f)) \in BOOLEAN
            BY <1>4, <1>6
          <6>3. eof' \in BOOLEAN
            BY <2>1, <6>2, Zenon
          <6>4. ~eof'
            BY <2>1, <4>2, Zenon
          <6> QED
            BY <6>1, <6>3, <6>4, Zenon
        <5>2. eof' \in BOOLEAN /\ eof' # TRUE
          BY <5>1
        <5> QED
          BY <4>2, <5>2, Zenon
      <4> QED
        BY <4>1, <4>2
    <3> QED
      BY <3>1, <3>2, Zenon
  <2> QED
    BY <2>1, <2>4, <2>5
<1>10. CASE ~(Wanted /\ ~eof)
  <2>1. acc' = acc /\ eof' = eof /\ pos' = pos /\ at' = at /\ out' = out
    BY <1>10 DEF CopyByte
  <2> QED
    BY <1>5, <1>8, <1>10, <2>1
<1> QED
  BY <1>9, <1>10

LEMMA CopyExact ==
  ASSUME CopyInv, BinJob(job), binPc = "done", job.tool = "bincpy"
  PROVE  CopiedSlice
<1> DEFINE f == job.file
           s == job.start
           n == job.length
<1>1. f \in Seq(Nat) /\ Len(f) \in Nat /\ s \in Nat /\ n \in Nat /\ Start = s
  BY CopyArguments
<1>2. CASE BadStart(s)
  BY <1>1, <1>2 DEF CopyInv, NoStart, CopiedSlice
<1>3. CASE ~BadStart(s)
  <2>1. ~NoStart /\ Most = n /\ (s = 0 \/ s < Len(f))
    BY <1>1, <1>3 DEF NoStart, BadStart, Most
  <2>2. CopiedTo(f, s, n, job.tool, at, pos, acc, out) /\ ~(at < n /\ pos <= Len(f))
    BY <1>1, <2>1 DEF CopyInv
  <2> HIDE DEF f, s, n
  <2>3. \/ at = n /\ s + n <= Len(f) /\ out = SubSeq(f, s + 1, s + n)
        \/ /\ Len(out) = Len(f) - s + 1 /\ at = Len(out) /\ at <= n
           /\ SubSeq(out, 1, Len(f) - s) = SubSeq(f, s + 1, Len(f))
    <3>1. /\ f \in Seq(Nat) /\ s \in Nat /\ n \in Nat /\ (s = 0 \/ s < Len(f))
          /\ CopiedTo(f, s, n, job.tool, at, pos, acc, out) /\ ~(at < n /\ pos <= Len(f))
      BY <1>1, <2>1, <2>2, Zenon
    <3>2. CopiedAll(f, s, n, at, out) \/ CopiedMore(f, s, n, at, out)
      BY <3>1, CopyEnds, Zenon
    <3> QED
      BY <3>2 DEF CopiedAll, CopiedMore
  <2> DEFINE end == Min({s + n, Len(f)})
  <2>4. end = IF s + n <= Len(f) THEN s + n ELSE Len(f)
    BY <1>1 DEF Min
  <2> HIDE DEF end
  <2>5. Slice = SubSeq(f, s + 1, end)
    BY DEF Slice, end, f, s, n
  <2>6. CASE at = n /\ s + n <= Len(f) /\ out = SubSeq(f, s + 1, s + n)
    <3>1. out = Slice
      BY <2>4, <2>5, <2>6
    <3> QED
      BY <1>3, <3>1 DEF CopiedSlice, s
  <2>7. CASE /\ Len(out) = Len(f) - s + 1 /\ at = Len(out) /\ at <= n
             /\ SubSeq(out, 1, Len(f) - s) = SubSeq(f, s + 1, Len(f))
    <3>1. end = Len(f) /\ s <= Len(f) /\ n > Len(f) - s
      BY <1>1, <2>1, <2>4, <2>7
    <3>2. Slice \in Seq(Nat) /\ Len(Slice) = Len(f) - s
      BY <1>1, <2>5, <3>1, Part
    <3>3. SubSeq(Slice, 1, Len(f) - s) = Slice
      BY <3>2
    <3>4. IsPrefix(Slice, out) /\ Len(out) = Len(Slice) + 1 /\ n > Len(Slice)
      BY <1>1, <2>5, <2>7, <3>1, <3>2, <3>3 DEF IsPrefix
    <3> QED
      BY <1>3, <3>4 DEF CopiedSlice, s, n
  <2> QED
    BY <2>3, <2>6, <2>7
<1> QED
  BY <1>2, <1>3

LEMMA DumpExact ==
  ASSUME CopyInv, BinJob(job), binPc = "done", job.tool = "bindump"
  PROVE  DumpedBytes
<1> DEFINE f == job.file
           s == job.start
           n == job.length
<1>1. f \in Seq(Nat) /\ Len(f) \in Nat /\ s \in Int /\ n \in Int /\ Start = DumpStart
      /\ DumpLength \in Int /\ DumpStart \in Int
  BY CopyArguments
<1>2. LAST_BYTES \in Nat /\ LAST_BYTES >= 1
  <2>1. LAST_BYTES \in Nat \ {0}
    BY BinConstantsOK, Zenon
  <2> QED
    BY <2>1
<1> DEFINE rest == SubSeq(f, s + 1, Len(f))
           tail == IF n = 0 THEN LAST_BYTES ELSE n
<1>3. CASE s >= 0
  <2>1. SUFFICES out = IF n \in 1..Len(rest) THEN SubSeq(rest, 1, n)
                       ELSE IF s = 0 \/ rest = <<>> THEN rest ELSE Append(rest, Last(rest))
    BY <1>1, <1>3 DEF DumpedBytes
  <2>2. DumpLength = n /\ Start = s /\ s \in Nat
    BY <1>1, <1>3 DEF DumpLength, DumpStart
  <2>3. NoStart <=> (s > 0 /\ s >= Len(f))
    BY <1>1, <1>3, <2>2 DEF NoStart, BadStart
  <2>4. CASE NoStart
    <3>1. out = <<>>
      BY <2>4 DEF CopyInv
    <3>2. s + 1 \in Int /\ Len(f) \in Int /\ Len(f) < s + 1
      BY <1>1, <2>2, <2>3, <2>4
    <3>3. rest = <<>> /\ Len(rest) = 0
      BY <3>2, SubSeqEmpty
    <3> HIDE DEF rest
    <3> QED
      BY <1>1, <3>1, <3>3
  <2>5. CASE ~NoStart
    <3>1. /\ CopiedTo(f, s, Most, job.tool, at, pos, acc, out) /\ ~(at < Most /\ pos <= Len(f))
          /\ (s = 0 \/ s < Len(f)) /\ Most \in Nat
      BY <2>2, <2>5, CopyStarts DEF CopyInv
    <3>2. Most = IF n > 0 /\ n < Len(f) THEN n ELSE Len(f)
      BY <2>2 DEF Most
    <3> DEFINE most == Most
    <3>3. PICK r \in Nat : r = Len(f) - s
      BY <1>1, <2>2, <3>1
    <3>4. rest \in Seq(Nat) /\ Len(rest) = r /\ \A k \in 1..r : rest[k] = f[s + k]
      <4>1. Len(f) \in Nat /\ s <= Len(f) /\ Len(f) <= Len(f)
        BY <1>1, <2>2, <3>1
      <4>2. /\ rest \in Seq(Nat) /\ Len(rest) = Len(f) - s
            /\ \A k \in 1..Len(f) - s : rest[k] = f[s + k]
        BY <1>1, <2>2, <4>1, Part, Zenon
      <4> QED
        BY <3>3, <4>2, Zenon
    <3> HIDE DEF f, s, n, rest, most
    <3>5. \/ at = most /\ s + most <= Len(f) /\ out = SubSeq(f, s + 1, s + most)
          \/ /\ Len(out) = Len(f) - s + 1 /\ at = Len(out) /\ at <= most
             /\ SubSeq(out, 1, Len(f) - s) = SubSeq(f, s + 1, Len(f))
             /\ s > 0 /\ out[Len(out)] = f[Len(f)]
      <4>1. /\ f \in Seq(Nat) /\ s \in Nat /\ most \in Nat /\ (s = 0 \/ s < Len(f))
            /\ CopiedTo(f, s, most, job.tool, at, pos, acc, out) /\ ~(at < most /\ pos <= Len(f))
        BY <1>1, <2>2, <3>1, Zenon DEF most
      <4>2. \/ CopiedAll(f, s, most, at, out)
            \/ CopiedMore(f, s, most, at, out) /\ (job.tool = "bindump" => LastAgain(f, s, out))
        BY <4>1, CopyEnds, Zenon
      <4> QED
        BY <4>2 DEF CopiedAll, CopiedMore, LastAgain
    <3>6. most \in Nat /\ most = IF n > 0 /\ n < Len(f) THEN n ELSE Len(f)
      BY <3>1, <3>2 DEF most
    <3>7. CASE at = most /\ s + most <= Len(f) /\ out = SubSeq(f, s + 1, s + most)
      <4>1. most <= r /\ s <= s + most /\ s + most \in Nat /\ (s + most) - s = most
        BY <1>1, <2>2, <3>3, <3>6, <3>7
      <4>2. out \in Seq(Nat) /\ Len(out) = most /\ \A k \in 1..most : out[k] = f[s + k]
        <5>1. /\ SubSeq(f, s + 1, s + most) \in Seq(Nat)
              /\ Len(SubSeq(f, s + 1, s + most)) = (s + most) - s
              /\ \A k \in 1..(s + most) - s : SubSeq(f, s + 1, s + most)[k] = f[s + k]
          BY <1>1, <2>2, <3>7, <4>1, Part, Zenon
        <5> QED
          BY <3>7, <4>1, <5>1, Zenon
      <4>3. CASE n \in 1..r
        <5>1. most = n
          BY <1>1, <2>2, <3>3, <3>6, <3>7, <4>1, <4>3
        <5> DEFINE g == SubSeq(rest, 1, n)
        <5>2. g \in Seq(Nat) /\ Len(g) = n /\ \A k \in 1..n : g[k] = rest[k]
          BY <3>4, <4>3, FirstPart
        <5> HIDE DEF g
        <5>3. ASSUME NEW k \in 1..Len(out) PROVE out[k] = g[k]
          <6>1. k \in 1..n /\ k \in 1..r /\ k \in 1..most
            BY <4>1, <4>2, <4>3, <5>1, <5>3
          <6> QED
            BY <3>4, <4>2, <5>2, <6>1
        <5>4. out = g
          BY <4>2, <5>1, <5>2, <5>3, SameBytes
        <5> QED
          BY <3>4, <4>3, <5>4 DEF g
      <4>4. CASE n \notin 1..r
        <5>1. most = r /\ s = 0
          BY <1>1, <2>2, <3>3, <3>6, <4>1, <4>4
        <5>2. ASSUME NEW k \in 1..Len(out) PROVE out[k] = rest[k]
          BY <3>4, <4>2, <5>1
        <5>3. out = rest
          BY <3>4, <4>2, <5>1, <5>2, SameBytes
        <5> QED
          BY <3>4, <4>4, <5>1, <5>3
      <4> QED
        BY <4>3, <4>4
    <3>8. CASE /\ Len(out) = Len(f) - s + 1 /\ at = Len(out) /\ at <= most
               /\ SubSeq(out, 1, Len(f) - s) = SubSeq(f, s + 1, Len(f))
               /\ s > 0 /\ out[Len(out)] = f[Len(f)]
      <4>1. Len(out) = r + 1 /\ r + 1 <= most /\ s < Len(f) /\ r >= 1
        BY <1>1, <2>2, <3>1, <3>3, <3>8
      <4>2. n \notin 1..r /\ s # 0
        <5>1. s # 0 /\ Len(f) - s = r /\ s > 0
          BY <3>3, <3>8
        <5>2. PICK l \in Nat, t \in Nat, m \in Int : l = Len(f) /\ t = s /\ m = n
          BY <1>1, <2>2, Zenon
        <5>3. l = r + t /\ t > 0 /\ most = IF m > 0 /\ m < l THEN m ELSE l
          BY <3>6, <5>1, <5>2
        <5>4. m \notin 1..r
          <6>1. r + 1 <= most
            BY <4>1, Zenon
          <6> QED
            BY <3>6, <5>3, <6>1
        <5> QED
          BY <5>1, <5>2, <5>4, Zenon
      <4>3. rest # <<>>
        BY <3>4, <4>1
      <4>4. Last(rest) = f[Len(f)]
        <5>1. Last(rest) = rest[r] /\ r \in 1..r /\ s + r = Len(f)
          BY <1>1, <2>2, <3>3, <3>4, <4>1 DEF Last
        <5> QED
          BY <3>4, <5>1
      <4>5. Last(rest) \in Nat
        BY <1>1, <4>1, <4>4, <2>2
      <4> DEFINE g == Append(rest, Last(rest))
      <4>6. g \in Seq(Nat) /\ Len(g) = r + 1 /\ g[r + 1] = Last(rest) /\ \A k \in 1..r : g[k] = rest[k]
        BY <3>4, <4>5, AppendProperties
      <4> HIDE DEF g
      <4>7. SubSeq(out, 1, r) = rest /\ out \in Seq(Nat)
        BY <3>1, <3>3, <3>8 DEF rest, CopiedTo
      <4>8. \A k \in 1..r : SubSeq(out, 1, r)[k] = out[k]
        BY <4>1, <4>7, FirstPart
      <4>9. ASSUME NEW k \in 1..Len(out) PROVE out[k] = g[k]
        <5>1. CASE k \in 1..r
          BY <4>6, <4>7, <4>8, <5>1
        <5>2. CASE k = r + 1
          BY <3>8, <4>1, <4>4, <4>6, <5>2
        <5>3. k \in 1..r \/ k = r + 1
          BY <4>1
        <5> QED
          BY <5>1, <5>2, <5>3
      <4>10. out = g
        BY <4>1, <4>6, <4>7, <4>9, SameBytes
      <4> QED
        BY <3>4, <4>2, <4>3, <4>10 DEF g
    <3> QED
      BY <3>5, <3>7, <3>8
  <2> QED
    BY <2>4, <2>5
<1>4. CASE s < 0
  <2> DEFINE m == IF n = 0 THEN (IF Len(f) <= LAST_BYTES THEN Len(f) ELSE LAST_BYTES) ELSE n
             from == IF Len(f) - tail >= 0 THEN Len(f) - tail ELSE 0
  <2>1. Min({Len(f), LAST_BYTES}) = IF Len(f) <= LAST_BYTES THEN Len(f) ELSE LAST_BYTES
    BY <1>1, <1>2 DEF Min
  <2>2. Max({Len(f) - tail, 0}) = from
    BY <1>1, <1>2 DEF Max
  <2>3. SUFFICES out = IF n > Len(f) THEN <<>> ELSE SubSeq(f, from + 1, Len(f))
    BY <1>1, <1>4, <2>2 DEF DumpedBytes
  <2>4. DumpLength = m /\ DumpStart = Len(f) - m /\ Start = Len(f) - m /\ m \in Int
    BY <1>1, <1>2, <1>4, <2>1 DEF DumpLength, DumpStart
  <2>5. NoStart <=> ~(m \in 1..Len(f))
    <3>1. NoStart <=> \/ Start > 0 /\ Start >= Len(f)
                     \/ DumpStart \notin 0..Len(f) - 1
      BY <1>1, <1>4 DEF NoStart, BadStart
    <3> HIDE DEF m, f, s, n
    <3> QED
      BY <1>1, <2>4, <3>1
  <2>6. from \in Int
    BY <1>1, <1>2
  <2>7. CASE NoStart
    <3>1. out = <<>>
      BY <2>7 DEF CopyInv
    <3>2. n > Len(f) \/ from >= Len(f)
      BY <1>1, <1>2, <2>5, <2>7
    <3> HIDE DEF m, f, s, n, from
    <3>3. ~(n > Len(f)) => SubSeq(f, from + 1, Len(f)) = <<>>
      <4> SUFFICES ASSUME ~(n > Len(f)) PROVE SubSeq(f, from + 1, Len(f)) = <<>>
        OBVIOUS
      <4>1. from + 1 \in Int /\ Len(f) \in Int /\ Len(f) < from + 1
        BY <1>1, <2>6, <3>2
      <4> QED
        BY <4>1, SubSeqEmpty
    <3> QED
      BY <3>1, <3>3
  <2>8. CASE ~NoStart
    <3>1. m \in 1..Len(f) /\ m \in Nat /\ Len(f) - m \in Nat
      BY <1>1, <2>4, <2>5, <2>8
    <3>2. Most = m
      BY <1>1, <2>4, <3>1 DEF Most
    <3>3. /\ CopiedTo(f, Len(f) - m, m, job.tool, at, pos, acc, out) /\ ~(at < m /\ pos <= Len(f))
          /\ (Len(f) - m = 0 \/ Len(f) - m < Len(f))
      BY <2>4, <2>8, <3>2, CopyStarts DEF CopyInv
    <3>4. from = Len(f) - m /\ ~(n > Len(f))
      BY <1>1, <1>2, <3>1
    <3> HIDE DEF m, f, s, n, from
    <3>5. PICK b \in Nat : b = Len(f) - m
      BY <3>1
    <3>6. CopiedTo(f, b, m, job.tool, at, pos, acc, out) /\ (b = 0 \/ b < Len(f))
      BY <3>3, <3>5
    <3>7. \/ at = m /\ b + m <= Len(f) /\ out = SubSeq(f, b + 1, b + m)
          \/ Len(out) = Len(f) - b + 1 /\ at = Len(out) /\ at <= m
      <4>1. CopiedAll(f, b, m, at, out) \/ CopiedMore(f, b, m, at, out)
        BY <1>1, <3>1, <3>3, <3>6, CopyEnds, Zenon
      <4> QED
        BY <4>1 DEF CopiedAll, CopiedMore
    <3>8. b + m = Len(f) /\ Len(f) - b + 1 = m + 1
      BY <1>1, <3>1, <3>5
    <3>9. out = SubSeq(f, b + 1, Len(f))
      BY <3>1, <3>7, <3>8
    <3> QED
      BY <3>4, <3>5, <3>9
  <2> QED
    BY <2>7, <2>8
<1> QED
  BY <1>1, <1>3, <1>4
-----------------------------------------------------------------------------
(* binedit: a bytes of v were put over those of f from place s.            *)
EditedTo(f, s, v, a, o) ==
  /\ a \in Nat /\ a <= Len(v) /\ o \in Seq(Nat)
  /\ Len(o) = IF s + a <= Len(f) THEN Len(f) ELSE s + a
  /\ \A k \in 1..Len(o) : o[k] = IF k > s /\ k <= s + a THEN v[k - s] ELSE f[k]

LEMMA EditStep ==
  ASSUME NEW f \in Seq(Nat), NEW s \in Nat, s <= Len(f), NEW v \in Seq(Nat), NEW a, NEW o,
         EditedTo(f, s, v, a, o), a < Len(v), NEW l \in Nat, l = IF s + a < Len(o) THEN Len(o) ELSE s + a + 1,
         NEW q \in Seq(Nat), Len(q) = l,
         \A k \in 1..l : q[k] = IF k = s + a + 1 THEN v[a + 1] ELSE o[k]
  PROVE  EditedTo(f, s, v, a + 1, q)
<1>1. /\ a \in Nat /\ o \in Seq(Nat) /\ Len(o) \in Nat /\ Len(f) \in Nat /\ Len(v) \in Nat
      /\ Len(o) = IF s + a <= Len(f) THEN Len(f) ELSE s + a
  BY DEF EditedTo
<1>2. \A k \in 1..Len(o) : o[k] = IF k > s /\ k <= s + a THEN v[k - s] ELSE f[k]
  BY DEF EditedTo
<1>3. l = IF s + (a + 1) <= Len(f) THEN Len(f) ELSE s + (a + 1)
  BY <1>1
<1>4. ASSUME NEW k \in 1..l PROVE q[k] = IF k > s /\ k <= s + (a + 1) THEN v[k - s] ELSE f[k]
  <2>1. CASE k = s + a + 1
    <3>1. k > s /\ k <= s + (a + 1) /\ k - s = a + 1
      BY <1>1, <2>1
    <3>2. q[k] = v[a + 1]
      BY <2>1, Zenon
    <3> QED
      BY <3>1, <3>2
  <2>2. CASE k # s + a + 1
    <3>1. q[k] = o[k]
      BY <2>2, Zenon
    <3>2. k \in 1..Len(o)
      BY <1>1, <2>2
    <3>3. (k > s /\ k <= s + a) <=> (k > s /\ k <= s + (a + 1))
      <4>1. PICK b \in Nat, c \in Nat : b = s + a /\ c = s + (a + 1) /\ c = b + 1
        BY <1>1
      <4>2. k # c /\ k \in Int
        BY <2>2, <4>1
      <4>3. k <= b <=> k <= c
        BY <4>1, <4>2
      <4> QED
        BY <4>1, <4>3, Zenon
    <3> QED
      BY <1>2, <3>1, <3>2, <3>3, Zenon
  <2> QED
    BY <2>1, <2>2
<1>5. a + 1 \in Nat /\ a + 1 <= Len(v)
  BY <1>1
<1> QED
  BY <1>3, <1>4, <1>5 DEF EditedTo

LEMMA EditEnds ==
  ASSUME NEW f \in Seq(Nat), NEW s \in Nat, s <= Len(f), NEW v \in Seq(Nat), NEW o,
         EditedTo(f, s, v, Len(v), o)
  PROVE  o = SubSeq(f, 1, s) \o v \o SubSeq(f, s + Len(v) + 1, Len(f))
<1> DEFINE x == SubSeq(f, 1, s)
           z == SubSeq(f, s + Len(v) + 1, Len(f))
<1>1. PICK n \in Nat, l \in Nat : n = Len(v) /\ l = Len(f)
  OBVIOUS
<1>2. o \in Seq(Nat) /\ Len(o) = IF s + n <= l THEN l ELSE s + n
  BY <1>1 DEF EditedTo
<1>3. ASSUME NEW k \in 1..Len(o) PROVE o[k] = IF k > s /\ k <= s + n THEN v[k - s] ELSE f[k]
  BY <1>1 DEF EditedTo
<1>4. x \in Seq(Nat) /\ Len(x) = s /\ \A k \in 1..s : x[k] = f[k]
  BY FirstPart
<1>5. PICK h \in Nat : h = IF s + n <= l THEN l - (s + n) ELSE 0
  <2>1. (IF s + n <= l THEN l - (s + n) ELSE 0) \in Nat
    OBVIOUS
  <2> QED
    BY <2>1, Zenon
<1>6. z \in Seq(Nat) /\ Len(z) = h /\ \A k \in 1..h : z[k] = f[(s + n) + k]
  <2>1. CASE s + n <= l
    <3>1. s + n \in Nat /\ s + n <= Len(f) /\ Len(f) \in Nat /\ Len(f) <= Len(f) /\ Len(f) - (s + n) = h
      BY <1>1, <1>5, <2>1
    <3>2. /\ SubSeq(f, (s + n) + 1, Len(f)) \in Seq(Nat) /\ Len(SubSeq(f, (s + n) + 1, Len(f))) = Len(f) - (s + n)
          /\ \A k \in 1..Len(f) - (s + n) : SubSeq(f, (s + n) + 1, Len(f))[k] = f[(s + n) + k]
      BY <3>1, Part, ZenonT(30)
    <3>3. z = SubSeq(f, (s + n) + 1, Len(f))
      BY <1>1, Zenon
    <3> QED
      BY <3>1, <3>2, <3>3, Zenon
  <2>2. CASE ~(s + n <= l)
    <3>1. (s + n) + 1 \in Int /\ Len(f) \in Int /\ Len(f) < (s + n) + 1 /\ h = 0
      BY <1>1, <1>5, <2>2
    <3>2. SubSeq(f, (s + n) + 1, Len(f)) = <<>>
      BY <3>1, SubSeqEmpty
    <3>3. z = <<>>
      BY <1>1, <3>2, Zenon
    <3> HIDE DEF z
    <3> QED
      BY <3>1, <3>3
  <2> QED
    BY <2>1, <2>2
<1> HIDE DEF x, z
<1>7. /\ x \o v \in Seq(Nat) /\ Len(x \o v) = s + n
      /\ \A k \in 1..s : (x \o v)[k] = x[k]
      /\ \A k \in 1..n : (x \o v)[s + k] = v[k]
  BY <1>1, <1>4, Joined
<1> DEFINE w == x \o v
           y == w \o z
<1> HIDE DEF w
<1>8. /\ y \in Seq(Nat) /\ Len(y) = (s + n) + h
      /\ \A k \in 1..s + n : y[k] = w[k]
      /\ \A k \in 1..h : y[(s + n) + k] = z[k]
  <2>1. w \in Seq(Nat) /\ Len(w) = s + n
    BY <1>7 DEF w
  <2> QED
    <3>1. /\ y \in Seq(Nat) /\ Len(y) = Len(w) + Len(z)
          /\ \A k \in 1..Len(w) : y[k] = w[k]
          /\ \A k \in 1..Len(z) : y[Len(w) + k] = z[k]
      BY <1>6, <2>1, Joined, Zenon
    <3> QED
      BY <1>6, <2>1, <3>1, Zenon
<1> HIDE DEF y
<1>9. ASSUME NEW k \in 1..Len(o) PROVE o[k] = y[k]
  <2>1. CASE k <= s
    <3>1. k \in 1..s /\ k \in 1..s + n /\ ~(k > s)
      BY <1>1, <2>1
    <3> QED
      BY <1>3, <1>4, <1>7, <1>8, <3>1 DEF w
  <2>2. CASE k > s /\ k <= s + n
    <3>1. PICK j \in 1..n : k = s + j
      BY <1>1, <2>2
    <3>2. k \in 1..s + n /\ k - s = j
      BY <1>1, <3>1
    <3>3. y[k] = v[j]
      BY <1>7, <1>8, <3>1, <3>2, Zenon DEF w
    <3> QED
      BY <1>3, <2>2, <3>2, <3>3
  <2>3. CASE k > s + n
    <3>0. k \in Nat /\ h = l - (s + n) /\ k <= l
      BY <1>1, <1>2, <1>5, <2>3
    <3>1. PICK j \in 1..h : k = (s + n) + j
      <4>1. k - (s + n) \in 1..h /\ k = (s + n) + (k - (s + n))
        BY <2>3, <3>0
      <4> QED
        BY <4>1, Zenon
    <3>2. y[k] = f[k]
      BY <1>6, <1>8, <3>1, Zenon
    <3>3. ~(k > s /\ k <= s + n)
      BY <1>1, <2>3
    <3> QED
      BY <1>3, <3>2, <3>3
  <2> QED
    BY <1>1, <1>2, <2>1, <2>2, <2>3
<1>10. Len(o) = Len(y)
  <2>1. (s + n) + h = IF s + n <= l THEN l ELSE s + n
    BY <1>5
  <2> QED
    BY <1>2, <1>8, <2>1, Zenon
<1> QED
  BY <1>2, <1>8, <1>9, <1>10, SameBytes DEF y, w, x, z

EditInv ==
  IF NoStart THEN binPc = "done" /\ out = job.file
  ELSE /\ EditedTo(job.file, job.start, job.value, at, out) /\ pos = job.start + at
       /\ binPc = "done" => at = Len(job.value)

LEMMA EditArguments ==
  ASSUME BinJob(job), job.tool = "binedit"
  PROVE  /\ job.file \in Seq(Nat) /\ Len(job.file) \in Nat /\ job.start \in Nat /\ job.value \in Seq(Nat)
         /\ Start = job.start /\ (NoStart <=> BadStart(job.start))
         /\ ~NoStart => job.start <= Len(job.file)
<1>1. job.file \in Seq(Nat) /\ Len(job.file) \in Nat /\ job.start \in Nat /\ job.value \in Seq(Nat)
  BY DEF BinJob
<1>2. Start = job.start
  BY DEF Start
<1>3. NoStart <=> BadStart(job.start)
  BY <1>2 DEF NoStart
<1> QED
  BY <1>1, <1>2, <1>3 DEF BadStart

LEMMA EditInit ==
  ASSUME BinInit, BinJob(job), job.tool = "binedit"
  PROVE  EditInv
<1>1. CASE NoStart
  BY <1>1 DEF BinInit, EditInv
<1>2. CASE ~NoStart
  <2>1. at = 0 /\ pos = job.start + at /\ out = job.file /\ binPc = "loop"
    BY <1>2, EditArguments DEF BinInit
  <2>2. EditedTo(job.file, job.start, job.value, 0, job.file)
    BY <1>2, EditArguments DEF EditedTo
  <2> QED
    BY <1>2, <2>1, <2>2 DEF EditInv
<1> QED
  BY <1>1, <1>2

LEMMA EditNext ==
  ASSUME EditInv, BinJob(job), EditByte
  PROVE  EditInv'
<1>1. job.tool = "binedit" /\ binPc = "loop" /\ job' = job
  BY DEF EditByte, Turn
<1>2. ~NoStart
  BY <1>1 DEF EditInv
<1>3. NoStart' = NoStart
  BY <1>1 DEF NoStart, Start, DumpLength, DumpStart, BadStart
<1> DEFINE f == job.file
           s == job.start
           v == job.value
<1>4. f \in Seq(Nat) /\ s \in Nat /\ s <= Len(f) /\ v \in Seq(Nat)
  BY <1>1, <1>2, EditArguments
<1>5. EditedTo(f, s, v, at, out) /\ pos = s + at
  BY <1>2 DEF EditInv
<1>6. at \in Nat /\ at <= Len(v) /\ Len(v) \in Nat
  BY <1>4, <1>5 DEF EditedTo
<1>7. SUFFICES EditedTo(f, s, v, at', out') /\ pos' = s + at' /\ (binPc' = "done" => at' = Len(v))
  BY <1>1, <1>2, <1>3 DEF EditInv
<1>8. CASE at < Len(v)
  <2>1. /\ out' = [k \in 1..IF pos < Len(out) THEN Len(out) ELSE pos + 1 |->
                    IF k = pos + 1 THEN v[at + 1] ELSE out[k]]
        /\ at' = at + 1 /\ pos' = pos + 1 /\ binPc' = "loop"
    BY <1>8 DEF EditByte
  <2>2. EditedTo(f, s, v, at + 1, out')
    <3> HIDE DEF f, s, v
    <3>1. s + at \in Nat /\ out \in Seq(Nat) /\ Len(out) \in Nat /\ pos = s + at
      BY <1>4, <1>5, <1>6 DEF EditedTo
    <3>2. PICK l \in Nat : l = (IF s + at < Len(out) THEN Len(out) ELSE s + at + 1)
      <4>1. (IF s + at < Len(out) THEN Len(out) ELSE s + at + 1) \in Nat
        BY <3>1
      <4> QED
        BY <4>1, Zenon
    <3>3. out' = [k \in 1..l |-> IF k = s + at + 1 THEN v[at + 1] ELSE out[k]]
      BY <2>1, <3>1, <3>2, Zenon
    <3>4. \A k \in 1..l : out'[k] = IF k = s + at + 1 THEN v[at + 1] ELSE out[k]
      BY <3>3, Zenon
    <3>5. ASSUME NEW k \in 1..l PROVE out'[k] \in Nat
      <4>1. CASE k = s + at + 1
        <5>1. at + 1 \in 1..Len(v)
          BY <1>6, <1>8
        <5>2. v[at + 1] \in Nat
          BY <1>4, <5>1
        <5> QED
          BY <3>4, <4>1, <5>2, Zenon
      <4>2. CASE k # s + at + 1
        <5>1. k \in 1..Len(out)
          <6>1. PICK b \in Nat, m \in Nat : b = s + at /\ m = Len(out)
            BY <3>1, Zenon
          <6>2. l = (IF b < m THEN m ELSE b + 1) /\ k # b + 1 /\ k \in 1..l
            BY <3>2, <4>2, <6>1, Zenon
          <6>3. m >= b
            BY <1>5, <6>1 DEF EditedTo
          <6>4. k \in 1..m
            BY <6>1, <6>2, <6>3
          <6> QED
            BY <6>1, <6>4, Zenon
        <5> QED
          BY <3>1, <3>4, <4>2, <5>1
      <4> QED
        BY <4>1, <4>2
    <3>6. out' \in [1..l -> Nat]
      BY <3>3, <3>5
    <3>7. out' \in Seq(Nat) /\ Len(out') = l
      <4> DEFINE q == out'
      <4>1. q \in [1..l -> Nat]
        BY <3>6
      <4> HIDE DEF q
      <4>2. q \in Seq(Nat) /\ Len(q) = l
        BY <3>2, <4>1
      <4> QED
        BY <4>2 DEF q
    <3> QED
      BY <1>4, <1>5, <1>8, <3>2, <3>4, <3>7, EditStep, Zenon
  <2>3. pos' = s + at'
    <3> HIDE DEF s
    <3>1. pos + 1 = s + (at + 1)
      BY <1>4, <1>5, <1>6
    <3> QED
      BY <2>1, <3>1, Zenon
  <2> QED
    BY <2>1, <2>2, <2>3
<1>9. CASE ~(at < Len(v))
  <2>1. out' = out /\ at' = at /\ pos' = pos
    BY <1>9 DEF EditByte
  <2> QED
    BY <1>5, <1>6, <1>9, <2>1
<1> QED
  BY <1>8, <1>9

LEMMA EditExact ==
  ASSUME EditInv, BinJob(job), binPc = "done", job.tool = "binedit"
  PROVE  EditedFile
<1>1. CASE NoStart
  BY <1>1, EditArguments DEF EditInv, EditedFile
<1>2. CASE ~NoStart
  <2>1. EditedTo(job.file, job.start, job.value, Len(job.value), out)
    BY <1>2 DEF EditInv
  <2> QED
    BY <1>2, <2>1, EditArguments, EditEnds DEF EditedFile
<1> QED
  BY <1>1, <1>2
-----------------------------------------------------------------------------
(* binendian: q words of w bytes of f were turned, and j bytes of the next *)
(* are in c.                                                               *)
TurnedTo(f, w, q, j, a, c, o) ==
  /\ q \in Nat /\ j \in 0..w - 1 /\ a = q * w + j /\ a <= Len(f)
  /\ o \in Seq(Nat) /\ Len(o) = q * w
  /\ \A n \in 0..q - 1, i \in 1..w : o[n * w + i] = f[n * w + (w + 1 - i)]
  /\ j > 0 => c \in [1..w -> Nat] /\ \A i \in 1..w : c[i] = IF i <= j THEN f[q * w + i] ELSE 0
TurnedAll(f, w, q, o) ==
  /\ q \in Nat /\ o \in Seq(Nat) /\ Len(o) = q * w
  /\ Len(f) <= q * w /\ q * w < Len(f) + w
  /\ \A n \in 0..q - 1, i \in 1..w :
       o[n * w + i] = IF n * w + (w + 1 - i) <= Len(f) THEN f[n * w + (w + 1 - i)] ELSE 0

LEMMA WordRows ==
  ASSUME NEW w \in Nat \ {0}, NEW q \in Nat
  PROVE  /\ q * w \in Nat /\ (q + 1) * w = q * w + w
         /\ \A n \in 0..q - 1 : n * w \in Nat /\ n * w + w <= q * w
<1>1. q * w \in Nat /\ (q + 1) * w = q * w + w
  OBVIOUS
<1>2. ASSUME NEW n \in 0..q - 1 PROVE n * w \in Nat /\ n * w + w <= q * w
  <2>1. PICK d \in Nat : q = (n + 1) + d
    <3>1. q - (n + 1) \in Nat /\ q = (n + 1) + (q - (n + 1))
      OBVIOUS
    <3> QED
      BY <3>1, Zenon
  <2>2. ((n + 1) + d) * w = (n * w + w) + d * w /\ d * w \in Nat /\ n * w \in Nat
    OBVIOUS
  <2>3. q * w = (n * w + w) + d * w
    BY <2>1, <2>2, Zenon
  <2>4. d * w >= 0
    BY <2>2
  <2> QED
    BY <1>1, <2>2, <2>3, <2>4
<1> QED
  BY <1>1, <1>2

LEMMA Inside ==
  ASSUME NEW w \in Nat, NEW i \in 1..w, NEW b \in Nat, NEW e \in Nat, b + w <= e
  PROVE  b + i \in 1..e /\ w + 1 - i \in 1..w /\ b + (w + 1 - i) \in 1..e
OBVIOUS

(* A word that is written: its bytes come in the other order.              *)
LEMMA WordWritten ==
  ASSUME NEW w \in Nat \ {0}, NEW q \in Nat, NEW o \in Seq(Nat), Len(o) = q * w,
         NEW d \in [1..w -> Nat]
  PROVE  /\ o \o Reverse(d) \in Seq(Nat) /\ Len(o \o Reverse(d)) = (q + 1) * w
         /\ \A n \in 0..q - 1, i \in 1..w : (o \o Reverse(d))[n * w + i] = o[n * w + i]
         /\ \A i \in 1..w : (o \o Reverse(d))[q * w + i] = d[w + 1 - i]
<1>1. d \in Seq(Nat) /\ Len(d) = w
  OBVIOUS
<1> DEFINE r == Reverse(d)
<1>2. r = [i \in 1..w |-> d[(w - i) + 1]]
  BY <1>1, Zenon DEF Reverse
<1>3. ASSUME NEW i \in 1..w PROVE r[i] = d[w + 1 - i] /\ d[w + 1 - i] \in Nat
  <2>1. (w - i) + 1 = w + 1 - i /\ w + 1 - i \in 1..w
    OBVIOUS
  <2> QED
    BY <1>2, <2>1
<1>4. r \in [1..w -> Nat]
  BY <1>2, <1>3
<1> HIDE DEF r
<1>5. r \in Seq(Nat) /\ Len(r) = w
  <2>1. PICK n \in Nat : n = w
    OBVIOUS
  <2>2. r \in [1..n -> Nat]
    BY <1>4, <2>1, Zenon
  <2>3. r \in Seq(Nat) /\ Len(r) = n
    BY <2>2
  <2> QED
    BY <2>1, <2>3, Zenon
<1>6. /\ o \o r \in Seq(Nat) /\ Len(o \o r) = Len(o) + Len(r)
      /\ \A k \in 1..Len(o) : (o \o r)[k] = o[k]
      /\ \A k \in 1..Len(r) : (o \o r)[Len(o) + k] = r[k]
  BY <1>5, Joined, Zenon
<1>7. Len(o \o r) = (q + 1) * w
  BY <1>5, <1>6, WordRows
<1>8. ASSUME NEW n \in 0..q - 1, NEW i \in 1..w PROVE (o \o r)[n * w + i] = o[n * w + i]
  <2>1. PICK b \in Nat, e \in Nat : b = n * w /\ e = q * w /\ b + w <= e
    BY WordRows, Zenon
  <2>2. b + i \in 1..e
    BY <2>1, Inside
  <2> QED
    BY <1>6, <2>1, <2>2, Zenon
<1>9. \A i \in 1..w : (o \o r)[q * w + i] = d[w + 1 - i]
  BY <1>3, <1>5, <1>6, Zenon
<1> QED
  BY <1>6, <1>7, <1>8, <1>9 DEF r

LEMMA TurnStep ==
  ASSUME NEW f \in Seq(Nat), NEW w \in Nat \ {0}, NEW q, NEW j, NEW a, NEW c, NEW o,
         TurnedTo(f, w, q, j, a, c, o), a < Len(f),
         NEW d \in [1..w -> Nat],
         \A i \in 1..w : d[i] = IF i = j + 1 THEN f[a + 1] ELSE IF j = 0 THEN 0 ELSE c[i]
  PROVE  /\ j # w - 1 => TurnedTo(f, w, q, j + 1, a + 1, d, o)
         /\ j = w - 1 => TurnedTo(f, w, q + 1, 0, a + 1, d, o \o Reverse(d))
<1>1. /\ q \in Nat /\ j \in 0..w - 1 /\ a = q * w + j /\ o \in Seq(Nat) /\ Len(o) = q * w /\ q * w \in Nat
      /\ Len(f) \in Nat /\ j \in Int
  BY WordRows DEF TurnedTo
<1>2. \A n \in 0..q - 1, i \in 1..w : o[n * w + i] = f[n * w + (w + 1 - i)]
  BY DEF TurnedTo
<1>3. j > 0 => \A i \in 1..w : c[i] = IF i <= j THEN f[q * w + i] ELSE 0
  BY DEF TurnedTo
<1>4. a + 1 = q * w + (j + 1) /\ a + 1 <= Len(f)
  BY <1>1
<1>5. ASSUME NEW i \in 1..w PROVE d[i] = IF i <= j + 1 THEN f[q * w + i] ELSE 0
  <2>1. CASE i = j + 1
    BY <1>1, <1>4, <2>1, SMTT(20)
  <2>2. CASE i # j + 1 /\ j = 0
    BY <1>1, <2>2
  <2>3. CASE i # j + 1 /\ j # 0
    <3>1. j > 0 /\ (i <= j <=> i <= j + 1)
      BY <1>1, <2>3
    <3>2. d[i] = c[i]
      BY <2>3, Zenon
    <3> QED
      BY <1>3, <3>1, <3>2, Zenon
  <2> QED
    BY <2>1, <2>2, <2>3
<1>6. CASE j # w - 1
  <2>1. j + 1 \in 0..w - 1
    BY <1>1, <1>6
  <2> QED
    BY <1>1, <1>2, <1>4, <1>5, <1>6, <2>1 DEF TurnedTo
<1>7. CASE j = w - 1
  <2>1. /\ o \o Reverse(d) \in Seq(Nat) /\ Len(o \o Reverse(d)) = (q + 1) * w
        /\ \A n \in 0..q - 1, i \in 1..w : (o \o Reverse(d))[n * w + i] = o[n * w + i]
        /\ \A i \in 1..w : (o \o Reverse(d))[q * w + i] = d[w + 1 - i]
    BY <1>1, WordWritten, ZenonT(40)
  <2> DEFINE p == o \o Reverse(d)
  <2> HIDE DEF p
  <2>2. ASSUME NEW n \in 0..q, NEW i \in 1..w PROVE p[n * w + i] = f[n * w + (w + 1 - i)]
    <3>1. CASE n \in 0..q - 1
      <4>1. (o \o Reverse(d))[n * w + i] = o[n * w + i]
        BY <2>1, <3>1, Zenon
      <4>2. o[n * w + i] = f[n * w + (w + 1 - i)]
        BY <1>2, <3>1, Zenon
      <4> QED
        BY <4>1, <4>2, Zenon DEF p
    <3>2. CASE n = q
      <4>1. w + 1 - i \in 1..w /\ w + 1 - i <= j + 1
        BY <1>1, <1>7
      <4>2. d[w + 1 - i] = f[q * w + (w + 1 - i)]
        BY <1>5, <4>1
      <4> QED
        BY <2>1, <3>2, <4>2, Zenon DEF p
    <3>3. n \in 0..q - 1 \/ n = q
      BY <1>1
    <3> QED
      BY <3>1, <3>2, <3>3
  <2>3. a + 1 = (q + 1) * w + 0 /\ 0 \in 0..w - 1 /\ q + 1 \in Nat /\ (q + 1) - 1 = q
    BY <1>1, <1>7, WordRows
  <2>4. p \in Seq(Nat) /\ Len(p) = (q + 1) * w
    BY <2>1 DEF p
  <2>5. TurnedTo(f, w, q + 1, 0, a + 1, d, p)
    BY <1>4, <2>2, <2>3, <2>4 DEF TurnedTo
  <2> QED
    BY <1>7, <2>5 DEF p
<1> QED
  BY <1>6, <1>7

LEMMA TurnEnds ==
  ASSUME NEW f \in Seq(Nat), NEW w \in Nat \ {0}, NEW q, NEW j, NEW a, NEW c, NEW o,
         TurnedTo(f, w, q, j, a, c, o), ~(a < Len(f))
  PROVE  /\ j = 0 => TurnedAll(f, w, q, o)
         /\ j > 0 => TurnedAll(f, w, q + 1, o \o Reverse(c))
<1>1. /\ q \in Nat /\ j \in 0..w - 1 /\ a = q * w + j /\ o \in Seq(Nat) /\ Len(o) = q * w /\ q * w \in Nat
      /\ Len(f) \in Nat /\ j \in Int /\ a = Len(f)
  BY WordRows DEF TurnedTo
<1>2. ASSUME NEW n \in 0..q - 1, NEW i \in 1..w
      PROVE  n * w + (w + 1 - i) <= Len(f) /\ o[n * w + i] = f[n * w + (w + 1 - i)]
  <2>1. PICK b \in Nat, e \in Nat : b = n * w /\ e = q * w /\ b + w <= e
    BY <1>1, WordRows, Zenon
  <2>2. e <= Len(f) /\ b + (w + 1 - i) \in 1..e
    <3>1. PICK l \in Nat : l = Len(f) /\ l = e + j
      BY <1>1, <2>1
    <3>2. b + (w + 1 - i) \in 1..e
      BY <2>1, Inside
    <3> QED
      BY <1>1, <2>1, <3>1, <3>2
  <2>3. b + (w + 1 - i) <= Len(f)
    <3>1. PICK p \in Nat : p = b + (w + 1 - i)
      BY <2>2
    <3> QED
      BY <1>1, <2>1, <2>2, <3>1
  <2> QED
    BY <2>1, <2>3, Zenon DEF TurnedTo
<1>3. CASE j = 0
  <2>1. Len(f) <= q * w /\ q * w < Len(f) + w
    BY <1>1, <1>3
  <2>2. \A n \in 0..q - 1, i \in 1..w :
          o[n * w + i] = IF n * w + (w + 1 - i) <= Len(f) THEN f[n * w + (w + 1 - i)] ELSE 0
    BY <1>2, Zenon
  <2>3. TurnedAll(f, w, q, o)
    BY <1>1, <2>1, <2>2, Zenon DEF TurnedAll
  <2> QED
    BY <1>3, <2>3
<1>4. CASE j > 0
  <2>1. c \in [1..w -> Nat] /\ \A i \in 1..w : c[i] = IF i <= j THEN f[q * w + i] ELSE 0
    BY <1>4 DEF TurnedTo
  <2>2. /\ o \o Reverse(c) \in Seq(Nat) /\ Len(o \o Reverse(c)) = (q + 1) * w
        /\ \A n \in 0..q - 1, i \in 1..w : (o \o Reverse(c))[n * w + i] = o[n * w + i]
        /\ \A i \in 1..w : (o \o Reverse(c))[q * w + i] = c[w + 1 - i]
    BY <1>1, <2>1, WordWritten, ZenonT(40)
  <2> DEFINE p == o \o Reverse(c)
  <2> HIDE DEF p
  <2>3. ASSUME NEW n \in 0..q, NEW i \in 1..w
        PROVE  p[n * w + i] = IF n * w + (w + 1 - i) <= Len(f) THEN f[n * w + (w + 1 - i)] ELSE 0
    <3>1. CASE n \in 0..q - 1
      BY <1>2, <2>2, <3>1, Zenon DEF p
    <3>2. CASE n = q
      <4>1. w + 1 - i \in 1..w /\ (w + 1 - i <= j <=> q * w + (w + 1 - i) <= Len(f))
        BY <1>1
      <4>2. c[w + 1 - i] = IF q * w + (w + 1 - i) <= Len(f) THEN f[q * w + (w + 1 - i)] ELSE 0
        BY <2>1, <4>1, Zenon
      <4> QED
        BY <2>2, <3>2, <4>2, Zenon DEF p
    <3>3. n \in 0..q - 1 \/ n = q
      BY <1>1
    <3> QED
      BY <3>1, <3>2, <3>3
  <2>4. Len(f) <= (q + 1) * w /\ (q + 1) * w < Len(f) + w /\ q + 1 \in Nat /\ (q + 1) - 1 = q
    BY <1>1, <1>4, WordRows
  <2>5. p \in Seq(Nat) /\ Len(p) = (q + 1) * w
    BY <2>2 DEF p
  <2>6. TurnedAll(f, w, q + 1, p)
    BY <2>3, <2>4, <2>5 DEF TurnedAll
  <2> QED
    BY <1>4, <2>6 DEF p
<1> QED
  BY <1>1, <1>3, <1>4
-----------------------------------------------------------------------------
EndianInv ==
  \E q, j : IF binPc = "loop" THEN TurnedTo(job.file, job.width, q, j, at, acc, out)
            ELSE TurnedAll(job.file, job.width, q, out)

LEMMA EndianInit ==
  ASSUME BinInit, BinJob(job), job.tool = "binendian"
  PROVE  EndianInv
<1>1. job.file \in Seq(Nat) /\ Len(job.file) \in Nat /\ job.width \in Nat \ {0}
  BY DEF BinJob
<1>2. ~NoStart
  BY DEF NoStart
<1>3. binPc = "loop" /\ at = 0 /\ out = <<>>
  BY <1>2 DEF BinInit
<1>4. 0 * job.width = 0 /\ 0 \in 0..job.width - 1 /\ out \in Seq(Nat) /\ Len(out) = 0 /\ 0..0 - 1 = {} /\ ~(0 > 0)
  BY <1>1, <1>3
<1>5. TurnedTo(job.file, job.width, 0, 0, at, acc, out)
  BY <1>1, <1>3, <1>4 DEF TurnedTo
<1> QED
  BY <1>3, <1>5, Zenon DEF EndianInv

LEMMA EndianNext ==
  ASSUME EndianInv, BinJob(job), SwapByte
  PROVE  EndianInv'
<1>1. job.tool = "binendian" /\ binPc = "loop" /\ job' = job
  BY DEF SwapByte, Turn
<1> DEFINE f == job.file
           w == job.width
<1>2. f \in Seq(Nat) /\ Len(f) \in Nat /\ w \in Nat \ {0}
  BY <1>1 DEF BinJob
<1>3. PICK q, j : TurnedTo(f, w, q, j, at, acc, out)
  BY <1>1, Zenon DEF EndianInv
<1>4. q \in Nat /\ j \in 0..w - 1 /\ at = q * w + j
  BY <1>3 DEF TurnedTo
<1>5. at % w = j
  <2> HIDE DEF w
  <2>1. at \in Int /\ at = w * q + j /\ q \in Int /\ j \in 0..w - 1 /\ w \in Nat \ {0}
    BY <1>2, <1>4
  <2>2. \A b \in Nat \ {0} : \A x \in Int : \A r \in 0..b - 1 : \A a \in Int :
          a = b * x + r => a % b = r
    BY ModUnique, ZenonT(30)
  <2> QED
    BY <2>1, <2>2, Zenon
<1>6. CASE at < Len(f)
  <2>1. /\ acc' = [Fresh(j) EXCEPT ![j + 1] = f[at + 1]]
        /\ out' = IF j = w - 1 THEN out \o Reverse(acc') ELSE out
        /\ at' = at + 1 /\ binPc' = "loop"
    BY <1>5, <1>6, Zenon DEF SwapByte
  <2>2. Fresh(j) \in [1..w -> Nat] /\ \A i \in 1..w : Fresh(j)[i] = IF j = 0 THEN 0 ELSE acc[i]
    <3>1. CASE j = 0
      BY <3>1 DEF Fresh, Zeros
    <3>2. CASE j # 0
      <4>1. j > 0
        BY <1>4, <3>2
      <4>2. acc \in [1..w -> Nat] /\ Fresh(j) = acc
        BY <1>3, <3>2, <4>1 DEF TurnedTo, Fresh
      <4> QED
        BY <3>2, <4>2, Zenon
    <3> QED
      BY <3>1, <3>2
  <2>3. j + 1 \in 1..w /\ f[at + 1] \in Nat
    <3>1. j + 1 \in 1..w /\ at \in Nat
      BY <1>2, <1>4, WordRows
    <3>2. at + 1 \in 1..Len(f)
      BY <1>2, <1>6, <3>1
    <3> QED
      BY <1>2, <3>1, <3>2
  <2> DEFINE d == acc'
             g == Fresh(j)
  <2> HIDE DEF f, w, g
  <2>4. d \in [1..w -> Nat] /\ \A i \in 1..w : d[i] = IF i = j + 1 THEN f[at + 1] ELSE IF j = 0 THEN 0 ELSE acc[i]
    <3>1. d = [g EXCEPT ![j + 1] = f[at + 1]]
      BY <2>1, Zenon DEF g
    <3>2. g \in [1..w -> Nat] /\ \A i \in 1..w : g[i] = IF j = 0 THEN 0 ELSE acc[i]
      BY <2>2, Zenon DEF g
    <3> HIDE DEF d
    <3>3. d \in [1..w -> Nat]
      BY <2>3, <3>1, <3>2
    <3>4. \A i \in 1..w : d[i] = IF i = j + 1 THEN f[at + 1] ELSE g[i]
      BY <2>3, <3>1, <3>2
    <3> QED
      BY <3>2, <3>3, <3>4
  <2> HIDE DEF d
  <2>5. /\ j # w - 1 => TurnedTo(f, w, q, j + 1, at + 1, d, out)
        /\ j = w - 1 => TurnedTo(f, w, q + 1, 0, at + 1, d, out \o Reverse(d))
    BY <1>2, <1>3, <1>6, <2>4, TurnStep, Zenon
  <2>6. \E r, i : TurnedTo(f, w, r, i, at', d, out')
    <3>1. CASE j = w - 1
      <4>1. out' = out \o Reverse(d) /\ at' = at + 1
        BY <2>1, <3>1, Zenon DEF d
      <4> QED
        BY <2>5, <3>1, <4>1, Zenon
    <3>2. CASE j # w - 1
      <4>1. out' = out /\ at' = at + 1
        BY <2>1, <3>2, Zenon DEF d
      <4> QED
        BY <2>5, <3>2, <4>1, Zenon
    <3> QED
      BY <3>1, <3>2, Zenon
  <2>7. binPc' = "loop" /\ f' = f /\ w' = w
    BY <1>1, <2>1, Zenon DEF f, w
  <2> QED
    BY <2>6, <2>7, <1>1, Zenon DEF EndianInv, f, w, d
<1>7. CASE ~(at < Len(f))
  <2>1. out' = (IF j > 0 THEN out \o Reverse(acc) ELSE out) /\ binPc' = "done"
    BY <1>5, <1>7, Zenon DEF SwapByte
  <2>2. /\ j = 0 => TurnedAll(f, w, q, out)
        /\ j > 0 => TurnedAll(f, w, q + 1, out \o Reverse(acc))
    BY <1>2, <1>3, <1>7, TurnEnds, Zenon
  <2>3. j = 0 \/ j > 0
    BY <1>4
  <2>4. \E r : TurnedAll(f, w, r, out')
    <3>1. CASE j > 0
      <4>1. out' = out \o Reverse(acc)
        BY <2>1, <3>1, Zenon
      <4> QED
        BY <2>2, <3>1, <4>1, Zenon
    <3>2. CASE ~(j > 0)
      <4>1. out' = out /\ j = 0
        BY <2>1, <2>3, <3>2, Zenon
      <4> QED
        BY <2>2, <4>1, Zenon
    <3> QED
      BY <3>1, <3>2, Zenon
  <2>5. binPc' # "loop"
    BY <2>1
  <2> QED
    BY <1>1, <2>4, <2>5, Zenon DEF EndianInv
<1> QED
  BY <1>6, <1>7, Zenon

LEMMA TurnPlace ==
  ASSUME NEW w \in Nat \ {0}, NEW q \in Nat, NEW k \in 1..q * w
  PROVE  \E n \in 0..q - 1, i \in 1..w :
           /\ k = n * w + i /\ (k - 1) \div w = n
           /\ (2 * ((k - 1) \div w) + 1) * w + 1 - k = n * w + (w + 1 - i)
<1>1. k - 1 \in Int /\ k \in Int /\ q * w \in Nat
  BY WordRows
<1>2. PICK n \in Int, r \in Int : /\ n = (k - 1) \div w /\ r = (k - 1) % w /\ r \in 0..w - 1
                                  /\ k - 1 = w * n + r
  <2>1. /\ (k - 1) \div w \in Int /\ (k - 1) % w \in 0..w - 1 /\ (k - 1) % w \in Int
        /\ k - 1 = w * ((k - 1) \div w) + ((k - 1) % w)
    BY <1>1, DivMod, ModType, Zenon
  <2> QED
    BY <2>1, Zenon
<1>3. n >= 0
  <2> SUFFICES ASSUME n <= -1 PROVE FALSE
    BY <1>2
  <2>1. w * n <= -w
    <3>1. PICK m \in Nat : n = -1 - m
      <4>1. -1 - n \in Nat /\ n = -1 - (-1 - n)
        BY <1>2
      <4> QED
        BY <4>1, Zenon
    <3>2. w * n = -w - w * m /\ w * m \in Nat
      BY <3>1
    <3> QED
      BY <3>2
  <2> QED
    BY <1>1, <1>2, <2>1
<1>4. n <= q - 1
  <2> SUFFICES ASSUME n >= q PROVE FALSE
    BY <1>2
  <2>1. w * n >= q * w
    <3>1. PICK m \in Nat : n = q + m
      <4>1. n - q \in Nat /\ n = q + (n - q)
        BY <1>2
      <4> QED
        BY <4>1, Zenon
    <3>2. w * n = q * w + w * m /\ w * m \in Nat
      BY <3>1
    <3> QED
      BY <1>1, <3>2
  <2> QED
    BY <1>1, <1>2, <2>1
<1>5. n \in 0..q - 1 /\ r + 1 \in 1..w
  BY <1>2, <1>3, <1>4
<1>6. k = n * w + (r + 1)
  BY <1>2
<1>7. (2 * n + 1) * w + 1 - k = n * w + (w + 1 - (r + 1))
  <2>1. (2 * n + 1) * w = n * w + n * w + w /\ n * w \in Int
    BY <1>2
  <2> QED
    BY <1>2, <1>6, <2>1
<1> QED
  BY <1>2, <1>5, <1>6, <1>7, Zenon

LEMMA EndianExact ==
  ASSUME EndianInv, BinJob(job), binPc = "done", job.tool = "binendian"
  PROVE  TurnedWords
<1> DEFINE f == job.file
           w == job.width
<1>1. f \in Seq(Nat) /\ Len(f) \in Nat /\ w \in Nat \ {0}
  BY DEF BinJob
<1>2. PICK q : TurnedAll(f, w, q, out)
  BY Zenon DEF EndianInv
<1>3. /\ q \in Nat /\ out \in Seq(Nat) /\ Len(out) = q * w /\ q * w \in Nat
      /\ Len(f) <= q * w /\ q * w < Len(f) + w
  BY <1>1, <1>2, WordRows DEF TurnedAll
<1>4. (Len(f) + w - 1) \div w = q
  <2> HIDE DEF f, w
  <2>1. PICK l \in Nat, r \in Int : l = Len(f) /\ r = l + w - 1 - q * w
    BY <1>1, <1>3
  <2>2. r \in 0..w - 1
    BY <1>1, <1>3, <2>1
  <2>3. l + w - 1 = w * q + r /\ l + w - 1 \in Int /\ q \in Int
    BY <1>1, <1>3, <2>1
  <2> QED
    <3>1. (l + w - 1) \div w = q
      BY <1>1, <2>2, <2>3, ModUnique, Zenon
    <3> QED
      BY <2>1, <3>1, Zenon
<1>5. ASSUME NEW k \in DOMAIN out
      PROVE  LET twin == (2 * ((k - 1) \div w) + 1) * w + 1 - k
             IN  out[k] = IF twin <= Len(f) THEN f[twin] ELSE 0
  <2>1. k \in 1..q * w
    BY <1>3
  <2> HIDE DEF f, w
  <2>2. PICK n \in 0..q - 1, i \in 1..w :
           /\ k = n * w + i /\ (k - 1) \div w = n
           /\ (2 * ((k - 1) \div w) + 1) * w + 1 - k = n * w + (w + 1 - i)
    BY <1>1, <1>3, <2>1, TurnPlace, Zenon
  <2>3. out[n * w + i] = IF n * w + (w + 1 - i) <= Len(f) THEN f[n * w + (w + 1 - i)] ELSE 0
    BY <1>2, Zenon DEF TurnedAll
  <2> QED
    BY <2>2, <2>3, Zenon
<1>6. Len(out) = ((Len(f) + w - 1) \div w) * w
  BY <1>3, <1>4, Zenon
<1> QED
  BY <1>5, <1>6, Zenon DEF TurnedWords
-----------------------------------------------------------------------------
(* bindiff: of the first a bytes those in D differ, n of them; o shows the *)
(* first of these, x of them at most.                                      *)
DiffTo(D, a, n, o, x) ==
  /\ a \in Nat /\ D \subseteq 0..a - 1 /\ IsFiniteSet(D) /\ n = Cardinality(D) /\ n \in Nat
  /\ o \in Seq(Nat) /\ Len(o) = IF n <= x THEN n ELSE x
  /\ \A h, i \in 1..Len(o) : h < i => o[h] < o[i]
  /\ \A i \in 1..Len(o) : o[i] \in D
  /\ n <= x => \A k \in D : \E i \in 1..Len(o) : o[i] = k
  /\ \A k \in D : (\A i \in 1..Len(o) : o[i] # k) => \A i \in 1..Len(o) : o[i] < k

LEMMA SameByte ==
  ASSUME NEW D, NEW a, NEW n, NEW o, NEW x, DiffTo(D, a, n, o, x)
  PROVE  DiffTo(D, a + 1, n, o, x)
<1>1. a \in Nat /\ D \subseteq 0..a - 1
  BY DEF DiffTo
<1>2. a + 1 \in Nat /\ D \subseteq 0..(a + 1) - 1
  BY <1>1
<1> QED
  BY <1>2, Zenon DEF DiffTo

LEMMA OtherByte ==
  ASSUME NEW D, NEW a, NEW n, NEW o, NEW x \in Nat, DiffTo(D, a, n, o, x)
  PROVE  DiffTo(D \cup {a}, a + 1, n + 1, IF n + 1 <= x THEN Append(o, a) ELSE o, x)
<1> DEFINE E == D \cup {a}
<1>1. /\ a \in Nat /\ D \subseteq 0..a - 1 /\ n \in Nat /\ o \in Seq(Nat) /\ Len(o) \in Nat
      /\ Len(o) = IF n <= x THEN n ELSE x
  BY DEF DiffTo
<1>2. a + 1 \in Nat /\ E \subseteq 0..(a + 1) - 1 /\ a \notin D
  BY <1>1
<1>3. IsFiniteSet(E) /\ n + 1 = Cardinality(E) /\ n + 1 \in Nat
  <2>1. IsFiniteSet(D) /\ n = Cardinality(D)
    BY DEF DiffTo
  <2>2. IsFiniteSet(E) /\ Cardinality(E) = IF a \in D THEN Cardinality(D) ELSE Cardinality(D) + 1
    BY <2>1, FS_AddElement, Zenon
  <2> HIDE DEF E
  <2> QED
    BY <1>1, <1>2, <2>1, <2>2
<1>4. \A h, i \in 1..Len(o) : h < i => o[h] < o[i]
  BY Zenon DEF DiffTo
<1>5. \A i \in 1..Len(o) : o[i] \in D
  BY Zenon DEF DiffTo
<1>6. CASE n + 1 <= x
  <2> DEFINE p == Append(o, a)
  <2>1. /\ p \in Seq(Nat) /\ Len(p) = Len(o) + 1 /\ p[Len(o) + 1] = a
        /\ \A i \in 1..Len(o) : p[i] = o[i]
    BY <1>1, AppendProperties
  <2> HIDE DEF p, E
  <2>2. Len(o) = n /\ Len(p) = n + 1
    BY <1>1, <1>6, <2>1
  <2>3. \A k \in D : \E i \in 1..n : o[i] = k
    <3>1. n <= x
      BY <1>1, <1>6
    <3> QED
      BY <2>2, <3>1, Zenon DEF DiffTo
  <2>4. ASSUME NEW h \in 1..n + 1, NEW i \in 1..n + 1, h < i PROVE p[h] < p[i]
    <3>1. h \in 1..n
      BY <1>1, <2>4
    <3>2. p[h] = o[h] /\ o[h] \in D
      BY <1>5, <2>1, <2>2, <3>1
    <3>3. CASE i = n + 1
      <4>1. p[i] = a
        BY <2>1, <2>2, <3>3
      <4>2. PICK v \in 0..a - 1 : v = p[h]
        BY <1>1, <3>2, Zenon
      <4> QED
        BY <1>1, <4>1, <4>2
    <3>4. CASE i # n + 1
      <4>1. i \in 1..n
        BY <1>1, <3>4
      <4> QED
        BY <1>4, <2>1, <2>2, <2>4, <3>1, <3>2, <4>1
    <3> QED
      BY <3>3, <3>4
  <2>5. ASSUME NEW i \in 1..n + 1 PROVE p[i] \in E
    <3>1. CASE i = n + 1
      BY <2>1, <2>2, <3>1 DEF E
    <3>2. CASE i # n + 1
      <4>1. i \in 1..n
        BY <1>1, <3>2
      <4> QED
        BY <1>5, <2>1, <2>2, <4>1 DEF E
    <3> QED
      BY <3>1, <3>2
  <2>6. ASSUME NEW k \in E PROVE \E i \in 1..n + 1 : p[i] = k
    <3>1. CASE k \in D
      <4>1. PICK i \in 1..n : o[i] = k
        BY <2>3, <3>1
      <4>2. i \in 1..n + 1 /\ p[i] = k
        BY <1>1, <2>1, <2>2, <4>1
      <4> QED
        BY <4>2
    <3>2. CASE k = a
      <4>1. n + 1 \in 1..n + 1 /\ p[n + 1] = k
        BY <1>1, <2>1, <2>2, <3>2
      <4> QED
        BY <4>1
    <3> QED
      BY <3>1, <3>2 DEF E
  <2>7. DiffTo(E, a + 1, n + 1, p, x)
    BY <1>2, <1>3, <1>6, <2>1, <2>2, <2>4, <2>5, <2>6, Zenon DEF DiffTo
  <2> QED
    BY <1>6, <2>7, Zenon DEF E, p
<1>7. CASE ~(n + 1 <= x)
  <2>1. Len(o) = IF n + 1 <= x THEN n + 1 ELSE x
    BY <1>1, <1>7
  <2>2. \A i \in 1..Len(o) : o[i] \in E
    BY <1>5
  <2>3. ASSUME NEW k \in E, \A i \in 1..Len(o) : o[i] # k PROVE \A i \in 1..Len(o) : o[i] < k
    <3>1. CASE k \in D
      BY <2>3, <3>1, Zenon DEF DiffTo
    <3>2. CASE k = a
      BY <1>1, <1>5, <3>2
    <3> QED
      BY <3>1, <3>2
  <2> HIDE DEF E
  <2>4. DiffTo(E, a + 1, n + 1, o, x)
    BY <1>1, <1>2, <1>3, <1>4, <1>7, <2>1, <2>2, <2>3, Zenon DEF DiffTo
  <2> QED
    BY <1>7, <2>4, Zenon DEF E
<1> QED
  BY <1>6, <1>7

LEMMA LesserOf ==
  ASSUME NEW a \in Nat, NEW b \in Nat
  PROVE  Min({a, b}) = (IF a <= b THEN a ELSE b) /\ Min({a, b}) \in Nat
<1> DEFINE m == IF a <= b THEN a ELSE b
<1>1. m \in {a, b} /\ \A y \in {a, b} : m <= y
  OBVIOUS
<1>2. \A z \in {a, b} : (\A y \in {a, b} : z <= y) => z = m
  OBVIOUS
<1> HIDE DEF m
<1>3. Min({a, b}) = m
  BY <1>1, <1>2, Zenon DEF Min
<1> QED
  BY <1>3 DEF m

DiffersTo(f, g, a) == {k \in 0..a - 1 : f[k + 1] # g[k + 1]}
DiffInv ==
  LET m == Min({Len(job.file), Len(job.other)})
  IN  /\ DiffTo(DiffersTo(job.file, job.other, at), at, next, out, MAX_DISPLAY_ITEMS) /\ at <= m
      /\ binPc = "done" => at = m

LEMMA DiffInit ==
  ASSUME BinInit, BinJob(job), job.tool = "bindiff"
  PROVE  DiffInv
<1>1. Len(job.file) \in Nat /\ Len(job.other) \in Nat
  BY DEF BinJob
<1>2. binPc = "loop" /\ at = 0 /\ out = <<>> /\ next = 0
  BY DEF BinInit, NoStart
<1>3. DiffersTo(job.file, job.other, at) = {}
  BY <1>2 DEF DiffersTo
<1>4. at <= Min({Len(job.file), Len(job.other)})
  <2>1. PICK m \in Nat : m = Min({Len(job.file), Len(job.other)})
    BY <1>1, LesserOf
  <2> QED
    BY <1>2, <2>1
<1>5. MAX_DISPLAY_ITEMS \in Nat
  BY BinConstantsOK
<1>6. DiffTo({}, 0, 0, out, MAX_DISPLAY_ITEMS)
  <2>1. IsFiniteSet({}) /\ Cardinality({}) = 0
    BY FS_EmptySet
  <2>2. out \in Seq(Nat) /\ Len(out) = 0
    BY <1>2
  <2>3. Len(out) = (IF 0 <= MAX_DISPLAY_ITEMS THEN 0 ELSE MAX_DISPLAY_ITEMS) /\ 1..Len(out) = {}
    BY <1>5, <2>2
  <2> QED
    BY <2>1, <2>2, <2>3 DEF DiffTo
<1> QED
  BY <1>2, <1>3, <1>4, <1>6 DEF DiffInv

LEMMA DiffNext ==
  ASSUME DiffInv, BinJob(job), CompareByte
  PROVE  DiffInv'
<1>1. job.tool = "bindiff" /\ binPc = "loop" /\ job' = job
  BY DEF CompareByte, Turn
<1> DEFINE f == job.file
           g == job.other
           x == MAX_DISPLAY_ITEMS
<1>2. Len(f) \in Nat /\ Len(g) \in Nat
  BY <1>1 DEF BinJob
<1>3. PICK m \in Nat : m = Min({Len(f), Len(g)})
  BY <1>2, LesserOf
<1>4. x \in Nat
  BY BinConstantsOK
<1>5. DiffTo(DiffersTo(f, g, at), at, next, out, x) /\ at <= m
  BY <1>3 DEF DiffInv
<1>6. at \in Nat
  BY <1>5 DEF DiffTo
<1>7. SUFFICES DiffTo(DiffersTo(f, g, at'), at', next', out', x) /\ at' <= m /\ (binPc' = "done" => at' = m)
  BY <1>1, <1>3 DEF DiffInv
<1>8. CASE at < m
  <2> DEFINE D == DiffersTo(f, g, at)
             E == DiffersTo(f, g, at + 1)
  <2>1. at' = at + 1 /\ binPc' = "loop"
    BY <1>3, <1>8 DEF CompareByte
  <2>2. CASE f[at + 1] = g[at + 1]
    <3>1. E = D
      BY <1>6, <2>2 DEF DiffersTo
    <3>2. next' = next /\ out' = out
      BY <1>3, <1>8, <2>2 DEF CompareByte
    <3> HIDE DEF D, E
    <3>3. DiffTo(D, at + 1, next, out, x)
      BY <1>5, SameByte, Zenon DEF D
    <3> QED
      BY <1>3, <1>6, <1>8, <2>1, <3>1, <3>2, <3>3 DEF E
  <2>3. CASE f[at + 1] # g[at + 1]
    <3>1. E = D \cup {at}
      BY <1>6, <2>3 DEF DiffersTo
    <3>2. next' = next + 1 /\ out' = IF next + 1 <= x THEN Append(out, at) ELSE out
      BY <1>3, <1>8, <2>3, Zenon DEF CompareByte
    <3> HIDE DEF D, E
    <3>3. DiffTo(D \cup {at}, at + 1, next + 1, IF next + 1 <= x THEN Append(out, at) ELSE out, x)
      BY <1>4, <1>5, OtherByte, Zenon DEF D
    <3>4. DiffTo(E, at', next', out', x)
      BY <2>1, <3>1, <3>2, <3>3, Zenon
    <3>5. at' <= m
      BY <1>3, <1>6, <1>8, <2>1
    <3> QED
      BY <2>1, <3>4, <3>5 DEF E
  <2> QED
    BY <2>2, <2>3
<1>9. CASE ~(at < m)
  <2>1. at' = at /\ next' = next /\ out' = out
    BY <1>3, <1>9 DEF CompareByte
  <2> QED
    BY <1>3, <1>5, <1>6, <1>9, <2>1
<1> QED
  BY <1>8, <1>9

LEMMA DiffExact ==
  ASSUME DiffInv, BinJob(job), binPc = "done", job.tool = "bindiff"
  PROVE  FirstDifferences
<1> DEFINE x == MAX_DISPLAY_ITEMS
<1>1. Differences = DiffersTo(job.file, job.other, at)
  BY DEF DiffInv, DiffersTo, Differences
<1>2. DiffTo(Differences, at, next, out, x)
  BY <1>1 DEF DiffInv
<1>3. x \in Nat
  BY BinConstantsOK
<1>4. next = Cardinality(Differences) /\ next \in Nat /\ out \in Seq(Nat) /\ Len(out) = IF next <= x THEN next ELSE x
  BY <1>2 DEF DiffTo
<1>5. Len(out) = Min({next, x})
  BY <1>3, <1>4, LesserOf
<1>6. DOMAIN out = 1..Len(out)
  BY <1>4
<1>7. \A m, n \in DOMAIN out : m < n => out[m] < out[n]
  BY <1>2, <1>6, Zenon DEF DiffTo
<1>8. Range(out) \subseteq Differences
  BY <1>2, <1>6, Zenon DEF DiffTo, Range
<1>9. \A k \in Differences \ Range(out), m \in DOMAIN out : out[m] < k
  BY <1>2, <1>6, Zenon DEF DiffTo, Range
<1> QED
  BY <1>4, <1>5, <1>7, <1>8, <1>9 DEF FirstDifferences
-----------------------------------------------------------------------------
(* binmega writes one byte after the other.                                *)
MegaSize == (job.megabytes * MEGA) % SIZE_WORD
MegaInv ==
  /\ out \in Seq(Nat) /\ Len(out) = at /\ at <= MegaSize
  /\ \A k \in 1..Len(out) : out[k] \in IF job.pattern = <<>> THEN BinBytes ELSE Range(job.pattern)
  /\ binPc = "done" => at = MegaSize

LEMMA MegaArguments ==
  ASSUME BinJob(job), job.tool = "binmega"
  PROVE  /\ MegaSize \in Nat /\ job.megabytes * MEGA \in Nat
         /\ MegaSize = job.megabytes * MEGA <=> job.megabytes * MEGA < SIZE_WORD
<1>1. PICK s \in Nat : s = job.megabytes * MEGA
  BY BinConstantsOK DEF BinJob
<1>2. SIZE_WORD \in Nat \ {0}
  BY BinConstantsOK
<1>3. s % SIZE_WORD \in 0..SIZE_WORD - 1
  <2>1. s \in Int
    BY <1>1
  <2> QED
    BY <1>2, <2>1, ModType, Zenon
<1>4. s < SIZE_WORD => s % SIZE_WORD = s
  <2>1. s < SIZE_WORD => s \in 0..SIZE_WORD - 1
    BY <1>2
  <2> QED
    BY <1>2, <2>1, ModSmall, Zenon
<1>5. PICK r \in 0..SIZE_WORD - 1 : r = s % SIZE_WORD
  BY <1>3, Zenon
<1>6. MegaSize = r
  BY <1>1, <1>5, Zenon DEF MegaSize
<1>7. r \in Nat /\ r < SIZE_WORD
  BY <1>2
<1> QED
  BY <1>1, <1>2, <1>4, <1>5, <1>6, <1>7

LEMMA MegaInit ==
  ASSUME BinInit, BinJob(job), job.tool = "binmega"
  PROVE  MegaInv
<1>1. binPc = "loop" /\ at = 0 /\ out = <<>>
  BY DEF BinInit, NoStart
<1>2. 0 <= MegaSize
  BY MegaArguments
<1> QED
  BY <1>1, <1>2 DEF MegaInv

LEMMA MegaNext ==
  ASSUME MegaInv, BinJob(job), MegaByte
  PROVE  MegaInv'
<1>1. job.tool = "binmega" /\ binPc = "loop" /\ job' = job
  BY DEF MegaByte, Turn
<1>2. MegaSize' = MegaSize
  BY <1>1 DEF MegaSize
<1>3. PICK m \in Nat : m = MegaSize
  BY <1>1, MegaArguments
<1>4. out \in Seq(Nat) /\ Len(out) = at /\ Len(out) \in Nat /\ at <= m
  BY <1>3 DEF MegaInv
<1> DEFINE S == IF job.pattern = <<>> THEN BinBytes ELSE Range(job.pattern)
<1>5. S \subseteq Nat
  <2>1. CASE job.pattern = <<>>
    BY <2>1, BinConstantsOK
  <2>2. CASE job.pattern # <<>>
    <3>1. job.pattern \in Seq(Nat)
      BY <1>1 DEF BinJob
    <3> QED
      BY <2>2, <3>1 DEF Range
  <2> QED
    BY <2>1, <2>2
<1>6. \A k \in 1..Len(out) : out[k] \in S
  BY DEF MegaInv
<1>7. CASE at < m
  <2>1. PICK b \in S : out' = Append(out, b)
    BY <1>3, <1>7 DEF MegaByte, MegaSize
  <2>2. at' = at + 1 /\ binPc' = "loop"
    BY <1>3, <1>7 DEF MegaByte, MegaSize
  <2> HIDE DEF S
  <2>3. /\ out' \in Seq(Nat) /\ Len(out') = Len(out) + 1 /\ out'[Len(out) + 1] = b
        /\ \A k \in 1..Len(out) : out'[k] = out[k]
    BY <1>4, <1>5, <2>1, AppendProperties
  <2>4. ASSUME NEW k \in 1..Len(out') PROVE out'[k] \in S
    <3>1. CASE k = Len(out) + 1
      BY <2>3, <3>1
    <3>2. CASE k # Len(out) + 1
      <4>1. k \in 1..Len(out)
        BY <1>4, <2>3, <3>2
      <4> QED
        BY <1>6, <2>3, <4>1
    <3> QED
      BY <3>1, <3>2
  <2>5. Len(out') = at' /\ at' <= m
    BY <1>3, <1>4, <1>7, <2>2, <2>3
  <2>6. S' = S
    BY <1>1 DEF S
  <2> QED
    BY <1>2, <1>3, <2>2, <2>3, <2>4, <2>5, <2>6 DEF MegaInv, S
<1>8. CASE ~(at < m)
  <2>1. out' = out /\ at' = at
    BY <1>3, <1>8 DEF MegaByte, MegaSize
  <2>2. at = m
    BY <1>3, <1>4, <1>8
  <2> QED
    BY <1>1, <1>2, <1>3, <1>4, <1>6, <2>1, <2>2 DEF MegaInv
<1> QED
  BY <1>7, <1>8

LEMMA MegaExact ==
  ASSUME MegaInv, BinJob(job), binPc = "done", job.tool = "binmega"
  PROVE  ManyBytes
<1>1. Len(out) = MegaSize
  BY DEF MegaInv
<1>2. DOMAIN out = 1..Len(out)
  BY DEF MegaInv
<1>3. job.pattern # <<>> => Range(out) \subseteq Range(job.pattern)
  BY <1>2 DEF MegaInv, Range
<1>4. (Len(out) = job.megabytes * MEGA) <=> (job.megabytes * MEGA < SIZE_WORD)
  BY <1>1, MegaArguments
<1> QED
  BY <1>3, <1>4 DEF ManyBytes
-----------------------------------------------------------------------------
(* bincomb: the first n files of F joined are s; g is the way to it.       *)
Lengthened(F, g, k) == g[k] = IF k = 1 THEN F[k] ELSE g[k - 1] \o F[k]
Flat(F, n, g, s) ==
  /\ s \in Seq(Nat) /\ (n = 0 => s = <<>>)
  /\ \A k \in 1..n : Lengthened(F, g, k)
  /\ n > 0 => \A h : (\A k \in 1..n : Lengthened(F, h, k)) => h[n] = s

LEMMA FlatNext ==
  ASSUME NEW F \in Seq(Seq(Nat)), NEW n \in Nat, n < Len(F), NEW g, NEW s, Flat(F, n, g, s)
  PROVE  \E h : Flat(F, n + 1, h, s \o F[n + 1])
<1> DEFINE t == s \o F[n + 1]
           h == [k \in 1..n + 1 |-> IF k <= n THEN g[k] ELSE t]
<1>1. F[n + 1] \in Seq(Nat) /\ n + 1 \in 1..n + 1 /\ ~(n + 1 <= n) /\ n + 1 # 0 /\ n + 1 > 0
  OBVIOUS
<1>2. s \in Seq(Nat)
  BY DEF Flat
<1>3. t \in Seq(Nat)
  BY <1>1, <1>2, Joined, Zenon
<1>4. n = 0 => t = F[n + 1]
  <2>1. n = 0 => s = <<>>
    BY DEF Flat
  <2>2. <<>> \o F[n + 1] = F[n + 1]
    BY <1>1, ConcatEmptySeq
  <2> QED
    BY <2>1, <2>2, Zenon
<1>5. n > 0 => g[n] = s
  BY Zenon DEF Flat
<1> HIDE DEF t
<1>6. h[n + 1] = t
  BY <1>1, Zenon
<1>7. \A k \in 1..n : h[k] = g[k] /\ k \in Nat
  OBVIOUS
<1> HIDE DEF h
<1>8. ASSUME NEW k \in 1..n + 1 PROVE Lengthened(F, h, k)
  <2>1. CASE k = n + 1 /\ n = 0
    <3>1. k = 1
      BY <2>1
    <3> QED
      BY <1>4, <1>6, <2>1, <3>1, Zenon DEF Lengthened
  <2>2. CASE k = n + 1 /\ n # 0
    <3>1. n > 0 /\ n \in 1..n /\ k # 1 /\ k - 1 = n
      BY <2>2
    <3>2. h[n] = s
      BY <1>5, <1>7, <3>1, Zenon
    <3>3. h[k] = h[k - 1] \o F[k]
      BY <1>6, <2>2, <3>1, <3>2, Zenon DEF t
    <3> QED
      BY <3>1, <3>3, Zenon DEF Lengthened
  <2>3. CASE k # n + 1
    <3>1. k \in 1..n /\ (k # 1 => k - 1 \in 1..n)
      BY <2>3
    <3>2. Lengthened(F, g, k)
      BY <3>1, Zenon DEF Flat
    <3> QED
      BY <1>7, <3>1, <3>2, Zenon DEF Lengthened
  <2> QED
    BY <2>1, <2>2, <2>3
<1>9. ASSUME NEW i, \A k \in 1..n + 1 : Lengthened(F, i, k) PROVE i[n + 1] = t
  <2>1. Lengthened(F, i, n + 1)
    BY <1>1, <1>9, Zenon
  <2>2. CASE n = 0
    <3>1. n + 1 = 1
      BY <2>2
    <3> QED
      BY <1>4, <2>1, <2>2, <3>1, Zenon DEF Lengthened
  <2>3. CASE n # 0
    <3>1. n > 0 /\ (\A k \in 1..n : k \in 1..n + 1) /\ n + 1 # 1 /\ (n + 1) - 1 = n
      BY <2>3
    <3>2. i[n] = s
      BY <1>9, <3>1, Zenon DEF Flat
    <3>3. i[n + 1] = i[(n + 1) - 1] \o F[n + 1]
      BY <2>1, <3>1, Zenon DEF Lengthened
    <3> QED
      BY <3>1, <3>2, <3>3, Zenon DEF t
  <2> QED
    BY <2>2, <2>3
<1>10. Flat(F, n + 1, h, t)
  BY <1>1, <1>3, <1>8, <1>9, Zenon DEF Flat
<1> QED
  BY <1>10, Zenon DEF t

FilesOf(F, n, O) == O \in Seq(Seq(Nat)) /\ Len(O) = n /\ \A k \in 1..n : O[k] = F[k]

LEMMA FlatIsFlattened ==
  ASSUME NEW F \in Seq(Seq(Nat)), NEW n \in Nat, NEW g, NEW s, Flat(F, n, g, s),
         NEW O, FilesOf(F, n, O)
  PROVE  FlattenSeq(O) = s
<1>0. O \in Seq(Seq(Nat)) /\ Len(O) = n /\ \A k \in 1..n : O[k] = F[k]
  BY DEF FilesOf
<1>1. CASE n = 0
  <2>1. FlattenSeq(O) = O /\ O = <<>>
    BY <1>0, <1>1 DEF FlattenSeq
  <2> QED
    BY <1>1, <2>1, Zenon DEF Flat
<1>2. CASE n # 0
  <2>1. n > 0 /\ n \in 1..n
    BY <1>2
  <2> DEFINE Way(f) == f = [i \in 1..n |-> IF i = 1 THEN O[i] ELSE f[i - 1] \o O[i]]
             f == CHOOSE f : Way(f)
  <2>2. FlattenSeq(O) = f[n]
    BY <1>0, <1>2, Zenon DEF FlattenSeq
  <2> DEFINE G == [i \in 1..n |-> g[i]]
  <2>3. Way(G)
    <3>1. ASSUME NEW i \in 1..n PROVE G[i] = IF i = 1 THEN O[i] ELSE G[i - 1] \o O[i]
      <4>1. Lengthened(F, g, i) /\ O[i] = F[i]
        BY <1>0, Zenon DEF Flat
      <4>2. i # 1 => i - 1 \in 1..n
        OBVIOUS
      <4>3. G[i] = g[i] /\ (i # 1 => G[i - 1] = g[i - 1])
        BY <4>2, Zenon
      <4> QED
        BY <4>1, <4>3, Zenon DEF Lengthened
    <3> DEFINE H == [i \in 1..n |-> IF i = 1 THEN O[i] ELSE G[i - 1] \o O[i]]
    <3>2. \A i \in 1..n : G[i] = H[i]
      BY <3>1, Zenon
    <3>3. G = H
      <4>1. G = [i \in 1..n |-> g[i]]
        OBVIOUS
      <4> HIDE DEF G
      <4>2. G = [i \in DOMAIN G |-> G[i]] /\ DOMAIN G = 1..n
        BY <4>1, Zenon
      <4>3. H = [i \in DOMAIN H |-> H[i]] /\ DOMAIN H = 1..n
        BY Zenon
      <4> HIDE DEF H
      <4> QED
        BY <3>2, <4>2, <4>3, Zenon
    <3> QED
      BY <3>3, Zenon
  <2> HIDE DEF G
  <2>4. Way(f)
    <3>1. \E z : Way(z)
      BY <2>3, Zenon
    <3> HIDE DEF Way
    <3> QED
      BY <3>1, Zenon
  <2> HIDE DEF f
  <2>5. ASSUME NEW k \in 1..n PROVE Lengthened(F, f, k)
    <3>1. f[k] = IF k = 1 THEN O[k] ELSE f[k - 1] \o O[k]
      BY <2>4, Zenon
    <3> QED
      BY <1>0, <3>1, Zenon DEF Lengthened
  <2>6. f[n] = s
    BY <2>1, <2>5, Zenon DEF Flat
  <2> QED
    BY <2>2, <2>6, Zenon
<1> QED
  BY <1>1, <1>2
-----------------------------------------------------------------------------
CombinedTo(F, m, n, a, o, pc) ==
  /\ n \in Nat /\ n <= Len(F) /\ a \in Nat
  /\ \A k \in 1..n : F[k] # m
  /\ \E g, s, t : /\ Flat(F, n, g, s) /\ t \in Seq(Nat) /\ Len(t) = a /\ o = s \o t
                  /\ a > 0 => n < Len(F) /\ F[n + 1] # m /\ a <= Len(F[n + 1]) /\ \A k \in 1..a : t[k] = F[n + 1][k]
  /\ pc = "done" => a = 0 /\ (n = Len(F) \/ F[n + 1] = m)

CombineInv == CombinedTo(job.files, job.missing, next, at, out, binPc)

LEMMA CombineInit ==
  ASSUME BinInit, BinJob(job), job.tool = "bincomb"
  PROVE  CombineInv
<1>1. Len(job.files) \in Nat
  BY DEF BinJob
<1>2. binPc # "done" /\ at = 0 /\ out = <<>> /\ next = 0
  BY DEF BinInit, NoStart
<1>3. <<>> \in Seq(Nat) /\ Len(<<>>) = 0 /\ ~(0 > 0) /\ 0 \in Nat /\ 0 <= Len(job.files) /\ 1..0 = {}
  BY <1>1
<1>4. <<>> \o <<>> = <<>>
  <2>1. <<>> \in Seq(Nat)
    OBVIOUS
  <2> QED
    BY <2>1, ConcatEmptySeq
<1>5. Flat(job.files, 0, <<>>, <<>>)
  BY <1>3 DEF Flat
<1> QED
  BY <1>2, <1>3, <1>4, <1>5, Zenon DEF CombineInv, CombinedTo

LEMMA LongerBy ==
  ASSUME NEW s \in Seq(Nat), NEW t \in Seq(Nat), NEW b \in Nat
  PROVE  Append(s \o t, b) = s \o Append(t, b)
<1>1. PICK c \in Seq(Nat) : c = <<b>>
  <2>1. <<b>> \in Seq(Nat)
    OBVIOUS
  <2> QED
    BY <2>1, Zenon
<1>2. s \o t \in Seq(Nat)
  BY Joined, Zenon
<1>3. Append(s \o t, b) = (s \o t) \o <<b>> /\ Append(t, b) = t \o <<b>>
  BY <1>2, AppendIsConcat
<1>4. (s \o t) \o c = s \o (t \o c)
  BY ConcatAssociative, SMTT(20)
<1> QED
  BY <1>1, <1>3, <1>4, Zenon

LEMMA CombineStep ==
  ASSUME NEW F \in Seq(Seq(Nat)), NEW m, NEW n, NEW a, NEW o, CombinedTo(F, m, n, a, o, "loop"),
         n < Len(F), F[n + 1] # m
  PROVE  /\ a < Len(F[n + 1]) => CombinedTo(F, m, n, a + 1, Append(o, F[n + 1][a + 1]), "loop")
         /\ ~(a < Len(F[n + 1])) => CombinedTo(F, m, n + 1, 0, o, "loop")
<1>0. "loop" # "done" /\ Len(F) \in Nat
  OBVIOUS
<1>1. n \in Nat /\ a \in Nat /\ Len(F) \in Nat /\ \A k \in 1..n : F[k] # m
  BY <1>0, Zenon DEF CombinedTo
<1>2. PICK g, s, t :
        /\ Flat(F, n, g, s) /\ t \in Seq(Nat) /\ Len(t) = a /\ o = s \o t
        /\ a > 0 => n < Len(F) /\ F[n + 1] # m /\ a <= Len(F[n + 1]) /\ \A k \in 1..a : t[k] = F[n + 1][k]
  BY Zenon DEF CombinedTo
<1>3. s \in Seq(Nat)
  BY <1>2 DEF Flat
<1>4. PICK f \in Seq(Nat) : f = F[n + 1]
  BY <1>1
<1>5. a <= Len(f) /\ \A k \in 1..a : t[k] = f[k]
  <2>1. CASE a > 0
    BY <1>2, <1>4, <2>1, Zenon
  <2>2. CASE ~(a > 0)
    BY <1>1, <2>2
  <2> QED
    BY <2>1, <2>2
<1>6. CASE a < Len(f)
  <2>0. Len(f) \in Nat
    OBVIOUS
  <2>1. PICK b \in Nat : b = f[a + 1]
    BY <1>1, <1>6
  <2> DEFINE u == Append(t, b)
  <2>2. u \in Seq(Nat) /\ Len(u) = a + 1 /\ u[a + 1] = b /\ \A k \in 1..a : u[k] = t[k]
    BY <1>2, AppendProperties
  <2>3. Append(o, b) = s \o u
    BY <1>2, <1>3, LongerBy
  <2> HIDE DEF u
  <2>4. \A k \in 1..a + 1 : u[k] = f[k]
    <3>1. ASSUME NEW k \in 1..a + 1 PROVE u[k] = f[k]
      <4>1. CASE k = a + 1
        BY <2>1, <2>2, <4>1, Zenon
      <4>2. CASE k # a + 1
        <5>1. k \in 1..a
          BY <1>1, <4>2
        <5> QED
          BY <1>5, <2>2, <5>1, Zenon
      <4> QED
        BY <4>1, <4>2
    <3> QED
      BY <3>1
  <2>5. a + 1 \in Nat /\ a + 1 <= Len(f) /\ n <= Len(F)
    BY <1>1, <1>6
  <2>6. CombinedTo(F, m, n, a + 1, Append(o, b), "loop")
    <3> DEFINE p == Append(o, b)
    <3>1. p = s \o u
      BY <2>3
    <3> HIDE DEF p
    <3>2. \E g2, s2, t2 :
            /\ Flat(F, n, g2, s2) /\ t2 \in Seq(Nat) /\ Len(t2) = a + 1 /\ p = s2 \o t2
            /\ a + 1 > 0 => n < Len(F) /\ F[n + 1] # m /\ a + 1 <= Len(F[n + 1]) /\ \A k \in 1..a + 1 : t2[k] = F[n + 1][k]
      <4>1. a + 1 <= Len(F[n + 1]) /\ \A k \in 1..a + 1 : u[k] = F[n + 1][k]
        BY <1>4, <2>4, <2>5, Zenon
      <4> HIDE DEF p
      <4> QED
        <5>1. n < Len(F) /\ F[n + 1] # m
          OBVIOUS
        <5>2. Flat(F, n, g, s) /\ u \in Seq(Nat) /\ Len(u) = a + 1
          BY <1>2, <2>2
        <5> QED
          BY <3>1, <4>1, <5>1, <5>2, Zenon
    <3>3. CombinedTo(F, m, n, a + 1, p, "loop")
      <4>1. ("loop" = "done") => a + 1 = 0 /\ (n = Len(F) \/ F[n + 1] = m)
        BY <1>0, Zenon
      <4> QED
        BY <1>1, <2>5, <3>2, <4>1, Zenon DEF CombinedTo
    <3> QED
      BY <3>3 DEF p
  <2> QED
    BY <1>4, <1>6, <2>1, <2>6, Zenon
<1>7. CASE ~(a < Len(f))
  <2>1. Len(f) \in Nat
    OBVIOUS
  <2>2. a = Len(f)
    BY <1>1, <1>5, <1>7, <2>1
  <2>3. t = f
    BY <1>2, <1>5, <2>2, SameBytes
  <2>4. PICK h : Flat(F, n + 1, h, s \o f)
    BY <1>1, <1>2, <1>4, FlatNext, Zenon
  <2>5. (s \o f) \o <<>> = s \o f /\ <<>> \in Seq(Nat) /\ Len(<<>>) = 0 /\ ~(0 > 0) /\ 0 \in Nat
    <3>1. s \o f \in Seq(Nat)
      BY <1>3, Joined, Zenon
    <3> QED
      BY <3>1, ConcatEmptySeq
  <2>6. n + 1 \in Nat /\ n + 1 <= Len(F) /\ \A k \in 1..n + 1 : F[k] # m
    <3>1. \A k \in 1..n + 1 : k \in 1..n \/ k = n + 1
      BY <1>1
    <3>2. \A k \in 1..n + 1 : F[k] # m
      BY <1>1, <3>1, Zenon
    <3>3. n + 1 \in Nat /\ n + 1 <= Len(F)
      BY <1>1
    <3> QED
      BY <3>2, <3>3
  <2>7. CombinedTo(F, m, n + 1, 0, o, "loop")
    BY <1>2, <2>3, <2>4, <2>5, <2>6, Zenon DEF CombinedTo
  <2> QED
    BY <1>4, <1>7, <2>7, Zenon
<1> QED
  BY <1>6, <1>7

LEMMA CombineNext ==
  ASSUME CombineInv, BinJob(job), CombineByte
  PROVE  CombineInv'
<1>1. job.tool = "bincomb" /\ binPc = "loop" /\ job' = job
  BY DEF CombineByte, Turn
<1> DEFINE F == job.files
           m == job.missing
<1>2. F \in Seq(Seq(Nat)) /\ Len(F) \in Nat
  BY <1>1 DEF BinJob
<1>3. CombinedTo(F, m, next, at, out, "loop")
  BY <1>1 DEF CombineInv, CombinedTo
<1>4. next \in Nat /\ next <= Len(F) /\ at \in Nat
  BY <1>3 DEF CombinedTo
<1>5. CASE next = Len(F) \/ F[next + 1] = m
  <2>1. binPc' = "done" /\ next' = next /\ at' = at /\ out' = out
    BY <1>5 DEF CombineByte
  <2>2. at = 0
    <3>1. CASE next = Len(F)
      <4>1. ~(next < Len(F))
        BY <1>2, <3>1
      <4>2. ~(at > 0)
        BY <1>3, <4>1, Zenon DEF CombinedTo
      <4> QED
        BY <1>4, <4>2
    <3>2. CASE F[next + 1] = m
      <4>1. ~(at > 0)
        BY <1>3, <3>2, Zenon DEF CombinedTo
      <4> QED
        BY <1>4, <4>1
    <3> QED
      BY <1>5, <3>1, <3>2
  <2> QED
    <3>1. CombinedTo(F, m, next, at, out, "done")
      BY <1>3, <1>5, <2>2, Zenon DEF CombinedTo
    <3> QED
      BY <1>1, <2>1, <3>1 DEF CombineInv
<1>6. CASE ~(next = Len(F) \/ F[next + 1] = m)
  <2>1. next < Len(F) /\ F[next + 1] # m
    BY <1>2, <1>4, <1>6
  <2>2. /\ at < Len(F[next + 1]) => CombinedTo(F, m, next, at + 1, Append(out, F[next + 1][at + 1]), "loop")
        /\ ~(at < Len(F[next + 1])) => CombinedTo(F, m, next + 1, 0, out, "loop")
    BY <1>2, <1>3, <2>1, CombineStep, Zenon
  <2>3. /\ at < Len(F[next + 1]) => next' = next /\ at' = at + 1 /\ out' = Append(out, F[next + 1][at + 1])
        /\ ~(at < Len(F[next + 1])) => next' = next + 1 /\ at' = 0 /\ out' = out
        /\ binPc' = "loop"
    BY <1>6, Zenon DEF CombineByte
  <2> HIDE DEF F, m
  <2>4. CombinedTo(F, m, next', at', out', "loop")
    BY <2>2, <2>3, Zenon
  <2>5. F' = F /\ m' = m
    BY <1>1, Zenon DEF F, m
  <2> QED
    BY <2>3, <2>4, <2>5, Zenon DEF CombineInv, F, m
<1> QED
  BY <1>5, <1>6

LEMMA FirstFiles ==
  ASSUME NEW F \in Seq(Seq(Nat)), NEW n \in Nat, n <= Len(F)
  PROVE  /\ SubSeq(F, 1, n) \in Seq(Seq(Nat)) /\ Len(SubSeq(F, 1, n)) = n
         /\ \A k \in 1..n : SubSeq(F, 1, n)[k] = F[k]
<1>1. \A i \in 1..n : F[i] \in Seq(Nat)
  OBVIOUS
<1>2. 1 \in Int /\ n \in Int
  OBVIOUS
<1>3. SubSeq(F, 1, n) \in Seq(Seq(Nat))
  BY <1>1, <1>2, SubSeqProperties, Zenon
<1>4. Len(SubSeq(F, 1, n)) = n
  OBVIOUS
<1>5. \A k \in 1..n : SubSeq(F, 1, n)[k] = F[k]
  OBVIOUS
<1> QED
  BY <1>3, <1>4, <1>5

LEMMA CombineExact ==
  ASSUME CombineInv, BinJob(job), binPc = "done", job.tool = "bincomb"
  PROVE  JoinedFiles
<1> DEFINE F == job.files
           M == job.missing
           S == {k \in DOMAIN F : F[k] = M}
<1>1. F \in Seq(Seq(Nat)) /\ Len(F) \in Nat /\ DOMAIN F = 1..Len(F)
  BY DEF BinJob
<1>2. CombinedTo(F, M, next, at, out, "done")
  BY DEF CombineInv
<1>3. PICK n \in Nat : n = next
  BY <1>2 DEF CombinedTo
<1>4. n <= Len(F) /\ at = 0 /\ (n = Len(F) \/ F[n + 1] = M)
  BY <1>2, <1>3 DEF CombinedTo
<1>5. \A k \in 1..n : F[k] # M
  BY <1>2, <1>3, Zenon DEF CombinedTo
<1>6. PICK g, s, t : Flat(F, n, g, s) /\ t \in Seq(Nat) /\ Len(t) = at /\ out = s \o t
  BY <1>2, <1>3, Zenon DEF CombinedTo
<1>7. s \in Seq(Nat)
  BY <1>6 DEF Flat
<1>8. out = s
  <2>1. t = <<>>
    BY <1>4, <1>6
  <2>2. s \o <<>> = s
    BY <1>7, ConcatEmptySeq
  <2> QED
    BY <1>6, <2>1, <2>2, Zenon
<1>9. Opened = (IF S = {} THEN F ELSE SubSeq(F, 1, Min(S) - 1))
  BY DEF Opened
<1> HIDE DEF F, M
<1>l. PICK l \in Nat : l = Len(F) /\ n <= l
  BY <1>1, <1>4, Zenon
<1>10. CASE n = Len(F)
  <2>1. S = {}
    BY <1>1, <1>5, <1>10
  <2>2. Opened = F
    BY <1>9, <2>1, Zenon
  <2>3. FlattenSeq(F) = s
    <3>1. FilesOf(F, n, F)
      BY <1>1, <1>10, Zenon DEF FilesOf
    <3> QED
      BY <1>1, <1>6, <3>1, FlatIsFlattened, Zenon
  <2> QED
    BY <1>8, <2>2, <2>3, Zenon DEF JoinedFiles
<1>11. CASE n # Len(F)
  <2>0. n + 1 \in 1..Len(F) /\ F[n + 1] = M
    BY <1>4, <1>11, <1>l
  <2>1. n + 1 \in S /\ \A k \in S : n + 1 <= k
    <3>1. n + 1 \in S
      BY <1>1, <2>0, Zenon
    <3>2. ASSUME NEW k \in S PROVE n + 1 <= k
      <4>1. k \in 1..Len(F) /\ F[k] = M
        BY <1>1, Zenon
      <4>2. k \notin 1..n
        BY <1>5, <4>1, Zenon
      <4> QED
        BY <1>1, <4>1, <4>2
    <3> QED
      BY <3>1, <3>2
  <2>2. S \subseteq Nat
    BY <1>1
  <2> HIDE DEF S
  <2>3. Min(S) = n + 1
    <3>1. \A z \in S : (\A y \in S : z <= y) => z = n + 1
      BY <2>1, <2>2
    <3> QED
      BY <2>1, <3>1, Zenon DEF Min
  <2>4. Opened = SubSeq(F, 1, n)
    <3>1. S # {} /\ (n + 1) - 1 = n
      BY <2>1
    <3> QED
      BY <1>9, <2>3, <3>1, Zenon
  <2> DEFINE O == SubSeq(F, 1, n)
  <2>5. O \in Seq(Seq(Nat)) /\ Len(O) = n /\ \A k \in 1..n : O[k] = F[k]
    <3>1. n <= Len(F)
      BY <1>l
    <3> QED
      BY <1>1, <3>1, FirstFiles, Zenon
  <2> HIDE DEF O
  <2>6. FlattenSeq(O) = s
    <3>1. FilesOf(F, n, O)
      BY <2>5, Zenon DEF FilesOf
    <3> QED
      BY <1>1, <1>6, <3>1, FlatIsFlattened, Zenon
  <2> QED
    BY <1>8, <2>4, <2>6, Zenon DEF JoinedFiles, O
<1> QED
  BY <1>10, <1>11
-----------------------------------------------------------------------------
(* binfind: whether p is at a place before s is decided, R are the places  *)
(* that were reported; from s the first n bytes of p matched.              *)
FoundTo(f, p, R, s) ==
  /\ s \in Nat /\ s <= Len(f) /\ R \subseteq Nat
  /\ \A m \in R : m + Len(p) <= s
  /\ \A k \in 0..s - 1 : k \in R <=> IsAt(p, f, k) /\ \A m \in R : m < k => m + Len(p) <= k
FoundAt(f, p, R, s, n) ==
  /\ FoundTo(f, p, R, s) /\ n \in 0..Len(p) - 1 /\ s + n <= Len(f)
  /\ \A i \in 1..n : f[s + i] = p[i]

LEMMA IsAtPlace ==
  ASSUME NEW f \in Seq(Nat), NEW p \in Seq(Nat), NEW k \in Nat
  PROVE  IsAt(p, f, k) <=> k + Len(p) <= Len(f) /\ \A i \in 1..Len(p) : f[k + i] = p[i]
<1>1. PICK l \in Nat : l = Len(p)
  OBVIOUS
<1>2. CASE ~(k + l <= Len(f))
  BY <1>1, <1>2 DEF IsAt
<1>3. CASE k + l <= Len(f)
  <2> DEFINE q == SubSeq(f, k + 1, k + l)
  <2>1. q \in Seq(Nat) /\ Len(q) = l /\ \A i \in 1..l : q[i] = f[k + i]
    <3>1. k + l \in Nat /\ k <= k + l /\ (k + l) - k = l
      BY <1>1
    <3>2. /\ q \in Seq(Nat) /\ Len(q) = (k + l) - k
          /\ \A i \in 1..(k + l) - k : q[i] = f[k + i]
      BY <1>3, <3>1, Part, Zenon
    <3> HIDE DEF q
    <3> QED
      BY <3>1, <3>2, Zenon
  <2>2. IsAt(p, f, k) <=> q = p
    BY <1>1, <1>3, Zenon DEF IsAt
  <2> HIDE DEF q
  <2>3. (\A i \in 1..l : f[k + i] = p[i]) => q = p
    <3> SUFFICES ASSUME \A i \in 1..l : f[k + i] = p[i] PROVE q = p
      OBVIOUS
    <3>1. \A i \in 1..l : q[i] = p[i]
      BY <2>1, Zenon
    <3> QED
      BY <1>1, <2>1, <3>1, SameBytes
  <2>4. q = p => \A i \in 1..l : f[k + i] = p[i]
    BY <2>1, Zenon
  <2> QED
    BY <1>1, <1>3, <2>2, <2>3, <2>4, Zenon
<1> QED
  BY <1>2, <1>3

LEMMA PassedBy ==
  ASSUME NEW f \in Seq(Nat), NEW p \in Seq(Nat), Len(p) > 0, NEW R, NEW s, FoundTo(f, p, R, s),
         s < Len(f), ~IsAt(p, f, s)
  PROVE  FoundTo(f, p, R, s + 1)
<1>1. PICK l \in Nat, h \in Nat : l = Len(p) /\ h = Len(f) /\ l > 0
  OBVIOUS
<1>2. s \in Nat /\ s <= h /\ R \subseteq Nat /\ \A m \in R : m + l <= s
  BY <1>1 DEF FoundTo
<1>3. \A k \in 0..s - 1 : k \in R <=> IsAt(p, f, k) /\ \A m \in R : m < k => m + l <= k
  BY <1>1, Zenon DEF FoundTo
<1>4. s + 1 \in Nat /\ s + 1 <= h /\ s \notin R
  BY <1>1, <1>2
<1>5. \A m \in R : m + l <= s + 1
  BY <1>1, <1>2
<1>6. ASSUME NEW k \in 0..(s + 1) - 1
      PROVE  k \in R <=> IsAt(p, f, k) /\ \A m \in R : m < k => m + l <= k
  <2>1. CASE k = s
    BY <1>4, <2>1, Zenon
  <2>2. CASE k # s
    <3>1. k \in 0..s - 1
      BY <1>2, <2>2
    <3> QED
      BY <1>3, <3>1, Zenon
  <2> QED
    BY <2>1, <2>2
<1> QED
  BY <1>1, <1>2, <1>4, <1>5, <1>6, Zenon DEF FoundTo

LEMMA Reported ==
  ASSUME NEW f \in Seq(Nat), NEW p \in Seq(Nat), Len(p) > 0, NEW R, NEW s, FoundTo(f, p, R, s),
         IsAt(p, f, s)
  PROVE  FoundTo(f, p, R \cup {s}, s + Len(p))
<1>1. PICK l \in Nat, h \in Nat : l = Len(p) /\ h = Len(f) /\ l > 0
  OBVIOUS
<1>2. s \in Nat /\ s <= h /\ R \subseteq Nat /\ \A m \in R : m + l <= s
  BY <1>1 DEF FoundTo
<1>3. \A k \in 0..s - 1 : k \in R <=> IsAt(p, f, k) /\ \A m \in R : m < k => m + l <= k
  BY <1>1, Zenon DEF FoundTo
<1>4. s + l <= h
  BY <1>1 DEF IsAt
<1> DEFINE Q == R \cup {s}
<1>5. Q \subseteq Nat /\ s + l \in Nat
  BY <1>1, <1>2
<1>6. \A m \in Q : m + l <= s + l
  BY <1>1, <1>2
<1>7. ASSUME NEW k \in 0..(s + l) - 1
      PROVE  k \in Q <=> IsAt(p, f, k) /\ \A m \in Q : m < k => m + l <= k
  <2>1. CASE k < s
    <3>1. k \in 0..s - 1 /\ k # s /\ ~(s < k)
      BY <1>2, <2>1
    <3>2. k \in R <=> IsAt(p, f, k) /\ \A m \in R : m < k => m + l <= k
      BY <1>3, <3>1, Zenon
    <3> QED
      BY <3>1, <3>2, Zenon
  <2>2. CASE k = s
    <3>1. \A m \in Q : m < k => m + l <= k
      BY <1>1, <1>2, <2>2
    <3> QED
      BY <2>2, <3>1, Zenon
  <2>3. CASE k > s
    <3>1. k \notin Q
      BY <1>1, <1>2, <2>3
    <3>2. s \in Q /\ s < k /\ ~(s + l <= k)
      BY <1>1, <1>2, <2>3
    <3> QED
      BY <3>1, <3>2, Zenon
  <2> QED
    BY <1>2, <2>1, <2>2, <2>3
<1> HIDE DEF Q
<1>8. FoundTo(f, p, Q, s + l)
  BY <1>1, <1>4, <1>5, <1>6, <1>7, Zenon DEF FoundTo
<1> QED
  BY <1>1, <1>8, Zenon DEF Q

LEMMA FoundNext ==
  ASSUME NEW f \in Seq(Nat), NEW p \in Seq(Nat), Len(p) > 0, NEW R, NEW s, NEW n,
         FoundAt(f, p, R, s, n), s + n < Len(f)
  PROVE  /\ f[(s + n) + 1] # p[n + 1] => FoundAt(f, p, R, s + 1, 0)
         /\ f[(s + n) + 1] = p[n + 1] /\ n + 1 # Len(p) => FoundAt(f, p, R, s, n + 1)
         /\ f[(s + n) + 1] = p[n + 1] /\ n + 1 = Len(p) =>
              FoundAt(f, p, R \cup {s}, (s + n) + 1, 0)
<1>1. PICK l \in Nat, h \in Nat : l = Len(p) /\ h = Len(f) /\ l > 0
  OBVIOUS
<1>2. FoundTo(f, p, R, s) /\ n \in 0..l - 1 /\ s + n <= h /\ \A i \in 1..n : f[s + i] = p[i]
  BY <1>1 DEF FoundAt
<1>3. s \in Nat /\ n \in Nat /\ s + n < h
  BY <1>1, <1>2 DEF FoundTo
<1>4. 0 \in 0..l - 1 /\ 1..0 = {} /\ n + 1 \in 1..l /\ (s + n) + 1 = s + (n + 1)
  BY <1>1, <1>2, <1>3
<1>5. CASE f[(s + n) + 1] # p[n + 1]
  <2>1. ~IsAt(p, f, s)
    <3>1. f[s + (n + 1)] # p[n + 1] /\ n + 1 \in 1..Len(p)
      BY <1>1, <1>4, <1>5, Zenon
    <3>2. IsAt(p, f, s) => \A i \in 1..Len(p) : f[s + i] = p[i]
      BY <1>3, IsAtPlace, Zenon
    <3> QED
      BY <3>1, <3>2, Zenon
  <2>2. s < Len(f) /\ (s + 1) + 0 <= Len(f)
    BY <1>1, <1>3
  <2>3. FoundTo(f, p, R, s + 1)
    BY <1>2, <2>1, <2>2, PassedBy, Zenon
  <2>4. FoundAt(f, p, R, s + 1, 0)
    BY <1>1, <1>4, <2>2, <2>3 DEF FoundAt
  <2> QED
    BY <1>5, <2>4, Zenon
<1>6. CASE f[(s + n) + 1] = p[n + 1]
  <2>1. ASSUME NEW i \in 1..n + 1 PROVE f[s + i] = p[i]
    <3>1. CASE i = n + 1
      BY <1>4, <1>6, <3>1, Zenon
    <3>2. CASE i # n + 1
      <4>1. i \in 1..n
        BY <1>3, <3>2
      <4> QED
        BY <1>2, <4>1, Zenon
    <3> QED
      BY <3>1, <3>2
  <2>2. CASE n + 1 # l
    <3>1. n + 1 \in 0..l - 1 /\ s + (n + 1) <= h
      BY <1>2, <1>3, <2>2
    <3>2. FoundAt(f, p, R, s, n + 1)
      BY <1>1, <1>2, <2>1, <3>1, Zenon DEF FoundAt
    <3> QED
      BY <1>1, <1>6, <2>2, <3>2, Zenon
  <2>3. CASE n + 1 = l
    <3>1. s + l <= h /\ \A i \in 1..l : f[s + i] = p[i]
      <4>1. s + l <= h
        BY <1>3, <2>3
      <4> QED
        BY <2>1, <2>3, <4>1, Zenon
    <3>2. IsAt(p, f, s)
      BY <1>1, <1>3, <3>1, IsAtPlace, Zenon
    <3>3. FoundTo(f, p, R \cup {s}, s + l)
      BY <1>1, <1>2, <3>2, Reported, Zenon
    <3>4. s + l = (s + n) + 1 /\ ((s + n) + 1) + 0 <= h
      BY <1>3, <2>3
    <3>5. FoundTo(f, p, R \cup {s}, (s + n) + 1)
      BY <3>3, <3>4, Zenon
    <3> DEFINE Q == R \cup {s}
               e == (s + n) + 1
    <3> HIDE DEF Q, e
    <3>6. FoundAt(f, p, Q, e, 0)
      <4>1. FoundTo(f, p, Q, e) /\ e + 0 <= Len(f) /\ 0 \in 0..Len(p) - 1
        BY <1>1, <1>4, <3>4, <3>5, Zenon DEF Q, e
      <4> QED
        BY <1>4, <4>1, Zenon DEF FoundAt
    <3> QED
      BY <1>1, <1>6, <2>3, <3>6, Zenon DEF Q, e
  <2> QED
    BY <2>2, <2>3, Zenon
<1> QED
  BY <1>5, <1>6, Zenon

LEMMA FoundEnds ==
  ASSUME NEW f \in Seq(Nat), NEW p \in Seq(Nat), Len(p) > 0, NEW R, NEW s, NEW n,
         FoundAt(f, p, R, s, n), s + n = Len(f)
  PROVE  \A k \in 0..Len(f) : k \in R <=> IsAt(p, f, k) /\ \A m \in R : m < k => m + Len(p) <= k
<1>1. PICK l \in Nat, h \in Nat : l = Len(p) /\ h = Len(f) /\ l > 0
  OBVIOUS
<1>2. FoundTo(f, p, R, s) /\ n \in 0..l - 1 /\ s + n = h
  BY <1>1 DEF FoundAt
<1>3. s \in Nat /\ R \subseteq Nat /\ \A m \in R : m + l <= s
  BY <1>1, <1>2 DEF FoundTo
<1>4. ASSUME NEW k \in 0..h PROVE k \in R <=> IsAt(p, f, k) /\ \A m \in R : m < k => m + l <= k
  <2>1. CASE k < s
    <3>1. k \in 0..s - 1
      BY <1>3, <2>1
    <3> QED
      BY <1>1, <1>2, <3>1, Zenon DEF FoundTo
  <2>2. CASE ~(k < s)
    <3>1. k \notin R
      BY <1>1, <1>3, <2>2
    <3>2. ~(k + l <= h)
      BY <1>1, <1>2, <1>3, <2>2
    <3>3. ~IsAt(p, f, k)
      BY <1>1, <3>2, Zenon DEF IsAt
    <3> QED
      BY <3>1, <3>3, Zenon
  <2> QED
    BY <2>1, <2>2
<1> QED
  BY <1>1, <1>4, Zenon
-----------------------------------------------------------------------------
FindInv ==
  \E s \in Nat :
    /\ FoundAt(job.file, job.pattern, Range(out), s, next)
    /\ at = s + next /\ pos = at /\ out \in Seq(Nat)
    /\ (matched <=> next # 0) /\ (next # 0 => offset = s)
    /\ binPc = "done" => at = Len(job.file)

LEMMA FindArguments ==
  ASSUME BinJob(job), job.tool = "binfind"
  PROVE  /\ job.file \in Seq(Nat) /\ Len(job.file) \in Nat
         /\ job.pattern \in Seq(Nat) /\ Len(job.pattern) \in Nat /\ Len(job.pattern) > 0
<1>1. job.file \in Seq(Nat) /\ job.pattern \in Seq(Nat) /\ job.pattern # <<>>
  BY DEF BinJob
<1> QED
  BY <1>1

LEMMA FindInit ==
  ASSUME BinInit, BinJob(job), job.tool = "binfind"
  PROVE  FindInv
<1>1. binPc = "loop" /\ at = 0 /\ out = <<>> /\ next = 0 /\ pos = 0 /\ matched = FALSE
  BY DEF BinInit, NoStart, Start
<1>2. Range(out) = {}
  BY <1>1 DEF Range
<1>3. FoundTo(job.file, job.pattern, {}, 0)
  BY FindArguments DEF FoundTo
<1>4. FoundAt(job.file, job.pattern, Range(out), 0, 0)
  BY <1>2, <1>3, FindArguments DEF FoundAt
<1>5. 0 \in Nat /\ 0 = 0 + 0 /\ out \in Seq(Nat) /\ binPc # "done"
  BY <1>1
<1> QED
  BY <1>1, <1>4, <1>5, Zenon DEF FindInv

LEMMA FindNext ==
  ASSUME FindInv, BinJob(job), FindByte
  PROVE  FindInv'
<1>1. job.tool = "binfind" /\ binPc = "loop" /\ job' = job
  BY DEF FindByte, Turn
<1> DEFINE f == job.file
           p == job.pattern
           R == Range(out)
<1>2. f \in Seq(Nat) /\ Len(f) \in Nat /\ p \in Seq(Nat) /\ Len(p) \in Nat /\ Len(p) > 0
  BY <1>1, FindArguments
<1>3. PICK s \in Nat :
        /\ FoundAt(f, p, R, s, next)
        /\ at = s + next /\ pos = at /\ out \in Seq(Nat)
        /\ (matched <=> next # 0) /\ (next # 0 => offset = s)
        /\ binPc = "done" => at = Len(f)
  BY Zenon DEF FindInv
<1>4. next \in 0..Len(p) - 1 /\ s + next <= Len(f) /\ next \in Nat
  <2>1. next \in 0..Len(p) - 1 /\ s + next <= Len(f)
    BY <1>3 DEF FoundAt
  <2> QED
    BY <1>2, <2>1
<1>5. f' = f /\ p' = p
  BY <1>1
<1>6. CASE at < Len(f)
  <2> DEFINE hit  == f[pos + 1] = p[next + 1]
             whole == next + 1 = Len(p)
             from == IF next = 0 THEN at ELSE offset
             back == ~hit /\ matched
  <2>1. /\ offset'  = IF hit THEN from ELSE offset
        /\ matched' = (hit /\ ~whole)
        /\ next'    = IF hit /\ ~whole THEN next + 1 ELSE 0
        /\ out'     = IF hit /\ whole THEN Append(out, from) ELSE out
        /\ at'      = (IF back THEN offset ELSE at) + 1
        /\ pos'     = IF back THEN offset + 1 ELSE pos + 1
        /\ binPc'   = "loop"
    BY <1>3, <1>6, Zenon DEF FindByte, BackTo
  <2>2. from = s
    BY <1>3, <1>4
  <2>3. (IF back THEN offset ELSE at) + 1 = IF hit THEN at + 1 ELSE s + 1
    <3>1. CASE hit
      BY <3>1, Zenon
    <3>2. CASE ~hit /\ matched
      <4>1. offset = s
        BY <1>3, <3>2, Zenon
      <4> QED
        BY <3>2, <4>1, Zenon
    <3>3. CASE ~hit /\ ~matched
      <4>1. next = 0
        BY <1>3, <3>3, Zenon
      <4>2. at = s
        BY <1>3, <4>1
      <4> QED
        BY <3>3, <4>2, Zenon
    <3> QED
      BY <3>1, <3>2, <3>3, Zenon
  <2>4. pos' = at' /\ at' = IF hit THEN at + 1 ELSE s + 1
    <3>1. CASE back
      BY <2>1, <2>3, <3>1, Zenon
    <3>2. CASE ~back
      BY <1>3, <2>1, <2>3, <3>2, Zenon
    <3> QED
      BY <3>1, <3>2, Zenon
  <2>5. hit <=> f[(s + next) + 1] = p[next + 1]
    BY <1>3, Zenon
  <2>6. s + next < Len(f)
    BY <1>3, <1>6, Zenon
  <2>7. /\ f[(s + next) + 1] # p[next + 1] => FoundAt(f, p, R, s + 1, 0)
        /\ f[(s + next) + 1] = p[next + 1] /\ next + 1 # Len(p) => FoundAt(f, p, R, s, next + 1)
        /\ f[(s + next) + 1] = p[next + 1] /\ next + 1 = Len(p) =>
             FoundAt(f, p, R \cup {s}, (s + next) + 1, 0)
    <3> HIDE DEF f, p, R
    <3> QED
      BY <1>2, <1>3, <2>6, FoundNext, Zenon
  <2> HIDE DEF hit, f, p, from, R
  <2>8. CASE ~hit
    <3>1. next' = 0 /\ out' = out /\ at' = s + 1 /\ ~matched'
      BY <2>1, <2>4, <2>8, Zenon
    <3>2. FoundAt(f, p, R, s + 1, 0)
      BY <2>5, <2>7, <2>8, Zenon
    <3>3. s + 1 \in Nat /\ s + 1 = (s + 1) + 0 /\ binPc' # "done"
      BY <2>1
    <3>4. R' = R
      BY <3>1, Zenon DEF R
    <3> QED
      BY <1>3, <1>5, <2>4, <3>1, <3>2, <3>3, <3>4, Zenon DEF FindInv, f, p, R
  <2>9. CASE hit /\ ~whole
    <3>1. next' = next + 1 /\ out' = out /\ at' = at + 1 /\ matched' /\ offset' = s
      BY <2>1, <2>2, <2>4, <2>9, Zenon
    <3>2. FoundAt(f, p, R, s, next + 1)
      BY <2>5, <2>7, <2>9, Zenon
    <3>3. at + 1 = s + (next + 1) /\ next + 1 # 0 /\ binPc' # "done"
      BY <1>3, <1>4, <2>1
    <3>4. R' = R
      BY <3>1, Zenon DEF R
    <3> QED
      BY <1>3, <1>5, <2>4, <3>1, <3>2, <3>3, <3>4, Zenon DEF FindInv, f, p, R
  <2>10. CASE hit /\ whole
    <3>1. next' = 0 /\ out' = Append(out, s) /\ at' = at + 1 /\ ~matched'
      BY <2>1, <2>2, <2>4, <2>10, Zenon
    <3>2. FoundAt(f, p, R \cup {s}, (s + next) + 1, 0)
      BY <2>5, <2>7, <2>10, Zenon
    <3>3. (s + next) + 1 \in Nat /\ at + 1 = ((s + next) + 1) + 0 /\ binPc' # "done"
      BY <1>3, <1>4, <2>1
    <3>4. out' \in Seq(Nat) /\ R' = R \cup {s}
      <4>1. /\ Append(out, s) \in Seq(Nat) /\ Len(Append(out, s)) = Len(out) + 1
            /\ \A i \in 1..Len(out) : Append(out, s)[i] = out[i]
            /\ Append(out, s)[Len(out) + 1] = s
        BY <1>3, AppendProperties
      <4>2. Range(Append(out, s)) = Range(out) \cup {s}
        BY <1>3, <4>1 DEF Range
      <4> QED
        BY <3>1, <4>1, <4>2, Zenon DEF R
    <3> QED
      BY <1>5, <2>4, <3>1, <3>2, <3>3, <3>4, Zenon DEF FindInv, f, p, R
  <2> QED
    BY <2>8, <2>9, <2>10, Zenon
<1>7. CASE ~(at < Len(f))
  <2>1. /\ offset' = offset /\ matched' = matched /\ next' = next /\ out' = out /\ at' = at
        /\ pos' = pos
    BY <1>7, Zenon DEF FindByte
  <2>2. at = Len(f)
    BY <1>2, <1>3, <1>4, <1>7
  <2>3. R' = R
    BY <2>1
  <2> QED
    BY <1>3, <1>5, <2>1, <2>2, <2>3, Zenon DEF FindInv
<1> QED
  BY <1>6, <1>7, Zenon

LEMMA FindExact ==
  ASSUME FindInv, BinJob(job), binPc = "done", job.tool = "binfind"
  PROVE  FoundAll
<1>1. PICK s \in Nat :
        /\ FoundAt(job.file, job.pattern, Range(out), s, next)
        /\ at = s + next /\ at = Len(job.file)
  BY Zenon DEF FindInv
<1>2. s + next = Len(job.file)
  BY <1>1, Zenon
<1>3. \A k \in 0..Len(job.file) :
        k \in Range(out) <=> /\ IsAt(job.pattern, job.file, k)
                             /\ \A m \in Range(out) : m < k => m + Len(job.pattern) <= k
  <2>1. job.file \in Seq(Nat) /\ job.pattern \in Seq(Nat) /\ Len(job.pattern) > 0
    BY FindArguments
  <2> DEFINE f == job.file
             p == job.pattern
             R == Range(out)
  <2>2. f \in Seq(Nat) /\ p \in Seq(Nat) /\ Len(p) > 0 /\ FoundAt(f, p, R, s, next) /\ s + next = Len(f)
    BY <1>1, <1>2, <2>1
  <2> HIDE DEF f, p, R
  <2>3. \A k \in 0..Len(f) : k \in R <=> IsAt(p, f, k) /\ \A m \in R : m < k => m + Len(p) <= k
    BY <2>2, FoundEnds
  <2> QED
    BY <2>3, Zenon DEF f, p, R
<1> QED
  BY <1>3, Zenon DEF FoundAll
-----------------------------------------------------------------------------
(* Each tool keeps what it has done of its promise.                        *)
BinInv ==
  /\ BinJob(job) /\ binPc \in {"loop", "done"}
  /\ job.tool \in {"bincpy", "bindump"} => CopyInv
  /\ job.tool = "binedit"   => EditInv
  /\ job.tool = "binendian" => EndianInv
  /\ job.tool = "binfind"   => FindInv
  /\ job.tool = "bincomb"   => CombineInv
  /\ job.tool = "bindiff"   => DiffInv
  /\ job.tool = "binmega"   => MegaInv

LEMMA BinBegins == BinInit => BinInv
<1> SUFFICES ASSUME BinInit PROVE BinInv
  OBVIOUS
<1>1. BinJob(job)
  BY BinConstantsOK, Zenon DEF BinInit
<1>2. binPc \in {"loop", "done"}
  BY DEF BinInit
<1> QED
  BY <1>1, <1>2, CopyInit, EditInit, EndianInit, FindInit, CombineInit, DiffInit, MegaInit, Zenon DEF BinInv

LEMMA BinStays ==
  ASSUME BinInv, UNCHANGED binVars
  PROVE  BinInv'
<1>1. /\ binPc' = binPc /\ job' = job /\ at' = at /\ pos' = pos /\ eof' = eof /\ acc' = acc
      /\ next' = next /\ matched' = matched /\ offset' = offset /\ out' = out
  BY DEF binVars
<1>2. NoStart' = NoStart /\ Start' = Start /\ Most' = Most /\ MegaSize' = MegaSize
  BY <1>1 DEF NoStart, Start, Most, DumpLength, DumpStart, BadStart, MegaSize
<1>3. CopyInv => CopyInv'
  BY <1>1, <1>2 DEF CopyInv
<1>4. EditInv => EditInv'
  BY <1>1, <1>2 DEF EditInv
<1>5. EndianInv => EndianInv'
  BY <1>1 DEF EndianInv
<1>6. FindInv => FindInv'
  BY <1>1 DEF FindInv
<1>7. CombineInv => CombineInv'
  BY <1>1 DEF CombineInv
<1>8. DiffInv => DiffInv'
  BY <1>1 DEF DiffInv
<1>9. MegaInv => MegaInv'
  BY <1>1, <1>2 DEF MegaInv
<1> QED
  BY <1>1, <1>3, <1>4, <1>5, <1>6, <1>7, <1>8, <1>9 DEF BinInv

LEMMA BinGoes == BinInv /\ [BinNext]_binVars => BinInv'
<1> SUFFICES ASSUME BinInv, [BinNext]_binVars PROVE BinInv'
  OBVIOUS
<1>1. BinJob(job)
  BY DEF BinInv
<1>2. CASE CopyByte
  <2>1. job.tool \in {"bincpy", "bindump"} /\ job' = job /\ binPc' \in {"loop", "done"}
    BY <1>2 DEF CopyByte, Turn
  <2>2. CopyInv'
    BY <1>1, <1>2, <2>1, CopyNext DEF BinInv
  <2> QED
    BY <1>1, <2>1, <2>2 DEF BinInv
<1>3. CASE EditByte
  <2>1. job.tool = "binedit" /\ job' = job /\ binPc' \in {"loop", "done"}
    BY <1>3 DEF EditByte, Turn
  <2>2. EditInv'
    BY <1>1, <1>3, <2>1, EditNext DEF BinInv
  <2> QED
    BY <1>1, <2>1, <2>2 DEF BinInv
<1>4. CASE SwapByte
  <2>1. job.tool = "binendian" /\ job' = job /\ binPc' \in {"loop", "done"}
    BY <1>4 DEF SwapByte, Turn
  <2>2. EndianInv'
    BY <1>1, <1>4, <2>1, EndianNext DEF BinInv
  <2> QED
    BY <1>1, <2>1, <2>2 DEF BinInv
<1>5. CASE FindByte
  <2>1. job.tool = "binfind" /\ job' = job /\ binPc' \in {"loop", "done"}
    BY <1>5 DEF FindByte, Turn
  <2>2. FindInv'
    BY <1>1, <1>5, <2>1, FindNext DEF BinInv
  <2> QED
    BY <1>1, <2>1, <2>2 DEF BinInv
<1>6. CASE CombineByte
  <2>1. job.tool = "bincomb" /\ job' = job /\ binPc' \in {"loop", "done"}
    BY <1>6 DEF CombineByte, Turn
  <2>2. CombineInv'
    BY <1>1, <1>6, <2>1, CombineNext DEF BinInv
  <2> QED
    BY <1>1, <2>1, <2>2 DEF BinInv
<1>7. CASE CompareByte
  <2>1. job.tool = "bindiff" /\ job' = job /\ binPc' \in {"loop", "done"}
    BY <1>7 DEF CompareByte, Turn
  <2>2. DiffInv'
    BY <1>1, <1>7, <2>1, DiffNext DEF BinInv
  <2> QED
    BY <1>1, <2>1, <2>2 DEF BinInv
<1>8. CASE MegaByte
  <2>1. job.tool = "binmega" /\ job' = job /\ binPc' \in {"loop", "done"}
    BY <1>8 DEF MegaByte, Turn
  <2>2. MegaInv'
    BY <1>1, <1>8, <2>1, MegaNext DEF BinInv
  <2> QED
    BY <1>1, <2>1, <2>2 DEF BinInv
<1>9. CASE GenerateChar \/ XorStrings
  <2>1. job.tool \in {"bingen", "binxor"} /\ job' = job /\ binPc' \in {"loop", "done"}
    BY <1>9 DEF GenerateChar, XorStrings, Turn
  <2> QED
    BY <1>1, <2>1 DEF BinInv
<1>10. CASE UNCHANGED binVars
  BY <1>10, BinStays
<1> QED
  BY <1>2, <1>3, <1>4, <1>5, <1>6, <1>7, <1>8, <1>9, <1>10 DEF BinNext

LEMMA BinExact == BinInv => ToolsAreExact
<1> SUFFICES ASSUME BinInv, binPc = "done"
             PROVE  CASE job.tool = "bincpy"    -> CopiedSlice
                      [] job.tool = "bindump"   -> DumpedBytes
                      [] job.tool = "binedit"   -> EditedFile
                      [] job.tool = "binendian" -> TurnedWords
                      [] job.tool = "binfind"   -> FoundAll
                      [] job.tool = "bincomb"   -> JoinedFiles
                      [] job.tool = "bindiff"   -> FirstDifferences
                      [] job.tool = "binmega"   -> ManyBytes
                      [] OTHER                  -> TRUE
  BY DEF ToolsAreExact
<1>1. BinJob(job)
  BY DEF BinInv
<1>2. job.tool = "bincpy" => CopiedSlice
  BY <1>1, CopyExact DEF BinInv
<1>3. job.tool = "bindump" => DumpedBytes
  BY <1>1, DumpExact DEF BinInv
<1>4. job.tool = "binedit" => EditedFile
  BY <1>1, EditExact DEF BinInv
<1>5. job.tool = "binendian" => TurnedWords
  BY <1>1, EndianExact DEF BinInv
<1>6. job.tool = "binfind" => FoundAll
  BY <1>1, FindExact DEF BinInv
<1>7. job.tool = "bincomb" => JoinedFiles
  BY <1>1, CombineExact DEF BinInv
<1>8. job.tool = "bindiff" => FirstDifferences
  BY <1>1, DiffExact DEF BinInv
<1>9. job.tool = "binmega" => ManyBytes
  BY <1>1, MegaExact DEF BinInv
<1> QED
  BY <1>2, <1>3, <1>4, <1>5, <1>6, <1>7, <1>8, <1>9

(* What a tool of binutil has written when it ends is what its name        *)
(* promises, of any file, whatever its arguments (bincpy.c, bindump.c,     *)
(* binedit.c, binendian.c, binfind.c, bincomb.c, bindiff.c, binmega.c).    *)
THEOREM FilesExact == BinSpec => []ToolsAreExact
<1>1. BinInit => BinInv
  BY BinBegins
<1>2. BinInv /\ [BinNext]_binVars => BinInv'
  BY BinGoes
<1>3. BinInv => ToolsAreExact
  BY BinExact
<1> QED
  BY <1>1, <1>2, <1>3, PTL DEF BinSpec
=============================================================================
