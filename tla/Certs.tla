------------------------------- MODULE Certs --------------------------------
(***************************************************************************)
(* The programs of cert/ around OpenSSL: create_cert, convert_cert,        *)
(* get_prikey, get_pubkey, verify_der and verify_pem.  Any call of the     *)
(* library or of the system may fail.  Each program is the sequence of     *)
(* these calls with what they return, what they need, and what is given    *)
(* back when they fail; the names are those of its pointers.               *)
(***************************************************************************)
EXTENDS Integers, Sequences, FiniteSets

CONSTANTS
  CertJobs,  \* [tool, a, b, root]: the command line; a and b are the
             \* extensions of the names, "none" without one; for create_cert
             \* a = "none" is a run without -f, and root is one with -k
  OldFiles   \* what the files with the output held before

(* An old .pem may be a key with its certificate, one of them alone (from  *)
(* convert_cert, or from a create_cert that could not open the file once), *)
(* or of several generations.                                              *)
ASSUME CertInputsOK ==
  /\ \A each \in CertJobs :
       /\ each.tool \in {"create_cert", "convert_cert", "get_prikey", "get_pubkey", "verify_der", "verify_pem"}
       /\ each.root \in BOOLEAN
  /\ \A old \in OldFiles :
       /\ old.pem \in Seq([item : {"key", "cert"}, of : {"old", "older"}])
       /\ old.der \in Seq([item : {"cert"}, of : {"old", "older"}])

VARIABLES
  ceJob, ceAt,  \* the program and the call it is at
  ceEnd,        \* how it has ended: "no", "failed", "done", "crashed"
  ptr,          \* the pointers that are not NULL
  alive,        \* the objects, by their pointer; "inKey" is one in another
  misused,      \* an object was used or given back after it was given back
  pemFile, derFile,  \* the output
  full,         \* the disk is full
  missed        \* what could not be opened to write

ceVars == <<ceJob, ceAt, ceEnd, ptr, alive, misused, pemFile, derFile, full, missed>>

CertInit ==
  /\ ceJob \in CertJobs /\ ceAt = 1 /\ ceEnd = "no"
  /\ ptr = {} /\ alive = {} /\ misused = FALSE /\ missed = {} /\ full \in BOOLEAN
  /\ \E old \in OldFiles : pemFile = old.pem /\ derFile = old.der
-----------------------------------------------------------------------------
(* The calls. *)

Call(kind, var, uses, undo) == [kind |-> kind, var |-> var, uses |-> uses, undo |-> undo]
Get(var, uses, undo) == Call("get", var, uses, undo)   \* gives an object, or fails
Take(var, uses)      == Call("take", var, uses, {})    \* the same, and nobody looks
Must(uses, undo)    == Call("check", "none", uses, undo)  \* works, or fails
Need(var)            == Call("need", var, {}, {})      \* is there an object?
Use(uses)            == Call("use", "none", uses, {})      \* dies without an object
Free(vars)           == Call("free", "none", {}, vars)
Save(file, item, uses, undo) == Call("save", <<file, item>>, uses, undo)

(* Whatever fails, all there is is given back.                             *)
Made == {"pCertNew", "pKeyPair", "pBigNumber", "pPriKeyNew", "pFileRoot", "pPriKeyRoot"}
CreateCertificate(root) ==
  <<Get("pCertNew", {}, Made), Get("pKeyPair", {}, Made), Get("pBigNumber", {}, Made),
    Must({"pBigNumber"}, Made), Must({"pKeyPair", "pBigNumber"}, Made), Get("pPriKeyNew", {}, Made),
    Call("assign", "pKeyPair", {"pPriKeyNew", "pKeyPair"}, Made), Must({"pCertNew", "pPriKeyNew"}, Made)>>
  \o (IF root THEN <<Get("pFileRoot", {}, Made), Get("pPriKeyRoot", {"pFileRoot"}, Made),
                     Must({"pCertNew", "pPriKeyRoot"}, Made), Free({"pPriKeyRoot", "pFileRoot"})>>
      ELSE <<Must({"pCertNew", "pPriKeyNew"}, Made)>>)
  \o <<Free({"pBigNumber"})>>
(* Each file that cannot be opened is passed over.                         *)
SaveCertificate ==
  <<Save("new_pem", "key", {"pPriKeyNew"}, {}), Save("pem", "cert", {"pCertNew"}, {}),
    Save("new_der", "cert", {"pCertNew"}, {})>>
CreateCert == CreateCertificate(ceJob.root) \o (IF ceJob.a = "none" THEN <<>> ELSE SaveCertificate)
              \o <<Free({"pCertNew", "pPriKeyNew"})>>

pem2der ==
  <<Get("bio", {}, {}), Get("x509", {"bio"}, {"bio"}),
    Save("new_der", "cert", {"x509"}, {"x509", "bio"}), Free({"x509", "bio"})>>
der2pem ==
  <<Must({}, {}), Get("pFile", {}, {}), Get("pBuf", {}, {"pFile"}), Free({"pFile"}), Get("bio", {"pBuf"}, {}),
    Get("x509", {"bio"}, {"bio"}), Save("new_pem", "cert", {"x509"}, {"bio", "x509"}), Free({"bio", "x509"})>>
(* The extension of a name without one is NULL, which strcmp dies of.      *)
ConvertCert ==
  CASE ceJob.a = "none" -> <<Use({"extension"})>>
    [] ceJob.a = "der" /\ ceJob.b = "pem" -> der2pem
    [] ceJob.a = "pem" /\ ceJob.b = "der" -> pem2der
    [] ceJob.a \in {"der", "pem"} /\ ceJob.b = "none" -> <<Use({"extension"})>>
    [] OTHER -> <<>>

GetPriKey ==
  <<Get("pFile", {}, {}), Take("pPriKey", {"pFile"}), Free({"pFile"}), Need("pPriKey"), Take("pRsa", {"pPriKey"}),
    Free({"pPriKey"}), Need("pRsa"), Must({"pRsa"}, {}), Free({"pRsa"})>>

EXIT_DER == {"pFile", "pRsa", "pX509", "pPubKey"}
EXIT_PEM == {"pPubKey", "pX509", "pCert"}
GetPubKey ==
  CASE ceJob.a = "none" -> <<Use({"extension"})>>
    [] ceJob.a = "der" ->
         <<Must({}, EXIT_DER), Get("pFile", {}, EXIT_DER), Get("pBuf", {}, EXIT_DER), Get("pX509", {}, EXIT_DER),
           Call("parse", "pX509", {"pBuf"}, {}), Get("pPubKey", {"pX509"}, EXIT_DER), Get("pRsa", {"pPubKey"}, EXIT_DER),
           Use({"pRsa"}), Free(EXIT_DER)>>
    [] ceJob.a = "pem" ->
         <<Take("pCert", {}), Must({"pCert"}, EXIT_PEM), Get("pX509", {"pCert"}, EXIT_PEM),
           Get("pPubKey", {"pX509"}, EXIT_PEM), Use({"pPubKey"}), Free(EXIT_PEM)>>
    [] OTHER -> <<>>

(* Its tests are the wrong way round: only what is NULL is given back.     *)
ERROR_EXIT == {}
VerifyDer ==
  <<Get("fp_user", {}, {}), Must({"fp_user"}, {"fp_user"}), Get("fp_root", {}, {"fp_user"}),
    Must({"fp_root"}, {"fp_user", "fp_root"}), Take("fcert_user", {}), Use({"fcert_user", "fp_user"}), Free({"fp_user"}),
    Take("fcert_root", {}), Use({"fcert_root", "fp_root"}), Free({"fp_root"}), Get("bio_user", {"fcert_user"}, ERROR_EXIT),
    Get("bio_root", {"fcert_root"}, ERROR_EXIT), Get("x509_user", {"bio_user"}, ERROR_EXIT),
    Get("x509_root", {"bio_root"}, ERROR_EXIT), Get("pkey_root", {"x509_root"}, ERROR_EXIT),
    Use({"x509_user", "pkey_root"}), Free(ERROR_EXIT)>>

(* Nothing is looked at; the library refuses a key that is NULL, but no     *)
(* certificate.                                                            *)
VerifyPem ==
  <<Take("fcert1", {}), Take("fcert2", {}), Take("x1", {"fcert1"}), Take("x2", {"fcert2"}), Use({"x1"}), Use({"x2"}),
    Take("k1", {"x1"}), Take("k2", {"x2"}), Use({"x1", "x2"}),
    Free({"k1", "k2", "x1", "x2", "fcert1", "fcert2"})>>

Program == CASE ceJob.tool = "create_cert"  -> CreateCert
             [] ceJob.tool = "convert_cert" -> ConvertCert
             [] ceJob.tool = "get_prikey"   -> GetPriKey
             [] ceJob.tool = "get_pubkey"   -> GetPubKey
             [] ceJob.tool = "verify_der"   -> VerifyDer
             [] ceJob.tool = "verify_pem"   -> VerifyPem
-----------------------------------------------------------------------------
(* What they do. *)

Reached(kinds) == ceEnd = "no" /\ ceAt <= Len(Program) /\ Program[ceAt].kind \in kinds
Step      == Program[ceAt]
Proceed   == ceAt' = ceAt + 1 /\ ceEnd' = "no"
GiveUp    == ceAt' = ceAt /\ ceEnd' = "failed"
Uses      == misused' = (misused \/ ~(Step.uses \cap ptr \subseteq alive))
NoOutput  == UNCHANGED <<ceJob, pemFile, derFile, full, missed>>

(* To free NULL does nothing; a key frees what it was given.               *)
GivenBack(vars) == (vars \cap ptr) \cup (IF "pPriKeyNew" \in vars THEN alive \cap {"inKey"} ELSE {})
Release(vars) == /\ alive' = alive \ GivenBack(vars)
                 /\ misused' = (misused \/ ~(Step.uses \cap ptr \subseteq alive) \/ ~(GivenBack(vars) \subseteq alive))

Works == /\ Reached({"get", "take", "check"}) /\ Step.uses \subseteq ptr
         /\ LET new == IF Step.kind = "check" THEN {} ELSE {Step.var}
            IN  ptr' = ptr \cup new /\ alive' = alive \cup new
         /\ Uses /\ Proceed /\ NoOutput

Fails == /\ Reached({"get", "check", "assign"}) /\ Release(Step.undo) /\ GiveUp
         /\ UNCHANGED ptr /\ NoOutput

FailsUnseen == /\ Reached({"take"}) /\ Uses /\ Proceed
               /\ UNCHANGED <<ptr, alive>> /\ NoOutput

TestPointer == /\ Reached({"need"}) /\ (IF Step.var \in ptr THEN Proceed ELSE GiveUp)
               /\ UNCHANGED <<ptr, alive, misused>> /\ NoOutput

UseObjects == /\ Reached({"use"})
              /\ IF Step.uses \subseteq ptr THEN Proceed ELSE ceAt' = ceAt /\ ceEnd' = "crashed"
              /\ Uses /\ UNCHANGED <<ptr, alive>> /\ NoOutput

FreeObjects == /\ Reached({"free"}) /\ Release(Step.undo) /\ Proceed
               /\ UNCHANGED ptr /\ NoOutput

(* The key pair goes to the key; its pointer is cleared.                   *)
KeepPair == ptr                                                    \* mutant
ClearPair == ptr \ {"pKeyPair"}
AssignPair == /\ Reached({"assign"})
              /\ alive' = (alive \ {"pKeyPair"}) \cup {"inKey"} /\ ptr' = ClearPair
              /\ Uses /\ Proceed /\ NoOutput

(* A parse that fails frees the object and clears the pointer.             *)
ParseObject == /\ Reached({"parse"})
               /\ \/ UNCHANGED <<ptr, alive>>
                  \/ ptr' = ptr \ {Step.var} /\ alive' = alive \ {Step.var}
               /\ Uses /\ Proceed /\ NoOutput

(* The item is written behind what the file holds, or to a new one; nobody *)
(* looks whether it could be.                                              *)
StoredItem(item_) == IF full THEN <<>> ELSE <<[item |-> item_, of |-> "new"]>>
Saved(content, new) == (IF new THEN <<>> ELSE content) \o StoredItem(Step.var[2])
SaveItem ==
  /\ Reached({"save"})
  /\ LET file == Step.var[1] IN
       /\ pemFile' = CASE file = "new_pem" -> Saved(pemFile, TRUE) [] file = "pem" -> Saved(pemFile, FALSE)
                       [] OTHER -> pemFile
       /\ derFile' = IF file = "new_der" THEN Saved(derFile, TRUE) ELSE derFile
  /\ Uses /\ Proceed /\ UNCHANGED <<ceJob, full, missed, ptr, alive>>

CannotOpen ==
  /\ Reached({"save"})
  /\ missed' = missed \cup {Step.var}
  /\ IF ceJob.tool = "convert_cert" THEN Release(Step.undo) /\ GiveUp
     ELSE Proceed /\ UNCHANGED <<alive, misused>>
  /\ UNCHANGED <<ceJob, pemFile, derFile, full, ptr>>

ProgramEnds == /\ ceEnd = "no" /\ ceAt > Len(Program) /\ ceEnd' = "done"
               /\ UNCHANGED <<ceAt, ptr, alive, misused>> /\ NoOutput

CertNext == \/ Works \/ Fails \/ FailsUnseen \/ TestPointer \/ UseObjects \/ FreeObjects
            \/ AssignPair \/ ParseObject \/ SaveItem \/ CannotOpen \/ ProgramEnds

CertSpec == CertInit /\ [][CertNext]_ceVars
-----------------------------------------------------------------------------
(* Properties.                                                             *)

CertTypeOK ==
  /\ ceAt \in 1..Len(Program) + 1 /\ ceEnd \in {"no", "failed", "done", "crashed"}
  /\ alive \subseteq ptr \cup {"inKey", "pKeyPair"} /\ misused \in BOOLEAN /\ full \in BOOLEAN
  /\ \A k \in DOMAIN pemFile : pemFile[k].item \in {"key", "cert"}

(* What a program leaves behind at its end: the copy of a DER file, and    *)
(* verify_der what it has read and made of it; get_prikey an RSA key       *)
(* without data.                                                           *)
LeftBehind ==
  CASE ceJob.tool \in {"create_cert", "verify_pem"} -> {}
    [] ceJob.tool = "convert_cert" -> ptr \cap {"pBuf"}
    [] ceJob.tool = "get_pubkey"   -> ptr \cap {"pBuf"}
    [] ceJob.tool = "get_prikey"   -> IF ceEnd = "failed" THEN ptr \cap {"pRsa"} ELSE {}
    [] ceJob.tool = "verify_der"   -> ptr \ {"fp_user", "fp_root"}

(* Whichever calls fail, nothing is used or given back after it was given  *)
(* back, though a key pair changes its owner halfway (create_cert.c:134-   *)
(* 138) and every failure has to know what there is; and at the end all    *)
(* is given back but the leaks above.                                      *)
NothingMisused == ~misused /\ (ceEnd \in {"failed", "done"} => alive = LeftBehind)

(* A key and a certificate in a file belong together.                      *)
Torn(pem)   == \E k, l \in DOMAIN pem : pem[k].of # pem[l].of
Alone(pem)  == Cardinality({pem[k].item : k \in DOMAIN pem}) = 1
Halved(pem) == Torn(pem) \/ Alone(pem)

Converts(from, to) == ceJob.tool = "convert_cert" /\ ceJob.a = from /\ ceJob.b = to
Creates  == ceJob.tool = "create_cert" /\ ceJob.a # "none"
KeyFile  == <<"new_pem", "key">>
CertFile == <<"pem", "cert">>
DerFile  == <<"new_der", "cert">>

(* The files of create_cert: what could be opened holds what was stored.   *)
PemOf(old) == (IF KeyFile \in missed THEN old.pem ELSE StoredItem("key"))
                \o (IF CertFile \in missed THEN <<>> ELSE StoredItem("cert"))
DerOf(old) == IF DerFile \in missed THEN old.der ELSE StoredItem("cert")

(* A program that fails leaves both files as they were; one that ends has  *)
(* written what it was asked to and nothing else.  create_cert passes over *)
(* what it cannot open, and opens its .pem twice: if one of these fails    *)
(* and the other does not, the key is without its certificate, or the      *)
(* certificate alone or behind older items (create_cert.c:227-261), and    *)
(* from no other failure does a pair come apart.                           *)
OutputIsWhole ==
  ceEnd # "no" => \E old \in OldFiles :
    /\ IF ceEnd = "done" /\ Creates THEN pemFile = PemOf(old) /\ derFile = DerOf(old)
       ELSE /\ pemFile = IF ceEnd = "done" /\ Converts("der", "pem") THEN StoredItem("cert") ELSE old.pem
            /\ derFile = IF ceEnd = "done" /\ Converts("pem", "der") THEN StoredItem("cert") ELSE old.der
    /\ ceEnd = "done" /\ Creates /\ ~full =>
         (Halved(pemFile) <=> IF {KeyFile, CertFile} \subseteq missed THEN Halved(old.pem)
                              ELSE KeyFile \in missed \/ CertFile \in missed)

(* Whichever calls of the cert programs fail, no object is misused and the *)
(* output is whole or as it was.                                           *)
CertsAreSafe == NothingMisused /\ OutputIsWhole
=============================================================================
