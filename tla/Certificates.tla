---------------------------- MODULE Certificates ---------------------------
(***************************************************************************)
(* middleware/tls.go: the certificate and key files, which outlive the     *)
(* process, and GetTLSConfig, which writes them if there is no certificate *)
(* and then loads them.                                                    *)
(*                                                                         *)
(* A file holds one half of a pair, stands torn (created and not yet       *)
(* written) or is absent.  Creating or writing a file may fail.            *)
(***************************************************************************)
EXTENDS FiniteSets

CONSTANTS Pairs   \* names of key pairs

(* A new pair needs a name that neither file holds.                        *)
ASSUME PairsAssumption == \E p, q \in Pairs : p # q

VARIABLES
  certFile, keyFile,
  pair,              \* the pair that GenerateSelfSignedCert has in memory
  tls                \* where GetTLSConfig is

certVars == <<certFile, keyFile, pair, tls>>

Contents == Pairs \cup {"absent", "torn"}

(* The files of an operator who is done: both halves, or no certificate.   *)
CertInit ==
  /\ certFile \in Pairs \cup {"absent"}
  /\ keyFile \in Pairs \cup {"absent"}
  /\ certFile # "absent" => keyFile = certFile
  /\ pair \in Pairs

Matching == certFile \in Pairs /\ keyFile = certFile

(* The new pair is being written; it is about to be.                       *)
Writing == {"certData", "key", "keyData"}
Generating == Writing \cup {"cert"}

Step(from, to) == tls = from /\ tls' = to

----------------------------------------------------------------------------
(* Mutant: whether there is a certificate is not looked at.                *)
Stat_Always(autoGen) ==
  /\ IF autoGen
       THEN /\ Step("stat", "cert")
            /\ pair' \in Pairs \ {certFile, keyFile}
       ELSE /\ Step("stat", "load")
            /\ UNCHANGED pair
  /\ UNCHANGED <<certFile, keyFile>>

(* os.Stat, and the new pair if there is no certificate.                   *)
Stat(autoGen) ==
  /\ IF autoGen /\ certFile = "absent"
       THEN /\ Step("stat", "cert")
            /\ pair' \in Pairs \ {certFile, keyFile}
       ELSE /\ Step("stat", "load")
            /\ UNCHANGED pair
  /\ UNCHANGED <<certFile, keyFile>>

(* os.Create truncates the file if it is there.                            *)
CreateCert ==
  /\ Step("cert", "certData")
  /\ certFile' = "torn"
  /\ UNCHANGED <<keyFile, pair>>

WriteCert ==
  /\ Step("certData", "key")
  /\ certFile' = pair
  /\ UNCHANGED <<keyFile, pair>>

(* Mutant: a key that is there is kept.                                    *)
CreateKey_KeepsOld ==
  /\ keyFile' = IF keyFile = "absent" THEN "torn" ELSE keyFile
  /\ IF keyFile = "absent" THEN Step("key", "keyData") ELSE Step("key", "load")
  /\ UNCHANGED <<certFile, pair>>

CreateKey ==
  /\ Step("key", "keyData")
  /\ keyFile' = "torn"
  /\ UNCHANGED <<certFile, pair>>

WriteKey ==
  /\ Step("keyData", "load")
  /\ keyFile' = pair
  /\ UNCHANGED <<certFile, pair>>

(* An error of any of them is returned at once and nothing is undone.      *)
GenerateFails ==
  /\ tls \in Generating
  /\ tls' = "failed"
  /\ UNCHANGED <<certFile, keyFile, pair>>

(* tls.LoadX509KeyPair: both files are whole and belong together.          *)
LoadX509KeyPair ==
  /\ IF Matching THEN Step("load", "loaded") ELSE Step("load", "failed")
  /\ UNCHANGED <<certFile, keyFile, pair>>

Generate == CreateCert \/ WriteCert \/ CreateKey \/ WriteKey

----------------------------------------------------------------------------
(* While no process is there, the operator installs a pair, or removes the *)
(* certificate so that a new one is made.                                  *)
Install ==
  /\ \E p \in Pairs : certFile' = p /\ keyFile' = p
  /\ UNCHANGED <<pair, tls>>

RemoveCert ==
  /\ certFile' = "absent"
  /\ UNCHANGED <<keyFile, pair, tls>>

CertTypeOK ==
  /\ certFile \in Contents /\ keyFile \in Contents
  /\ pair \in Pairs
  /\ tls \in {"off", "stat", "load", "loaded", "failed"} \cup Generating
=============================================================================
