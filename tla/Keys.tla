-------------------------------- MODULE Keys ---------------------------------
(***************************************************************************)
(* generate of auth/auth.cc: a key and its certificate are made in memory, *)
(* then key.pem and, after it, cert.pem are truncated and written.  None   *)
(* of the results is looked at, and the process may end at any step.       *)
(*                                                                         *)
(* A file holds the number of the generation its content belongs to.       *)
(***************************************************************************)
EXTENDS Integers

CONSTANT MaxGenerations   \* bound: calls of generate

ASSUME KeysAssumption == MaxGenerations \in Nat

ABSENT == -1
EMPTY == 0     \* truncated, or cut short by a full disk
NULL == 0      \* no key or certificate in memory

VARIABLES
  key_pem, cert_pem,  \* the two files
  pkey, cert,         \* what generate has in memory
  generation,         \* calls of generate so far
  keys_pc,            \* the step that comes next
  trouble             \* a step of the last generate failed, or it was interrupted

keysVars == <<key_pem, cert_pem, pkey, cert, generation, keys_pc, trouble>>

KeysInit ==
  /\ key_pem = ABSENT /\ cert_pem = ABSENT
  /\ pkey = NULL /\ cert = NULL
  /\ generation = 0 /\ keys_pc = "idle" /\ trouble = FALSE

(* OpenSSL may refuse at any of its four calls. *)
generate_key ==
  /\ keys_pc = "idle" /\ generation < MaxGenerations
  /\ generation' = generation + 1
  /\ \/ pkey' = generation + 1 /\ trouble' = FALSE
     \/ pkey' = NULL /\ trouble' = TRUE
  /\ keys_pc' = "cert"
  /\ UNCHANGED <<key_pem, cert_pem, cert>>

(* Mutant: a certificate that is on disk is used again. *)
CertFor_cached(key) == IF cert_pem > EMPTY THEN cert_pem ELSE key

CertFor(key) == key

(* Without a key there is nothing to sign with. *)
generate_cert ==
  /\ keys_pc = "cert" /\ keys_pc' = "open_key"
  /\ \/ pkey # NULL /\ cert' = CertFor(pkey) /\ UNCHANGED trouble
     \/ cert' = NULL /\ trouble' = TRUE
  /\ UNCHANGED <<key_pem, cert_pem, pkey, generation>>

(* Mutant: the file is opened without truncating it. *)
Truncated_not(file) == file

(* fopen with "wb". *)
Truncated(file) == EMPTY

OpenKey ==
  /\ keys_pc = "open_key" /\ keys_pc' = "write_key"
  /\ key_pem' = Truncated(key_pem)
  /\ UNCHANGED <<cert_pem, pkey, cert, generation, trouble>>

(* PEM_write_PrivateKey and fclose; a write that fails goes unnoticed. *)
WriteKey ==
  /\ keys_pc = "write_key" /\ keys_pc' = "open_cert"
  /\ \/ pkey # NULL /\ key_pem' = pkey /\ UNCHANGED trouble
     \/ trouble' = TRUE /\ UNCHANGED key_pem
  /\ UNCHANGED <<cert_pem, pkey, cert, generation>>

OpenCert ==
  /\ keys_pc = "open_cert" /\ keys_pc' = "write_cert"
  /\ cert_pem' = Truncated(cert_pem)
  /\ UNCHANGED <<key_pem, pkey, cert, generation, trouble>>

(* PEM_write_X509 and fclose, then both are freed. *)
WriteCert ==
  /\ keys_pc = "write_cert" /\ keys_pc' = "idle"
  /\ \/ cert # NULL /\ cert_pem' = cert /\ UNCHANGED trouble
     \/ trouble' = TRUE /\ UNCHANGED cert_pem
  /\ pkey' = NULL /\ cert' = NULL
  /\ UNCHANGED <<key_pem, generation>>

(* The process ends: a null pointer given to OpenSSL, the null FILE of a    *)
(* failed fopen closed, or a crash.  What is buffered is lost, the files    *)
(* stay, and another process may generate again.                            *)
KeysCrash ==
  /\ keys_pc # "idle"
  /\ pkey' = NULL /\ cert' = NULL
  /\ keys_pc' = "idle" /\ trouble' = TRUE
  /\ UNCHANGED <<key_pem, cert_pem, generation>>

KeysNext ==
  \/ generate_key \/ generate_cert \/ OpenKey \/ WriteKey \/ OpenCert \/ WriteCert
  \/ KeysCrash

KeysSpec == KeysInit /\ [][KeysNext]_keysVars

-----------------------------------------------------------------------------
(* Properties *)

(* A generate without trouble leaves a key and a certificate of its own     *)
(* generation, whatever an earlier one that failed or was interrupted at    *)
(* any step left behind.                                                    *)
CleanRunLeavesPair ==
  keys_pc = "idle" /\ generation > 0 /\ ~trouble =>
    key_pem = generation /\ cert_pem = generation

(* Since key.pem is truncated and written before cert.pem, a key that is    *)
(* older than the certificate beside it is an empty file: a crash or a      *)
(* failed write can leave such a key, even with a new certificate, but no   *)
(* certificate is ever found beside a complete key of an earlier            *)
(* generation or beside none.                                               *)
OutdatedKeyIsEmpty == cert_pem > key_pem => key_pem = EMPTY

(* What holds between two steps of generate: nothing is in memory when no   *)
(* call runs, what is in memory belongs to the running call, the key file   *)
(* is empty or of this generation once it was opened, and without trouble   *)
(* every step so far has left its result.                                   *)
KeysInv ==
  /\ generation \in Nat
  /\ key_pem \in ABSENT .. generation /\ cert_pem \in ABSENT .. generation
  /\ pkey \in {NULL, generation} /\ cert \in {NULL, generation}
  /\ keys_pc \in {"idle", "cert", "open_key", "write_key", "open_cert", "write_cert"}
  /\ keys_pc = "idle" => pkey = NULL /\ cert = NULL
  /\ keys_pc = "write_key" => key_pem = EMPTY
  /\ keys_pc \in {"open_cert", "write_cert"} => key_pem \in {EMPTY, generation}
  /\ ~trouble =>
       /\ keys_pc # "idle" => pkey = generation
       /\ keys_pc \notin {"idle", "cert"} => cert = generation
       /\ keys_pc \in {"open_cert", "write_cert"} => key_pem = generation

=============================================================================
