----------------------------- MODULE CRequests ------------------------------
(***************************************************************************)
(* What the C sshnpd (packages/c/sshnpd) makes of one session request: the  *)
(* checks between a decrypted notification and a running srv.  A request is *)
(* a record of the facts about its JSON envelope that the checks read; what *)
(* they do with each is an operator here, and CSessions runs them in the    *)
(* order of the handlers.                                                   *)
(***************************************************************************)
EXTENDS CSrvParams, Integers, Sequences, FiniteSets

CONSTANTS PermitOpen,       \* the daemon's --permit-open list
          LocalSshdPort,    \* --local-sshd-port
          MaxTimeoutSecs    \* SRV_MAX_TIMEOUT_SECONDS

(* A request, by what its envelope holds; "" is an absent or unusable value. *)
(*   parses, fields       the value is JSON; the four envelope fields are there *)
(*   hash, algo, bits     the named algorithms, and the signer's real modulus *)
(*   genuine              the signature is the sender's over this payload     *)
(*   relay, to            host and port of the relay and of the service       *)
(*   auth, mode, nonces, aesKey            what is asked of relay auth        *)
(*   e2ee, twin, pkType, pkBits            what is asked of encryption        *)
(*   enroll               the enrollment signature field; by is the kid of    *)
(*                        the key that made it, whatever kid it names         *)
Address == [host : STRING, port : Int]
AnyRequest ==
    [from : STRING, kind : {"ssh", "npt"}, parses : BOOLEAN, fields : BOOLEAN,
     hash : STRING, algo : STRING, bits : Nat, genuine : BOOLEAN,
     id : STRING, direct : {"yes", "no", "absent"}, relay : Address, to : Address,
     timeout : Int, auth : BOOLEAN, mode : {"absent", "payload", "escr"},
     nonces : BOOLEAN, aesKey : BOOLEAN, e2ee : BOOLEAN, twin : BOOLEAN,
     pkType : STRING, pkBits : Nat,
     enroll : [field : {"absent", "object", "other"}, texts : BOOLEAN, key : STRING,
               owner : STRING, sa : STRING, ha : STRING, kid : STRING, by : STRING]]

-----------------------------------------------------------------------------
(* The envelope                                                            *)

(* verify_envelope_signature: one hash, one algorithm, and a key that is    *)
(* really of the size its algorithm names.                                  *)
VerifyEnvelopeSignature(q) ==
    q.hash = "sha256" /\ q.algo = "rsa2048" /\ q.bits = 2048 /\ q.genuine

(* verify_envelope_signature_from: fetched says whether the sender's public *)
(* key could be had.                                                        *)
VerifyEnvelopeSignatureFrom(q, fetched) ==
    q.fields /\ fetched /\ VerifyEnvelopeSignature(q)

IsValidPort(p) == p \in 1 .. 65535

(* verify_envelope_contents and verify_payload_contents; "" stands for an id *)
(* is_valid_session_id refuses.                                             *)
VerifyEnvelopeContents(q) ==
    /\ q.fields
    /\ q.id # ""
    /\ q.relay.host # "" /\ IsValidPort(q.relay.port)
    /\ CASE q.kind = "ssh" -> q.direct = "yes"
         [] q.kind = "npt" -> q.to.host # "" /\ IsValidPort(q.to.port)

-----------------------------------------------------------------------------
(* Where the session may go                                                *)

Requested(q) == IF q.kind = "ssh" THEN [host |-> "localhost", port |-> LocalSshdPort]
                ELSE q.to

(* should_permitopen; port 0 is how '*' is kept. *)
ShouldPermitopen(to) ==
    \E e \in PermitOpen : e.host \in {"*", to.host} /\ e.port \in {0, to.port}

(* policy_permits_open: '*' is 0 again; a port that is neither that nor      *)
(* 1-65535 matches nothing, so an entry that holds one never widens.        *)
PolicyPermitsOpen(entries, to) ==
    \E e \in entries : /\ e.host \in {"*", to.host}
                       /\ e.port = 0 \/ (IsValidPort(e.port) /\ e.port = to.port)

-----------------------------------------------------------------------------
(* What srv is started with                                                *)

(* Escr is used when asked for and possible; otherwise the signed string,   *)
(* which needs both nonces (create_rvd_auth_string).                        *)
UsesEscr(q) == q.mode = "escr" /\ q.aesKey
RelayAuth(q) ==
    CASE ~q.auth                              -> "none"
      [] q.auth /\ UsesEscr(q)                -> "escr"
      [] q.auth /\ ~UsesEscr(q) /\ q.nonces   -> "string"
      [] OTHER                                -> "failed"

(* setup_rvd_session_encryption: the client's ephemeral key must be RSA and *)
(* really 2048 bits, since what it encrypts goes to a buffer of that size.  *)
SetupRvdSessionEncryption(q) == q.pkType = "rsa2048" /\ q.pkBits = 2048

(* The npt timeout, in seconds from milliseconds: capped first, rounded up. *)
TimeoutSeconds(q) ==
    LET ms == IF q.timeout > MaxTimeoutSecs * 1000 THEN MaxTimeoutSecs * 1000
              ELSE q.timeout
    IN  IF q.kind = "ssh" \/ q.timeout <= 0 THEN 30 ELSE (ms + 999) \div 1000

(* Mutant: both relay auth options are passed when escr is chosen. *)
RunSrvProcessBothAuths(q) ==
    [ports |-> TRUE, host |-> TRUE, bindLocal |-> FALSE, multi |-> q.kind = "npt",
     relayAuth |-> IF RelayAuth(q) = "escr" THEN "escr" ELSE "unset",
     rvAuth |-> q.auth,
     escrEnv |-> RelayAuth(q) = "escr", rvAuthEnv |-> RelayAuth(q) = "string",
     e2ee |-> q.e2ee, c2dEnv |-> q.e2ee,
     d2cEnv |-> IF q.e2ee /\ q.twin THEN "both" ELSE "none"]

(* run_srv_process: the command line and environment of the srv worker. *)
RunSrvProcess(q) ==
    [ports |-> TRUE, host |-> TRUE, bindLocal |-> FALSE, multi |-> q.kind = "npt",
     relayAuth |-> IF RelayAuth(q) = "escr" THEN "escr" ELSE "unset",
     rvAuth |-> q.auth /\ RelayAuth(q) # "escr",
     escrEnv |-> RelayAuth(q) = "escr", rvAuthEnv |-> RelayAuth(q) = "string",
     e2ee |-> q.e2ee, c2dEnv |-> q.e2ee,
     d2cEnv |-> IF q.e2ee /\ q.twin THEN "both" ELSE "none"]

(* start_ssh_session and start_npt_session up to the fork: both lists must  *)
(* allow the address, the policy's only when the policy service was asked.  *)
MayStart(q, policy) ==
    /\ ShouldPermitopen(Requested(q))
    /\ policy.checked => PolicyPermitsOpen(policy.permitOpen, Requested(q))
    /\ RelayAuth(q) # "failed"
    /\ q.e2ee => SetupRvdSessionEncryption(q)

-----------------------------------------------------------------------------
(* The enrollment signature                                                *)

HashingAlgorithms == {"sha256", "sha512", "md5", "argon2id"}

(* active_apsk_keys: the keys a record offers for new signatures.  A bare   *)
(* value is one RSA key; of an advertisement, those that sign, are active   *)
(* and have an algorithm NoPorts verifies.                                  *)
ActiveApskKeys(ad) ==
    SelectSeq(ad.keys, LAMBDA k : /\ k.use = "sign" /\ k.active
                                  /\ k.alg \in {"rsa2048", "mldsa65"})

(* verify_enrollment_signature up to its lookup: "lookup" when it goes on. *)
BeforeLookup(q) ==
    LET f == q.enroll
    IN  CASE f.field = "absent" -> "absent"
          [] f.field = "other" \/ (f.field = "object" /\ ~f.texts) -> "refused"
          [] OTHER ->
               IF f.key # "" /\ f.owner = q.from /\ f.sa = "rsa2048"
                  /\ f.ha \in HashingAlgorithms /\ f.kid # "?"
               THEN "lookup" ELSE "refused"

(* The rest: looked is what the lookup answered, ad the record's value.  A  *)
(* stronger algorithm on offer, or no single key to go by, is a refusal.    *)
AfterLookup(q, looked, ad) ==
    LET f    == q.enroll
        keys == ActiveApskKeys(ad)
        rsa  == SelectSeq(keys, LAMBDA k : k.alg = "rsa2048")
        mine == SelectSeq(rsa, LAMBDA k : f.kid \in {"", k.kid})
    IN  IF looked # "found" THEN "unchecked"
        ELSE IF /\ ad.readable /\ keys # <<>>
                /\ Len(rsa) = Len(keys)
                /\ f.kid = "" => Len(rsa) = 1
                /\ mine # <<>>
                /\ f.ha \in {"sha256", "sha512"}
                /\ mine[1].kid = f.by
             THEN "verified" ELSE "refused"

=============================================================================
