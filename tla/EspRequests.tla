----------------------------- MODULE EspRequests -----------------------------
(***************************************************************************)
(* What the ESP32 daemon makes of one npt request, noports_daemon.cpp's       *)
(* _continueNptRequest and what it calls.  A request is the record that       *)
(* CRequests describes; the verifier of enrollment signatures is the C        *)
(* daemon's own, noports_enrollment_signature.c being a copy of it under      *)
(* other names, so its operators are taken from there.                       *)
(***************************************************************************)
EXTENDS Integers, Sequences

CONSTANTS PermitOpen,   \* the policy's permitOpen list for this device in policy mode,
                        \* _config.permitopen without a policy
          Enrolled,     \* the daemon has an enrollment id and its APKAM key
          RequireSigned \* require_enrollment_signature

C == INSTANCE CRequests WITH PermitOpen <- PermitOpen, LocalSshdPort <- 22, MaxTimeoutSecs <- 0

(* _verifyEnvelopeSignature; fetched says that the sender's public key could   *)
(* be had over the worker connection.                                        *)
VerifyEnvelopeSignature(q, fetched) ==
    /\ q.fields /\ fetched
    /\ q.bits = 2048 /\ q.hash = "sha256" /\ q.algo = "rsa2048" /\ q.genuine

(* _verifyEnvelopeContents of an npt request: ports that would wrap in a      *)
(* uint16_t are refused here.                                               *)
VerifyEnvelopeContents(q) ==
    /\ q.fields /\ q.id # ""
    /\ q.relay.host # "" /\ q.to.host # ""
    /\ q.relay.port \in 1 .. 65535 /\ q.to.port \in 1 .. 65535

(* The permitopen check: one list is authoritative, an empty one permits       *)
(* nothing, 0 is the '*' of a port, and a port that does not parse matches    *)
(* nothing.                                                                 *)
Permitted(q) ==
    \E e \in PermitOpen : /\ e.host \in {"*", q.to.host}
                          /\ e.port = 0 \/ (e.port \in 1 .. 65535 /\ e.port = q.to.port)

(* How the relay will authenticate to srvd.  Escr falls back on the signed     *)
(* nonces; without both of them, or a signature, nothing is sent.            *)
RelayAuth(q, signs) ==
    CASE ~q.auth -> "none"
      [] q.auth /\ q.mode = "escr" /\ Enrolled /\ q.aesKey -> "escr"
      [] OTHER -> IF q.auth /\ q.nonces /\ signs THEN "string" ELSE "none"

(* The session's keys: made, and encrypted for a client key that is really     *)
(* RSA-2048.  One that cannot be made is the end of the request.             *)
SessionKeys(q, memory) == q.e2ee => memory /\ q.pkType = "rsa2048" /\ q.pkBits = 2048

(* noports_verify_enrollment_signature before and after its lookup; a record    *)
(* that offers no key to verify with is refused as it is read.               *)
EnrollmentFields(q) == C!BeforeLookup(q)
ActiveApskKeys(ad) == IF ad.readable THEN C!ActiveApskKeys(ad) ELSE <<>>
EnrollmentVerdict(q, looked, ad) ==
    IF looked = "found" /\ ActiveApskKeys(ad) = <<>> THEN "refused" ELSE C!AfterLookup(q, looked, ad)

(* _lookupSigningKey: the atServer's HTTPS first; where that is not served, the *)
(* daemon's own atServer, for whom a key that is not there is a failure like  *)
(* any other.                                                               *)
LookupSigningKey(https, own) ==
    IF https # "not_served" THEN https ELSE IF own = "found" THEN "found" ELSE "failed"

(* The verdict of _checkClientSigningKey: refused, or the key to watch, "" for *)
(* a session that is not watched.                                           *)
CheckClientSigningKey(q, verdict) ==
    CASE verdict = "verified" -> [ok |-> TRUE, key |-> q.enroll.key]
      [] verdict = "refused"  -> [ok |-> FALSE, key |-> ""]
      [] verdict \in {"unchecked", "absent"} -> [ok |-> ~RequireSigned, key |-> ""]

=============================================================================
