--------------------------- MODULE MCEspSessions ----------------------------
(* A small instance of EspSessions: two slots, a client key that signs two of    *)
(* the requests, another that signs one, and an unsigned request.            *)
EXTENDS EspSessions

MCAdvert == [k \in Key |->
    [readable |-> TRUE,
     keys |-> <<[kid |-> k, use |-> "sign", alg |-> "rsa2048", active |-> TRUE]>>]]

Signed(k) == [field |-> "object", texts |-> TRUE, key |-> k, owner |-> "@a",
              sa |-> "rsa2048", ha |-> "sha256", kid |-> "", by |-> k]
Good(id, k) ==
    [from |-> "@a", kind |-> "npt", parses |-> TRUE, fields |-> TRUE, hash |-> "sha256",
     algo |-> "rsa2048", bits |-> 2048, genuine |-> TRUE, id |-> id, direct |-> "absent",
     relay |-> [host |-> "relay", port |-> 40000], to |-> [host |-> "10.0.0.5", port |-> 80],
     timeout |-> 1, auth |-> TRUE, mode |-> "escr", nonces |-> TRUE, aesKey |-> TRUE,
     e2ee |-> TRUE, twin |-> TRUE, pkType |-> "rsa2048", pkBits |-> 2048,
     enroll |-> Signed(k)]

MCRequest ==
    {Good("s1", "k1"), Good("s2", "k1"),
     Good("s2", "k2"),
     [Good("s1", "k1") EXCEPT !.enroll.field = "absent", !.e2ee = FALSE, !.mode = "payload",
                             !.nonces = FALSE],
     [Good("s3", "k1") EXCEPT !.to.port = 65536 + 80]}
MCMoves == {<<"k1", "a", "gone">>, <<"k1", "gone", "r">>}
MCPermitOpen == {[host |-> "10.0.0.5", port |-> 80]}

=============================================================================
