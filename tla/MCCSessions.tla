---------------------------- MODULE MCCSessions -----------------------------
(* A small instance of CSessions: key k1 of @a, whose atServer is flaky, and *)
(* k3 of @b, whose atServer answers.                                         *)
EXTENDS CSessions

Owner2 == [k \in Key |-> IF k = "k3" THEN "@b" ELSE "@a"]

(* The record of k1 offers a second RSA key, and an old one; that of k3 just one. *)
Ad(kid) == [kid |-> kid, use |-> "sign", alg |-> "rsa2048", active |-> TRUE]
Adverts == [k \in Key |->
    [readable |-> TRUE,
     keys |-> IF k = "k1" THEN <<[Ad("old") EXCEPT !.active = FALSE], Ad("k9"), Ad("k1")>>
              ELSE <<Ad(k)>>]]

Policies == [a \in {"@a", "@b"} |->
    [checked |-> a = "@b", permitOpen |-> IF a = "@b" THEN {[host |-> "*", port |-> 22]} ELSE {}]]

SignedBy(k, a) == [field |-> "object", texts |-> TRUE, key |-> k, owner |-> a,
                   sa |-> "rsa2048", ha |-> "sha512", kid |-> IF k = "k1" THEN k ELSE "",
                   by |-> k]
Good(id, a) ==
    [from |-> a, kind |-> "npt", parses |-> TRUE, fields |-> TRUE, hash |-> "sha256",
     algo |-> "rsa2048", bits |-> 2048, genuine |-> TRUE, id |-> id, direct |-> "absent",
     relay |-> [host |-> "relay", port |-> 40000], to |-> [host |-> "localhost", port |-> 22],
     timeout |-> 1, auth |-> TRUE, mode |-> "escr", nonces |-> TRUE, aesKey |-> TRUE,
     e2ee |-> TRUE, twin |-> TRUE, pkType |-> "rsa2048", pkBits |-> 2048,
     enroll |-> SignedBy(IF a = "@a" THEN "k1" ELSE "k3", a)]

(* A session of @a that authenticates to its relay with escr, and one of @b with
   the signed string. *)
Requests2 ==
    {Good("s1", "@a"),
     [Good("s2", "@b") EXCEPT !.kind = "ssh", !.direct = "yes", !.mode = "payload", !.twin = FALSE]}
SshOnly == {[host |-> "localhost", port |-> 22]}
Moves2 == {<<"k1", "a", "gone">>, <<"k1", "a", "r">>, <<"k3", "a", "d">>}

=============================================================================
