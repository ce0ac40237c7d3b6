-------------------------- MODULE MCClientSessions --------------------------
(* ClientSessions with one daemon and two requests that carry the same      *)
(* session id, signed with different keys.                                  *)
EXTENDS ClientSessions

CONSTANTS i1, r1, r2, x1, k1, k2

OneInstance == {i1}
TwoRequests == {r1, r2}
OneId == {x1}
SameId == [r \in Requests |-> x1]
TwoKeys == {k1, k2}
OwnKeys == [r \in Requests |-> IF r = r1 THEN k1 ELSE k2]
=============================================================================
