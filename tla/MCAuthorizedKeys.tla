-------------------------- MODULE MCAuthorizedKeys --------------------------
(* AuthorizedKeys with up to two sessions and a public key. *)
EXTENDS AuthorizedKeys

CONSTANTS s1, s2, p1

NoKeys == {}
OneKey == {p1}
OneSession == {s1}
TwoSessions == {s1, s2}
=============================================================================
