---------------------------- MODULE MCAuthCheck ----------------------------
(***************************************************************************)
(* AuthCheck with two callers, one to make a check and one to join it or   *)
(* to come after it was forgotten, from a client and a manager.            *)
(***************************************************************************)
EXTENDS AuthCheck

CONSTANTS c1, c2, k1, k2

OneClient == {c1}
TwoClients == {c1, c2}
OneManager == {c2}
NoManagers == {}
TwoCallers == {k1, k2}
=============================================================================
