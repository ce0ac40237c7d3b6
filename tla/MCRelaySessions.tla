--------------------------- MODULE MCRelaySessions ---------------------------
(* RelaySessions with a request for a port pair and one for port 443, which *)
(* carry the same session id; and with one request of either kind.          *)
EXTENDS RelaySessions

CONSTANTS r1, r2, x1, k1

OneRequest == {r1}
TwoRequests == {r1, r2}
OneId == {x1}
SameId == [r \in Requests |-> x1]
Second443 == {{r2}}
Either443 == {{}, {r1}}
OneKey == {k1}
==============================================================================
