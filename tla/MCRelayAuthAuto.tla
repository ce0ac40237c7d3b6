--------------------------- MODULE MCRelayAuthAuto ---------------------------
(* RelayAuthAuto with one connection by every kind of peer, and with two, of *)
(* which the first waits to be challenged.                                   *)
EXTENDS RelayAuthAuto

CONSTANTS c1, c2

TwoConnections == {c1, c2}

Legacy(valid, n) == [kind |-> "legacy", valid |-> valid, sends |-> n]
Escr(valid, n) == [kind |-> "escr", valid |-> valid, sends |-> n]
Junk(n) == [kind |-> "junk", valid |-> FALSE, sends |-> n]
Absent == [kind |-> "absent", valid |-> FALSE, sends |-> 0]

OneOrTwo ==
    {[c \in Connections |-> IF c = c1 THEN p ELSE Absent] :
        p \in {Legacy(TRUE, 4), Legacy(FALSE, 4), Escr(TRUE, 4), Escr(FALSE, 4), Junk(4)}}
    \cup {[c \in Connections |-> IF c = c1 THEN Escr(TRUE, 2) ELSE p] :
        p \in {Legacy(TRUE, 2), Escr(TRUE, 2)}}
==============================================================================
