----------------------------- MODULE MCCDaemon ------------------------------
(* A small instance of CDaemon: a client @a the policy allows at first, and  *)
(* a policy service that pushes a config, and asks for a session itself.  The *)
(* command lines: one with a policy service, one that caches none of its     *)
(* decisions, one with managers instead, of whom @a is one and @m cannot be  *)
(* reached, and two that are refused.                                        *)
EXTENDS CDaemon

Good == [atsign |-> "@d", managers |-> <<>>, policy |-> "@p", sshdPort |-> 22,
         cacheSize |-> 1, keyCheckSecs |-> 10, permitOpenParses |-> TRUE, algorithm |-> "",
         sshpublickey |-> TRUE, rootDomain |-> "host"]
Uncached == [Good EXCEPT !.cacheSize = 0]
Managed == [Good EXCEPT !.managers = <<"@m", "@a">>, !.policy = ""]
Options2 == {Good, Uncached, Managed,
             [Good EXCEPT !.managers = <<"@d">>], [Good EXCEPT !.rootDomain = "proxy:"]}

N(id, from, kind) == [id |-> id, from |-> from, whole |-> TRUE, key |-> "request", kind |-> kind]
Push(id) == [N(id, "@p", "none") EXCEPT !.key = "config"]
FromA == {N(101, "@a", "npt"), N(102, "@a", "sshpublickey")}
FromP == {N(104, "@p", "npt"), Push(103)}
Notes == FromA \cup FromP
SentTo == [o \in Options2 |-> IF o = Uncached THEN FromP ELSE FromA]

=============================================================================
