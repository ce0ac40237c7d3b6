----------------------------- MODULE MCEspDaemon -----------------------------
(* EspDaemon with configurations of which only the first two start. *)
EXTENDS EspDaemon

Good == [atsign |-> "@d", device |-> "dev", policy |-> "@p", managers |-> {}, cacheSize |-> 1,
         rootDomain |-> "host", keys |-> "rsa2048"]
Options ==
    {Good,
     [Good EXCEPT !.policy = "", !.managers = {"@m"}, !.rootDomain = "proxy:host:443"],
     [Good EXCEPT !.policy = ""],
     [Good EXCEPT !.cacheSize = 65],
     [Good EXCEPT !.rootDomain = "host:bad"],
     [Good EXCEPT !.keys = "absent"],
     [Good EXCEPT !.keys = "undecryptable"],
     [Good EXCEPT !.keys = "rsa4096"]}
=============================================================================
