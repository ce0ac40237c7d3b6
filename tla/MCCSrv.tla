------------------------------- MODULE MCCSrv -------------------------------
(* A srv with up to three control lines, two tunnels at a time and four      *)
(* descriptors, in both modes.                                               *)
EXTENDS CSrv

Sane == [ports |-> TRUE, host |-> TRUE, bindLocal |-> FALSE, multi |-> TRUE,
         relayAuth |-> "payload", rvAuth |-> FALSE, escrEnv |-> TRUE,
         rvAuthEnv |-> TRUE, e2ee |-> TRUE, c2dEnv |-> TRUE, d2cEnv |-> "both"]

(* Usable command lines in both modes, and some that are refused. *)
MCOptions == {[Sane EXCEPT !.relayAuth = "escr"],
              [Sane EXCEPT !.multi = FALSE, !.rvAuth = TRUE],
              [Sane EXCEPT !.multi = FALSE, !.e2ee = FALSE, !.relayAuth = "unset"],
              [Sane EXCEPT !.relayAuth = "escr", !.rvAuth = TRUE],
              [Sane EXCEPT !.d2cEnv = "one"],
              [Sane EXCEPT !.bindLocal = TRUE]}
MCSession == 1 .. 2
MCFd == 1 .. 3
=============================================================================
