----------------------------- MODULE CSrvParams -----------------------------
(***************************************************************************)
(* How the C srv is started (packages/c/srv/src/params.c): its command line *)
(* and the secrets in its environment.  sshnpd builds both (CRequests) and  *)
(* srv parses them (CSrv), so they are one contract between two programs.   *)
(***************************************************************************)

(* A command line: which options are given and which variables are set. *)
AnyOptions == [ports : BOOLEAN, host : BOOLEAN, bindLocal : BOOLEAN, multi : BOOLEAN,
               relayAuth : {"unset", "payload", "escr", "other"}, rvAuth : BOOLEAN,
               escrEnv : BOOLEAN, rvAuthEnv : BOOLEAN,
               e2ee : BOOLEAN, c2dEnv : BOOLEAN, d2cEnv : {"none", "one", "both"}]

(* parse_srv_params: what makes it return 0. *)
ParseSrvParams(o) ==
    /\ o.ports /\ o.host
    /\ o.relayAuth # "other"
    /\ o.relayAuth = "escr" => ~o.rvAuth /\ o.escrEnv
    /\ o.rvAuth => o.rvAuthEnv
    /\ o.e2ee => o.c2dEnv /\ o.d2cEnv # "one"

AuthMode(o) == IF o.relayAuth = "escr" THEN "escr"
               ELSE IF o.rvAuth THEN "string" ELSE "none"

=============================================================================
