----------------------------- MODULE MCEspPolicy -----------------------------
(* EspPolicy with a client the policy never grants access, and one it does. *)
EXTENDS EspPolicy

Notes2 == {[who |-> "@a", kind |-> "npt"], [who |-> "@b", kind |-> "ping"]}
=============================================================================
