----------------------------- MODULE MCEspRelay -----------------------------
(* EspRelay with one slot, small chunks and short timers. *)
EXTENDS EspRelay
=============================================================================
