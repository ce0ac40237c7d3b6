------------------------------ MODULE Tunnels ------------------------------
(***************************************************************************)
(* What srv promises about its tunnels, whatever threads and descriptors   *)
(* it is built from.  A tunnel joins an end "a" (the local service) to an   *)
(* end "b" (the relay).  It is opened once, carries what it reads at one    *)
(* end to the other end of the same tunnel in order and without gaps, and   *)
(* after it is closed nothing more comes out of either end.                 *)
(***************************************************************************)
EXTENDS Naturals, Sequences

CONSTANTS Tunnel,       \* the tunnels
          MaxChunks     \* chunks that may be sent into one end

VARIABLES phase,        \* phase[t]: "unborn", "open" or "closed"
          delivered     \* delivered[t][x]: what came out of end x so far

vars == <<phase, delivered>>

Ends == {"a", "b"}
Opposite(x) == IF x = "a" THEN "b" ELSE "a"

Init == /\ phase = [t \in Tunnel |-> "unborn"]
        /\ delivered = [t \in Tunnel |-> [x \in Ends |-> <<>>]]

Open(t) == /\ phase[t] = "unborn"
           /\ phase' = [phase EXCEPT ![t] = "open"]
           /\ UNCHANGED delivered

(* The next chunk of the opposite end comes out of end x of tunnel t. *)
Deliver(t, x) ==
    LET n == Len(delivered[t][x]) + 1
    IN  /\ phase[t] = "open"
        /\ n <= MaxChunks
        /\ delivered' = [delivered EXCEPT ![t][x] = Append(@, <<t, Opposite(x), n>>)]
        /\ UNCHANGED phase

Close(t) == /\ phase[t] # "closed"
            /\ phase' = [phase EXCEPT ![t] = "closed"]
            /\ UNCHANGED delivered

(* The end of the process closes every tunnel that is left. *)
CloseAll == /\ phase' = [t \in Tunnel |-> "closed"]
            /\ UNCHANGED delivered

Next == \/ \E t \in Tunnel : \/ Open(t)
                             \/ Close(t)
                             \/ \E x \in Ends : Deliver(t, x)
        \/ CloseAll

Spec == Init /\ [][Next]_vars
=============================================================================
