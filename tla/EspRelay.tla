------------------------------ MODULE EspRelay ------------------------------
(***************************************************************************)
(* One relay task of the ESP32 daemon, noports_relay.cpp in multi mode (the *)
(* only mode the daemon asks for): a control connection to the relay (srvd) *)
(* over which the client asks for sub-connections, and for each of them a   *)
(* socket to srvd and one to the local service.  The task moves the bytes   *)
(* of all of them in one loop, with writes that never block, so that what a *)
(* socket does not take waits in the sub's pending buffers.                 *)
(*                                                                         *)
(* Bytes are numbered, and a flow is read and written in chunks.  A write   *)
(* fails on a connection that its peer has reset, and may fail on any other *)
(* (lwIP is out of memory, say).  How much heap is left is whatever it is   *)
(* at each look.  Timers are ages, in ticks.                                *)
(***************************************************************************)
EXTENDS Integers, Sequences, FiniteSets, SequencesExt

CONSTANTS MaxSubs,      \* n_subs: max_subs, within MAX_RELAY_SUBS
          MaxPcbs,      \* MAX_RELAY_PCBS
          Chunk,        \* RELAY_CHUNK_SIZE
          Grace,        \* SUB_EVICTION_GRACE_MS
          Stall,        \* SUB_STALL_TIMEOUT_MS
          DrainCap,     \* PEER_DRAIN_MAX_MS
          LostCap,      \* DRAIN_TIMEOUT_MS
          IdleTimeout,  \* IDLE_TIMEOUT_MS
          MaxBytes,     \* bytes clients and services send over the subs there are
          MaxControl    \* messages the client sends over the control connection,
                        \* but for those it can send without end

Sub == 1 .. MaxSubs
Side == {"open", "fin", "reset"}
Heap == {"ok", "critical"}            \* against HEAP_CRITICAL_LOW
\* A message that is only logged, and a part of one, have no effect at all and
\* are left out.
Message == {"connect", "malformed", "heartbeat"}

ASSUME RelayAssumption ==
    /\ {MaxSubs, Chunk, Stall, DrainCap, LostCap, IdleTimeout} \subseteq Nat \ {0}
    /\ {Grace, MaxBytes, MaxControl} \subseteq Nat
    /\ Grace < Stall /\ 1 + 2 * MaxSubs <= MaxPcbs

VARIABLES
    pc,       \* where the task is
    state,    \* relay->state, which the daemon reads
    run,      \* relay->should_run, which the daemon clears
    ctrl,     \* the control connection: none, open, or gone (its peer closed)
    inbox,    \* control messages that have arrived
    budget,   \* control messages the client may still send
    at,       \* the sub the loop is at
    subs,     \* the sub-connections
    count,    \* relay->active_sessions
    lost,     \* how long ago the control connection was found gone, or -1
    idle      \* how long ago anything moved (idle_since)

vars == <<pc, state, run, ctrl, inbox, budget, at, subs, count, lost, idle>>

Up == [sent |-> 0, read |-> 0, pend |-> <<>>, got |-> <<>>, gap |-> FALSE]
Free == [active |-> FALSE, draining |-> FALSE, rvd |-> "reset", local |-> "reset",
         up |-> Up, down |-> Up, idle |-> 0, drain |-> 0]

Older(n, cap) == IF n < cap THEN n + 1 ELSE n
Active(s) == {i \in Sub : s[i].active}
Bytes(a, b) == [k \in 1 .. b - a |-> a + k]

(* How many bytes the sender has sent and the task has read, which of them     *)
(* wait in the pending buffer and which the other side has got, and whether   *)
(* some were dropped on a connection that was not reset.                     *)
Flow == [sent : Nat, read : Nat, pend : Seq(Nat), got : Seq(Nat), gap : BOOLEAN]
SubState == [active : BOOLEAN, draining : BOOLEAN, rvd : Side, local : Side,
             up : Flow, down : Flow, idle : Nat, drain : Nat]

TypeOK ==
    /\ pc \in {"entry", "connect", "auth", "ctrl", "subs", "after", "cleanup", "ended"}
    /\ state \in {"idle", "connecting", "authenticating", "running", "stopped", "error"}
    /\ run \in BOOLEAN /\ ctrl \in {"none", "open", "gone"}
    /\ inbox \in Seq(Message) /\ budget \in 0 .. MaxControl
    /\ at \in Sub /\ count \in 0 .. MaxSubs
    /\ lost \in -1 .. LostCap + 1 /\ idle \in 0 .. IdleTimeout + 1
    /\ subs \in [Sub -> SubState]

Init ==
    /\ pc = "entry" /\ state = "idle" /\ run = TRUE
    /\ ctrl = "none" /\ inbox = <<>> /\ budget = MaxControl
    /\ at = 1 /\ subs = [i \in Sub |-> Free] /\ count = 0
    /\ lost = -1 /\ idle = 0

-----------------------------------------------------------------------------
(* Starting: buffers and enough heap, the control connection, authentication *)

(* Without its buffers, its subs, or 30000 bytes of heap the task ends at     *)
(* once, and past its clean-up: the configuration it took over stays as it   *)
(* is, and so does its handle.                                               *)
Enter(enough) ==
    /\ pc = "entry"
    /\ IF enough THEN pc' = "connect" /\ state' = "connecting"
       ELSE pc' = "ended" /\ state' = "error"
    /\ UNCHANGED <<run, ctrl, inbox, budget, at, subs, count, lost, idle>>

ConnectControl(ok) ==
    /\ pc = "connect"
    /\ IF ok THEN pc' = "auth" /\ state' = "authenticating" /\ ctrl' = "open"
       ELSE pc' = "cleanup" /\ state' = "error" /\ UNCHANGED ctrl
    /\ UNCHANGED <<run, inbox, budget, at, subs, count, lost, idle>>

(* The answer to srvd's challenge: built, signed with the APKAM key and       *)
(* encrypted with the session's relayAuthAesKey, unless memory runs out, the *)
(* key does not decode to 32 bytes, or signing fails.                        *)
EscrAnswer(memory, keyLength, signs) == memory /\ signs /\ keyLength = 32

(* _escr_authenticate: a challenge of at least one character, the answer,     *)
(* and "ok" in return, each within five seconds.                             *)
EscrAuthenticate(challenge, answer, reply) == challenge > 0 /\ answer /\ reply = "ok"

(* Authentication with ESCR, or with the signed nonces, which srvd does not   *)
(* answer.  Then the decrypter is taken over and the loop begins.            *)
Authenticate(escr) ==
    /\ pc = "auth"
    /\ \E challenge \in 0 .. 1, memory, signs \in BOOLEAN, length \in {31, 32}, reply \in {"ok", "no"} :
         IF escr => EscrAuthenticate(challenge, EscrAnswer(memory, length, signs), reply)
         THEN pc' = "ctrl" /\ state' = "running" /\ idle' = 0
         ELSE pc' = "cleanup" /\ state' = "error" /\ UNCHANGED idle
    /\ UNCHANGED <<run, ctrl, inbox, budget, at, subs, count, lost>>

-----------------------------------------------------------------------------
(* Sub-connections                                                         *)

(* _close_relay_sub *)
CloseRelaySub(sub) == Free

RvdAvailable(s) == s.up.sent > s.up.read
LocalAvailable(s) == s.down.sent > s.down.read
RvdClosed(s) == ~RvdAvailable(s) /\ s.rvd # "open"        \* _peer_closed, once drained
LocalClosed(s) == ~LocalAvailable(s) /\ s.local # "open"

CloseAll(s, which) == [i \in Sub |-> IF i \in which THEN CloseRelaySub(s[i]) ELSE s[i]]

(* _reclaim_dead_subs *)
ReclaimDeadSubs(s) ==
    CloseAll(s, {i \in Active(s) : ~s[i].draining /\ RvdClosed(s[i]) /\ LocalClosed(s[i])})

(* The longest idle of some subs, the first of them if there are several. *)
LongestIdle(s, which) ==
    CHOOSE i \in which : \A j \in which : s[i].idle > s[j].idle \/ (s[i].idle = s[j].idle /\ i <= j)

(* _find_evictable_sub, _find_oldest_active_sub: at most one of them *)
FindEvictableSub(s) ==
    LET idlers == {i \in Active(s) : /\ s[i].idle > Grace
                                     /\ ~RvdAvailable(s[i]) /\ ~LocalAvailable(s[i])}
    IN  IF idlers = {} THEN {} ELSE {LongestIdle(s, idlers)}
FindOldestActiveSub(s) == IF Active(s) = {} THEN {} ELSE {LongestIdle(s, Active(s))}

(* _handle_connect_msg up to the slot: the subs it leaves, and the slot, or 0  *)
(* when the request is ignored.                                             *)
MakeRoom(s0, heap) ==
    LET s1   == ReclaimDeadSubs(s0)
        over == 1 + 2 * Cardinality(Active(s1)) + 2 > MaxPcbs
        s2   == IF over THEN CloseAll(s1, FindEvictableSub(s1)) ELSE s1
        free == Sub \ Active(s2)
        out  == FindEvictableSub(s2)
    IN  IF over /\ FindEvictableSub(s1) = {} THEN [subs |-> s1, slot |-> 0]
        ELSE IF heap = "critical" /\ Active(s2) # {} THEN [subs |-> s2, slot |-> 0]
        ELSE IF free # {} THEN [subs |-> s2, slot |-> CHOOSE i \in free : \A j \in free : i <= j]
        ELSE IF out # {} THEN [subs |-> CloseAll(s2, out), slot |-> CHOOSE i \in out : TRUE]
        ELSE [subs |-> s2, slot |-> 0]

(* _handle_connect_msg: the keys parse, srvd is reached and accepts, and the   *)
(* local service is reached; anything else leaves the slot free.             *)
HandleConnectMsg(m, heap, opens) ==
    LET room == MakeRoom(subs, heap)
        ok   == room.slot # 0 /\ m # "malformed" /\ opens
        \* the slot's flows are what its last user left, but for its counters
        sub  == [room.subs[room.slot] EXCEPT !.active = TRUE, !.rvd = "open", !.local = "open", !.idle = 0]
    IN  IF ok THEN /\ subs' = [room.subs EXCEPT ![room.slot] = sub]
                   /\ count' = Cardinality(Active(subs'))
        ELSE subs' = room.subs /\ UNCHANGED count

-----------------------------------------------------------------------------
(* Moving bytes                                                            *)

(* Mutant: new bytes are read and written while others are still pending. *)
StepsOverPending(f, peer) ==
    LET n == IF f.sent - f.read < Chunk THEN f.sent - f.read ELSE Chunk
    IN  IF n = 0 THEN {[f |-> f, moved |-> FALSE, error |-> FALSE]}
        ELSE {[f |-> [f EXCEPT !.read = @ + n, !.got = @ \o Bytes(f.read, f.read + w),
                               !.pend = Bytes(f.read + w, f.read + n)],
               moved |-> TRUE, error |-> FALSE] : w \in 0 .. n}

(* One direction of one pass: what is pending goes first, as far as the       *)
(* socket takes it; only when nothing is left are new bytes read and written, *)
(* and what has been read is dropped when the write fails.  Every outcome, by *)
(* how much the socket takes.                                                *)
Steps(f, peer) ==
    LET flushes == IF f.pend = <<>> THEN {[f |-> f, moved |-> FALSE, error |-> FALSE]}
                   ELSE {[f |-> f, moved |-> FALSE, error |-> TRUE]} \cup
                        IF peer = "reset" THEN {}
                        ELSE {[f |-> [f EXCEPT !.got = @ \o SubSeq(f.pend, 1, w),
                                               !.pend = SubSeq(f.pend, w + 1, Len(f.pend))],
                               moved |-> w > 0, error |-> FALSE] : w \in 0 .. Len(f.pend)}
        n       == IF f.sent - f.read < Chunk THEN f.sent - f.read ELSE Chunk
        Reads(o) == IF o.f.pend # <<>> \/ n = 0 THEN {o}
                    ELSE {[o EXCEPT !.f.read = @ + n, !.f.gap = @ \/ peer # "reset", !.error = TRUE]} \cup
                         IF peer = "reset" THEN {}
                         ELSE {[f |-> [o.f EXCEPT !.read = @ + n, !.got = @ \o Bytes(f.read, f.read + w),
                                                  !.pend = Bytes(f.read + w, f.read + n)],
                                moved |-> TRUE, error |-> FALSE] : w \in 0 .. n}
    IN  UNION {Reads(o) : o \in flushes}

(* A pass over a sub that is draining since a write failed, when it has time   *)
(* left: it is closed on a further error, or when the local service has        *)
(* closed and nothing moves.                                                  *)
Drained(s, u, d) ==
    LET moved == u.moved \/ d.moved
        done  == u.error \/ d.error \/ (~moved /\ ~LocalAvailable(s) /\ s.local # "open")
    IN  IF done THEN CloseRelaySub(s) ELSE [s EXCEPT !.up = u.f, !.down = d.f]
DrainPass(s) ==
    IF s.drain >= DrainCap THEN {[sub |-> CloseRelaySub(s), moved |-> FALSE]}
    ELSE {[sub |-> Drained(s, u, d), moved |-> FALSE] :
            u \in Steps(s.up, s.local), d \in Steps(s.down, s.rvd)}

(* A pass over any other: both directions; a write error begins its draining. *)
Relayed(s, u, d) ==
    [s EXCEPT !.up = u.f, !.down = d.f, !.draining = u.error \/ d.error, !.drain = 0,
              !.idle = IF u.moved \/ d.moved THEN 0 ELSE @]

(* Mutant: a sub whose peers are silent is kept. *)
KeepNoStall(s) == IF RvdClosed(s) \/ LocalClosed(s) THEN CloseRelaySub(s) ELSE s

(* ... then whether a peer has closed or the sub has stalled. *)
Keep(s) == IF RvdClosed(s) \/ LocalClosed(s) \/ s.idle > Stall THEN CloseRelaySub(s) ELSE s
RelayPass(s) ==
    {[sub |-> Keep(Relayed(s, u, d)), moved |-> u.moved \/ d.moved] :
       u \in Steps(s.up, s.local), d \in Steps(s.down, s.rvd)}

-----------------------------------------------------------------------------
(* The loop                                                                *)

(* The control connection is read until nothing is there or a connect has     *)
(* been handled, after which the subs have their turn.                       *)
ReadControl ==
    /\ pc = "ctrl" /\ inbox # <<>>
    /\ inbox' = Tail(inbox) /\ idle' = 0
    /\ IF Head(inbox) \in {"connect", "malformed"}
       THEN /\ \E heap \in Heap, opens \in BOOLEAN : HandleConnectMsg(Head(inbox), heap, opens)
            /\ pc' = "subs"
       ELSE UNCHANGED <<subs, count, pc>>
    /\ UNCHANGED <<state, run, ctrl, budget, at, lost>>

(* Mutant: a sub that is draining does not count. *)
UpdateActiveSessionCountLive(s) == Cardinality({i \in Active(s) : ~s[i].draining})

(* _update_active_session_count *)
UpdateActiveSessionCount(s) == Cardinality(Active(s))

ServeSub ==
    /\ pc = "subs" \/ (pc = "ctrl" /\ inbox = <<>>)
    /\ \E o \in IF ~subs[at].active THEN {[sub |-> subs[at], moved |-> FALSE]}
                ELSE IF subs[at].draining THEN DrainPass(subs[at]) ELSE RelayPass(subs[at]) :
         /\ subs' = [subs EXCEPT ![at] = o.sub]
         /\ idle' = IF o.moved THEN 0 ELSE idle
         /\ IF at < MaxSubs THEN at' = at + 1 /\ pc' = "subs" /\ UNCHANGED count
            ELSE at' = 1 /\ pc' = "after" /\ count' = UpdateActiveSessionCount(subs')
    /\ UNCHANGED <<state, run, ctrl, inbox, budget, lost>>

(* The loop gives up: the control connection is gone and no sub is left, or    *)
(* they have had their time; or there is no sub and nothing has happened.    *)
GivesUp(l) ==
    \/ l # -1 /\ (count = 0 \/ l > LostCap)
    \/ count = 0 /\ idle > IdleTimeout

(* Mutant: only its own breaks end the loop. *)
LoopTestIgnored == "ctrl"

(* while (relay->should_run) *)
LoopTest == IF run THEN "ctrl" ELSE "cleanup"

Aged(sub) == IF sub.active
             THEN [sub EXCEPT !.idle = Older(@, Stall + 1),
                              !.drain = IF sub.draining THEN Older(@, DrainCap) ELSE @]
             ELSE sub

(* After the subs: the control connection, the timeouts, the heap, for which  *)
(* the oldest sub goes when it is critical, and the yield at the end of a     *)
(* pass, in which time may pass.  Then the loop's test.                      *)
AfterSubs(time) ==
    /\ pc = "after"
    /\ LET l == IF lost = -1 /\ inbox = <<>> /\ ctrl = "gone" THEN 0 ELSE lost
       IN  IF GivesUp(l) THEN pc' = "cleanup" /\ lost' = l /\ UNCHANGED <<subs, idle>>
           ELSE /\ pc' = LoopTest
                /\ lost' = IF time /\ l # -1 THEN Older(l, LostCap + 1) ELSE l
                /\ idle' = IF time THEN Older(idle, IdleTimeout + 1) ELSE idle
                /\ \E heap \in Heap :
                     LET s == IF heap = "critical" THEN CloseAll(subs, FindOldestActiveSub(subs)) ELSE subs
                     IN  subs' = IF time THEN [i \in Sub |-> Aged(s[i])] ELSE s
    /\ UNCHANGED <<state, run, ctrl, inbox, budget, at, count>>

(* cleanup: every socket is closed, every copy of a key wiped and freed. *)
CleanUp ==
    /\ pc = "cleanup"
    /\ pc' = "ended" /\ state' = "stopped"
    /\ subs' = [i \in Sub |-> Free] /\ count' = 0 /\ ctrl' = "none"
    /\ UNCHANGED <<run, inbox, budget, at, lost, idle>>

-----------------------------------------------------------------------------
(* The daemon, the client and the local service.  What the peers do between   *)
(* two passes of the loop is put at the start of one.                         *)

(* noports_relay_stop *)
RelayStop ==
    /\ run /\ pc \in {"entry", "connect", "auth", "ctrl"}
    /\ run' = FALSE
    /\ UNCHANGED <<pc, state, ctrl, inbox, budget, at, subs, count, lost, idle>>

ClientAsks(m) ==
    /\ ctrl = "open" /\ pc \in {"ctrl", "after"}
    /\ \/ m = "heartbeat" /\ inbox = <<>> /\ UNCHANGED budget
       \/ budget > 0 /\ pc = "ctrl" /\ budget' = budget - 1
    /\ inbox' = Append(inbox, m)
    /\ UNCHANGED <<pc, state, run, ctrl, at, subs, count, lost, idle>>

ControlCloses ==
    /\ ctrl = "open" /\ pc \in {"auth", "ctrl"}
    /\ ctrl' = "gone"
    /\ UNCHANGED <<pc, state, run, inbox, budget, at, subs, count, lost, idle>>

Peer(i, sub) ==
    /\ subs[i].active /\ pc = "ctrl"
    /\ subs' = [subs EXCEPT ![i] = sub]
    /\ UNCHANGED <<pc, state, run, ctrl, inbox, budget, at, count, lost, idle>>

Sent == MapThenSumSet(LAMBDA i : subs[i].up.sent + subs[i].down.sent, Sub)

ClientSends(i) ==
    subs[i].rvd = "open" /\ Sent < MaxBytes /\ Peer(i, [subs[i] EXCEPT !.up.sent = @ + 1])
LocalSends(i) ==
    subs[i].local = "open" /\ Sent < MaxBytes /\ Peer(i, [subs[i] EXCEPT !.down.sent = @ + 1])
RvdCloses(i, how) == subs[i].rvd = "open" /\ Peer(i, [subs[i] EXCEPT !.rvd = how])
LocalCloses(i, how) == subs[i].local = "open" /\ Peer(i, [subs[i] EXCEPT !.local = how])

Task ==
    \/ \E ok \in BOOLEAN : Enter(ok) \/ ConnectControl(ok)
    \/ \E escr \in BOOLEAN : Authenticate(escr)
    \/ ReadControl
    \/ ServeSub
    \/ \E time \in BOOLEAN : AfterSubs(time)
    \/ CleanUp

Next ==
    \/ Task
    \/ RelayStop
    \/ \E m \in Message : ClientAsks(m)
    \/ ControlCloses
    \/ \E i \in Sub : ClientSends(i) \/ LocalSends(i)
    \/ \E i \in Sub, how \in {"fin", "reset"} : RvdCloses(i, how) \/ LocalCloses(i, how)

Spec == Init /\ [][Next]_vars

(* The task is scheduled, its yields take time, and it reads the control        *)
(* connection faster than the client writes to it: only when nothing is there *)
(* do the subs have their turn, and does the loop's test.                    *)
Fairness ==
    /\ WF_vars(Task)
    /\ SF_vars(AfterSubs(TRUE))
    /\ SF_vars(pc = "ctrl" /\ ServeSub)
FairSpec == Spec /\ Fairness

-----------------------------------------------------------------------------
(* Properties                                                              *)

(* What the local service and the client get over a sub is what the other     *)
(* sent, from the first byte on, in order and without a gap, however little   *)
(* the sockets take at a time and whoever had the slot before; and all that   *)
(* has been read is either there or pending.  AES-CTR streams, and whatever   *)
(* is tunnelled, depend on it.  Bytes are dropped only where a write failed:  *)
(* then the sub is draining, about to be closed.                             *)
Intact(f, peer) ==
    ~f.gap => /\ f.got = Bytes(0, Len(f.got))
              /\ peer # "reset" => f.got \o f.pend = Bytes(0, f.read)
StreamIsIntact ==
    \A i \in Active(subs) :
        /\ Intact(subs[i].up, subs[i].local) /\ Intact(subs[i].down, subs[i].rvd)
        /\ subs[i].up.gap \/ subs[i].down.gap => subs[i].draining

(* The loop does not end under live sub-connections, be they draining or       *)
(* silent: only when the daemon says so, or when the control connection has   *)
(* been gone for its cap.  It goes by a count that a request sets, that      *)
(* reclaimed, evicted and finished subs leave stale, and that the end of the  *)
(* pass sets right.                                                          *)
NoSubIsAbandoned ==
    [][pc = "after" /\ pc' = "cleanup" /\ run => Active(subs) = {} \/ lost' > LostCap]_vars

(* A relay told to stop, or whose client has gone, ends, whatever its subs do. *)
RelayEnds == (~run \/ ctrl = "gone") ~> pc = "ended"

(* A sub-connection whose client and service have nothing more to say, or of   *)
(* whom one has vanished without a word, does not hold its two sockets for    *)
(* ever.                                                                     *)
SubsEnd == \A i \in Sub : subs[i].active ~> ~subs[i].active
=============================================================================
