-------------------------------- MODULE CSrv --------------------------------
(***************************************************************************)
(* The C srv (packages/c/srv): the process sshnpd starts to carry the       *)
(* connections of one client between the relay and a local service.  In     *)
(* single mode it carries one tunnel; in multi mode it keeps a control      *)
(* connection to the relay and starts a detached thread for every "connect" *)
(* line that arrives on it, up to SRV_MAX_SESSIONS at a time.                *)
(*                                                                         *)
(* A tunnel is run by three threads: socket_to_socket connects both sides,  *)
(* authenticates to the relay, starts one srv_side_handle thread per side   *)
(* and waits on a pipe for the first of them to end.  Descriptor numbers    *)
(* are part of the state because the kernel reuses them: a thread that uses *)
(* a number after its socket was closed talks to somebody else's tunnel.    *)
(***************************************************************************)
EXTENDS CSrvParams, Naturals, Sequences, FiniteSets, SequencesExt

CONSTANTS Session,      \* the tunnels of one srv, 1..n in the order they start
          MaxSessions,  \* SRV_MAX_SESSIONS
          Timeout,      \* --timeout, in ticks
          Fd,           \* descriptor numbers the process may have open
          MaxChunks,    \* chunks each peer may send (bound)
          MaxLines,     \* lines the relay sends on the control channel (bound)
          LineCap,      \* SRV_CONTROL_LINE_CAP, in pieces of a line
          RecvMax,      \* pieces one recv on the control channel returns at most
          Options       \* command lines and environments to start srv with

ASSUME SessionAssumption ==
    IsFiniteSet(Session) /\ Session # {} /\ Session = 1 .. Cardinality(Session)
ASSUME FdAssumption == Fd \subseteq Nat \ {0}     \* 0 stands for not open
ASSUME OptionsAssumption == Options \subseteq AnyOptions
ASSUME BoundAssumption ==
    /\ {MaxSessions, Timeout, RecvMax} \subseteq Nat \ {0}
    /\ {MaxChunks, MaxLines} \subseteq Nat
    /\ MaxLines <= Cardinality(Session)
    (* A connect line is far shorter than what the accumulator holds beside *)
    (* a full recv: 2 pieces, one of them buffered.                          *)
    /\ LineCap \in Nat /\ LineCap >= RecvMax + 1

VARIABLES
    cfg,        \* what parse_srv_params left in params
    mpc,        \* where the main (in multi mode: control) thread is
    exit,       \* why the process ended: "" while it runs
    reported,   \* report_started: the ready line went to sshnpd
    ctl,        \* control channel: lines sent, connects among them, bytes in
                \* flight and line_buf
    batch,      \* requests of the last recv that are still to be processed
    handled,    \* "connect" requests taken from the channel so far
    active,     \* active_sessions
    idle,       \* ticks since idle_since, up to Timeout; 0 while a tunnel is
                \* active, when idle_since is not looked at
    sess,       \* sess[s]: the socket_to_socket thread of tunnel s
    thr,        \* thr[s][x]: the srv_side_handle thread of side x of tunnel s
    pipe,       \* pipe[s]: thread ids written to main_pipe, in order
    owner,      \* owner[f]: the connection that descriptor f is open on
    out         \* out[s][x]: what was sent to the peer at side x of tunnel s

control == <<ctl, batch, handled>>
clock == <<active, idle>>
vars == <<cfg, mpc, exit, reported, ctl, batch, handled, active, idle, sess,
          thr, pipe, owner, out>>

Side == {"a", "b"}
Other(x) == IF x = "a" THEN "b" ELSE "a"
Conn == Session \X Side
Free == <<0, "">>

-----------------------------------------------------------------------------
(* Control lines.  A line is a sequence of pieces; only its last piece      *)
(* carries the newline.                                                     *)

Kind == {"connect", "junk", "long"}
Pieces(k) == CASE k = "junk" -> 1 [] k = "long" -> LineCap + 2 [] OTHER -> 2
Line(k) == [i \in 1 .. Pieces(k) |-> [kind |-> k, at |-> i]]
IsEnd(p) == p.at = Pieces(p.kind)

(* The pieces up to the last newline, or none. *)
CompleteLen(buf) ==
    LET ends == {i \in DOMAIN buf : IsEnd(buf[i])}
    IN  IF ends = {} THEN 0 ELSE Max(ends)

(* The listing of a finite set of numbers in increasing order. *)
InOrder(S) ==
    {at \in Bijection(1 .. Cardinality(S), S) :
        \A i, j \in 1 .. Cardinality(S) : i < j => at[i] < at[j]}

(* Mutant: only the first line of what a recv completed is taken. *)
FirstRequest(work) ==
    {[j \in {1} |-> work[at[1]].kind] : at \in InOrder({i \in DOMAIN work : IsEnd(work[i])})}

(* process_multiple_requests and parse_control_message: the text between    *)
(* two newlines, which are at at, is a connect request only if it is all of  *)
(* one.                                                                      *)
Requests(work) ==
    LET From(at, j) == IF j = 1 THEN 1 ELSE at[j - 1] + 1
        Whole(at, j) == at[j] - From(at, j) + 1 = Pieces(work[at[j]].kind)
    IN  {[j \in DOMAIN at |-> IF Whole(at, j) THEN work[at[j]].kind ELSE "junk"] :
            at \in InOrder({i \in DOMAIN work : IsEnd(work[i])})}

-----------------------------------------------------------------------------
NoSession == [pc |-> "none", fd |-> [x \in Side |-> 0], first |-> ""]
NoControl == [sent |-> 0, connects |-> 0, wire |-> <<>>, buf |-> <<>>]
Piece == [kind : Kind, at : Nat \ {0}]
NoThread == [pc |-> "none", cancel |-> FALSE, read |-> 0, buf |-> <<>>]

SessPC == {"none", "connA", "connB", "auth", "reply", "spawn", "wait", "joinOther",
           "joinBoth", "close", "over", "ended"}
ThreadPC == {"none", "recv", "send", "notify", "done"}
Chunk == Session \X Side \X (1 .. MaxChunks)   \* where it was read, and its number

SessionState == [pc : SessPC, fd : [Side -> Fd \cup {0}], first : Side \cup {""}]
ThreadState == [pc : ThreadPC, cancel : BOOLEAN, read : 0 .. MaxChunks,
                buf : Chunk \cup {<<>>}]
ControlState == [sent : Nat, connects : Nat, wire : Seq(Piece), buf : Seq(Piece)]

Typed ==
    /\ cfg \in [auth : {"none", "string", "escr"}, e2ee : BOOLEAN, multi : BOOLEAN]
    /\ mpc \in {"main", "control", "auth", "reply", "loop", "single", "exited"}
    /\ exit \in {"", "usage", "failed", "control", "timeout", "done"}
    /\ reported \in BOOLEAN
    /\ ctl \in ControlState
    /\ handled \in Nat
    /\ active \in 0 .. MaxSessions
    /\ idle \in 0 .. Timeout
    /\ sess \in [Session -> SessionState]
    /\ thr \in [Session -> [Side -> ThreadState]]
    /\ pipe \in [Session -> Seq(Side)]
    /\ owner \in [Fd -> Conn \cup {Free}]
    /\ out \in [Session -> [Side -> Seq(Chunk)]]
TypeOK == Typed /\ batch \in Seq(Kind)

Init ==
    /\ cfg = [auth |-> "none", e2ee |-> FALSE, multi |-> FALSE]
    /\ mpc = "main"
    /\ exit = ""
    /\ reported = FALSE
    /\ ctl = NoControl
    /\ batch = <<>>
    /\ handled = 0
    /\ active = 0
    /\ idle = 0
    /\ sess = [s \in Session |-> NoSession]
    /\ thr = [s \in Session |-> [x \in Side |-> NoThread]]
    /\ pipe = [s \in Session |-> <<>>]
    /\ owner = [f \in Fd |-> Free]
    /\ out = [s \in Session |-> [x \in Side |-> <<>>]]

Running == mpc # "exited"

(* The process ends, and every thread and descriptor with it. *)
Exit(why) == /\ mpc' = "exited"
             /\ exit' = why
             /\ owner' = [f \in Fd |-> Free]
             /\ thr' = [s \in Session |-> [x \in Side |-> NoThread]]
             /\ pipe' = [s \in Session |-> <<>>]
             /\ ctl' = NoControl /\ batch' = <<>> /\ handled' = 0
NoExit == UNCHANGED <<exit, owner, thr, pipe, control>>

-----------------------------------------------------------------------------
(* The main thread                                                         *)

(* main, run_srv and the setup of the encrypter and decrypter: binding a     *)
(* local port is disabled, and unusable keys end srv before it connects.     *)
Main(o) ==
    /\ mpc = "main"
    /\ \/ /\ ~ParseSrvParams(o) \/ o.bindLocal
          /\ Exit("usage")
          /\ UNCHANGED <<cfg, sess>>
       \/ /\ ParseSrvParams(o) /\ ~o.bindLocal /\ o.e2ee
          /\ Exit("failed")
          /\ UNCHANGED <<cfg, sess>>
       \/ /\ ParseSrvParams(o) /\ ~o.bindLocal
          /\ cfg' = [auth |-> AuthMode(o), e2ee |-> o.e2ee, multi |-> o.multi]
          /\ IF o.multi
             THEN mpc' = "control" /\ UNCHANGED sess
             ELSE /\ mpc' = "single"
                  /\ sess' = [sess EXCEPT ![1].pc = "connA"]
          /\ NoExit
    /\ UNCHANGED <<reported, clock, out>>

(* report_started: the ready line is written once, whoever calls it. *)
ReportStarted == reported' = TRUE

(* run_srv_daemon_side_multi up to the receive loop: connect the control    *)
(* side and authenticate it.  escr waits for a challenge, answers it and     *)
(* waits for the verdict; an auth string is only sent.                       *)
ControlConnect ==
    /\ mpc = "control"
    /\ \/ mpc' = "auth" /\ NoExit
       \/ Exit("failed")
    /\ UNCHANGED <<cfg, reported, clock, sess, out>>

(* Where authenticating a socket to the relay leads from label l.  With escr  *)
(* srv waits for the relay's challenge and sends its signed response, then    *)
(* waits for the relay's "ok"; a timeout (10 s), a response that cannot be     *)
(* built or another verdict fails it.  An auth string is only sent.           *)
RelayAuth(l) == IF cfg.auth = "escr" /\ l = "auth" THEN {"reply", "failed"}
                ELSE IF cfg.auth = "none" THEN {"ok"} ELSE {"ok", "failed"}

(* Mutant: ready is reported as soon as the response is sent. *)
ControlAuthEager ==
    /\ mpc \in {"auth", "reply"}
    /\ \E l \in RelayAuth(mpc) :
          /\ IF l = "failed" THEN Exit("failed")
             ELSE NoExit /\ mpc' = IF l = "ok" THEN "loop" ELSE l
          /\ IF l # "failed" THEN ReportStarted ELSE UNCHANGED reported
          /\ idle' = IF l = "ok" THEN 0 ELSE idle
    /\ UNCHANGED <<cfg, active, sess, out>>

ControlAuth ==
    /\ mpc \in {"auth", "reply"}
    /\ \E l \in RelayAuth(mpc) :
          /\ IF l = "failed" THEN Exit("failed")
             ELSE NoExit /\ mpc' = IF l = "ok" THEN "loop" ELSE l
          /\ IF l = "ok" THEN ReportStarted ELSE UNCHANGED reported
          /\ idle' = IF l = "ok" THEN 0 ELSE idle
    /\ UNCHANGED <<cfg, active, sess, out>>

(* The relay writes a line to the control channel; TCP keeps no boundaries. *)
RelaySends(k) ==
    /\ mpc = "loop"
    /\ ctl.sent < MaxLines
    /\ ctl' = [ctl EXCEPT !.sent = @ + 1, !.wire = @ \o Line(k),
                          !.connects = @ + IF k = "connect" THEN 1 ELSE 0]
    /\ UNCHANGED <<cfg, mpc, exit, reported, batch, handled, clock, sess, thr, pipe, owner, out>>

(* Mutant: a line that does not fit is accumulated nevertheless. *)
ControlRecvUnchecked(n) ==
    LET all == ctl.buf \o SubSeq(ctl.wire, 1, n)
        c   == CompleteLen(all)
    IN  /\ mpc = "loop" /\ batch = <<>>
        /\ n <= Len(ctl.wire)
        /\ IF c = 0 THEN batch' = <<>> ELSE batch' \in Requests(SubSeq(all, 1, c))
        /\ ctl' = [ctl EXCEPT !.wire = SubSeq(@, n + 1, Len(@)),
                              !.buf = SubSeq(all, c + 1, Len(all))]
        /\ UNCHANGED <<cfg, mpc, exit, reported, handled, clock, sess, thr, pipe, owner, out>>

(* One turn of the receive loop that gets n pieces: buffered data that       *)
(* would overflow the accumulator is discarded, the complete lines are taken *)
(* out of it and the partial line at the end stays.                          *)
ControlRecv(n) ==
    LET kept == IF Len(ctl.buf) + n > LineCap THEN <<>> ELSE ctl.buf
        all  == kept \o SubSeq(ctl.wire, 1, n)
        c    == CompleteLen(all)
    IN  /\ mpc = "loop" /\ batch = <<>>
        /\ n <= Len(ctl.wire)
        /\ IF c = 0 THEN batch' = <<>> ELSE batch' \in Requests(SubSeq(all, 1, c))
        /\ ctl' = [ctl EXCEPT !.wire = SubSeq(@, n + 1, Len(@)),
                              !.buf = SubSeq(all, c + 1, Len(all))]
        /\ UNCHANGED <<cfg, mpc, exit, reported, handled, clock, sess, thr, pipe, owner, out>>

Expired == active = 0 /\ idle = Timeout

(* connection_timeout_expired, tested before every recv. *)
IdleTimeout ==
    /\ mpc = "loop" /\ batch = <<>>
    /\ Expired
    /\ Exit("timeout")
    /\ UNCHANGED <<cfg, reported, clock, sess, out>>

(* The control connection ends, a chunk cannot be decrypted, or memory is    *)
(* short: srv returns, whatever tunnels are running.                         *)
ControlLost ==
    /\ mpc = "loop" /\ batch = <<>>
    /\ Exit("control")
    /\ UNCHANGED <<cfg, reported, clock, sess, out>>

NextSession == Cardinality({s \in Session : sess[s].pc # "none"}) + 1

IsConnect == batch # <<>> /\ Head(batch) = "connect"

(* A request that is not a connect, does not parse or carries unusable keys  *)
(* is skipped, and so is a connect when MaxSessions tunnels are active.      *)
SkipRequest ==
    /\ mpc = "loop" /\ batch # <<>>
    /\ \/ ~IsConnect
       \/ IsConnect     \* its keys are unusable, or active >= MaxSessions
    /\ batch' = Tail(batch)
    /\ handled' = handled + IF IsConnect THEN 1 ELSE 0
    /\ UNCHANGED <<cfg, mpc, exit, reported, ctl, clock, sess, thr, pipe, owner, out>>

(* Mutant: the tunnel counts itself, once its thread runs. *)
StartSessionUncounted ==
    /\ mpc = "loop" /\ IsConnect
    /\ active < MaxSessions
    /\ batch' = Tail(batch)
    /\ handled' = handled + 1
    /\ NextSession \in Session     \* bound: MaxLines keeps to it
    /\ sess' = [sess EXCEPT ![NextSession].pc = "connA"]
    /\ UNCHANGED <<cfg, mpc, exit, reported, ctl, clock, thr, pipe, owner, out>>

(* session_started, then the detached thread of the tunnel. *)
StartSession ==
    /\ mpc = "loop" /\ IsConnect
    /\ active < MaxSessions
    /\ batch' = Tail(batch)
    /\ handled' = handled + 1
    /\ active' = active + 1
    /\ idle' = 0
    /\ NextSession \in Session     \* bound: MaxLines keeps to it
    /\ sess' = [sess EXCEPT ![NextSession].pc = "connA"]
    /\ UNCHANGED <<cfg, mpc, exit, reported, ctl, thr, pipe, owner, out>>

(* No memory for, or no thread to run, another tunnel: srv returns. *)
StartSessionFails ==
    /\ mpc = "loop" /\ IsConnect
    /\ active < MaxSessions
    /\ Exit("control")
    /\ UNCHANGED <<cfg, reported, clock, sess, out>>

(* Single mode: srv returns when its only tunnel is over. *)
SingleDone ==
    /\ mpc = "single" /\ sess[1].pc = "over"
    /\ Exit("done")
    /\ UNCHANGED <<cfg, reported, clock, sess, out>>

Tick ==
    /\ mpc = "loop" /\ active = 0 /\ idle < Timeout
    /\ idle' = idle + 1
    /\ UNCHANGED <<cfg, mpc, exit, reported, control, active, sess, thr, pipe, owner, out>>

-----------------------------------------------------------------------------
(* socket_to_socket                                                         *)

Goto(s, l) == sess' = [sess EXCEPT ![s].pc = l]
MainFrame == UNCHANGED <<cfg, mpc, exit, control, clock>>

(* Releasing both sockets of s; srv_side_free ignores one that is not open. *)
Freed(s) == [f \in Fd |-> IF \E x \in Side : sess[s].fd[x] = f THEN Free ELSE owner[f]]

(* Mutant: a tunnel that fails to connect side b leaves side a open. *)
ReturnLeaking(s) == /\ sess' = [sess EXCEPT ![s] = [NoSession EXCEPT !.pc = "over"]]
                    /\ UNCHANGED owner

Return(s) == /\ owner' = Freed(s)
             /\ sess' = [sess EXCEPT ![s] = [NoSession EXCEPT !.pc = "over"]]

(* srv_side_init of side x: connect to its host with the lowest free         *)
(* descriptor.  Whatever fails, the pipe that joins the threads included,    *)
(* what was opened before is closed again.                                   *)
ConnectSide(s, x) ==
    /\ Running
    /\ sess[s].pc = IF x = "a" THEN "connA" ELSE "connB"
    /\ LET unused == {f \in Fd : owner[f] = Free}
       IN  \/ /\ unused # {}
              /\ owner' = [owner EXCEPT ![Min(unused)] = <<s, x>>]
              /\ sess' = [sess EXCEPT ![s].fd[x] = Min(unused),
                                      ![s].pc = IF x = "a" THEN "connB" ELSE "auth"]
           \/ Return(s)
    /\ MainFrame /\ UNCHANGED <<reported, thr, pipe, out>>

(* Every socket to the relay authenticates for itself; then the thread of    *)
(* side a starts, or cannot be started.                                       *)
AuthSession(s) ==
    /\ Running /\ sess[s].pc \in {"auth", "reply"}
    /\ \E l \in RelayAuth(sess[s].pc) \cup {"failed"} :
          /\ Goto(s, CASE l = "ok" -> "spawn" [] l = "failed" -> "close" [] OTHER -> l)
          /\ IF l = "ok" THEN thr' = [thr EXCEPT ![s]["a"].pc = "recv"] ELSE UNCHANGED thr
    /\ MainFrame /\ UNCHANGED <<reported, pipe, owner, out>>

(* Mutant: the thread that is left is not cancelled. *)
CancelNobody(s, xs) == UNCHANGED thr

(* pthread_cancel of the side threads xs. *)
Cancel(s, xs) ==
    thr' = [thr EXCEPT ![s] = [x \in Side |-> IF x \in xs THEN [@[x] EXCEPT !.cancel = TRUE]
                                                         ELSE @[x]]]

(* Start the thread of side b; without it the first is cancelled and reaped. *)
(* In single mode srv now reports that it is ready.                          *)
Spawn(s) ==
    /\ Running /\ sess[s].pc = "spawn"
    /\ \/ /\ thr' = [thr EXCEPT ![s]["b"].pc = "recv"]
          /\ Goto(s, "wait")
          /\ IF cfg.multi THEN UNCHANGED reported ELSE ReportStarted
       \/ /\ Cancel(s, {"a"})
          /\ sess' = [sess EXCEPT ![s].pc = "joinOther", ![s].first = "b"]
          /\ UNCHANGED reported
    /\ MainFrame /\ UNCHANGED <<pipe, owner, out>>

Gone(s, x) == thr[s][x].pc \in {"none", "done"}

(* read(fds[0]) gives the id of the first side thread that ended; it is      *)
(* joined and the other one cancelled.                                       *)
AwaitFirst(s) ==
    /\ Running /\ sess[s].pc = "wait"
    /\ pipe[s] # <<>>
    /\ LET x == Head(pipe[s])
       IN  /\ Gone(s, x)
           /\ Cancel(s, {Other(x)})
           /\ sess' = [sess EXCEPT ![s].pc = "joinOther", ![s].first = x]
    /\ pipe' = [pipe EXCEPT ![s] = Tail(@)]
    /\ MainFrame /\ UNCHANGED <<reported, owner, out>>

(* The read fails: which side ended is unknown, both are cancelled. *)
AwaitFirstFails(s) ==
    /\ Running /\ sess[s].pc = "wait"
    /\ Cancel(s, Side)
    /\ Goto(s, "joinBoth")
    /\ MainFrame /\ UNCHANGED <<reported, pipe, owner, out>>

Join(s) ==
    /\ Running
    /\ \/ sess[s].pc = "joinOther" /\ Gone(s, Other(sess[s].first))
       \/ sess[s].pc = "joinBoth" /\ \A x \in Side : Gone(s, x)
    /\ Goto(s, "close")
    /\ MainFrame /\ UNCHANGED <<reported, thr, pipe, owner, out>>

(* Both threads are reaped: pipe and sockets are closed here and only here. *)
CloseBoth(s) ==
    /\ Running /\ sess[s].pc = "close"
    /\ Return(s)
    /\ thr' = [thr EXCEPT ![s] = [x \in Side |-> NoThread]]
    /\ pipe' = [pipe EXCEPT ![s] = <<>>]
    /\ MainFrame /\ UNCHANGED <<reported, out>>

(* The end of run_socket_to_socket: session_ended. *)
SessionEnded(s) ==
    /\ Running /\ cfg.multi /\ sess[s].pc = "over"
    /\ active' = active - 1
    /\ idle' = IF active = 1 THEN 0 ELSE idle
    /\ Goto(s, "ended")
    /\ UNCHANGED <<cfg, mpc, exit, control, reported, thr, pipe, owner, out>>

-----------------------------------------------------------------------------
(* srv_side_handle.  Every blocking call is a cancellation point.           *)

SessFrame == MainFrame /\ UNCHANGED <<reported, sess>>
Alive(s, x) == Running /\ thr[s][x].pc \in {"recv", "send", "notify"}

(* recv returns a chunk the peer at the other end of the descriptor sent.   *)
SideRecv(s, x) ==
    /\ Running /\ thr[s][x].pc = "recv" /\ thr[s][x].read < MaxChunks
    /\ LET c == owner[sess[s].fd[x]]
       IN  /\ c # Free
           /\ thr' = [thr EXCEPT ![s][x].pc = "send", ![s][x].read = @ + 1,
                                 ![s][x].buf = <<c[1], c[2], thr[s][x].read + 1>>]
    /\ SessFrame /\ UNCHANGED <<pipe, owner, out>>

(* The chunk, transformed, goes out on the other side's descriptor, to       *)
(* whatever connection that number stands for now.                           *)
SideSend(s, x) ==
    /\ Running /\ thr[s][x].pc = "send"
    /\ LET c == owner[sess[s].fd[Other(x)]]
       IN  /\ c # Free
           /\ out' = [out EXCEPT ![c[1]][c[2]] = Append(@, thr[s][x].buf)]
    /\ thr' = [thr EXCEPT ![s][x].pc = "recv", ![s][x].buf = <<>>]
    /\ SessFrame /\ UNCHANGED <<pipe, owner>>

(* Mutant: the thread closes its own socket when its peer is gone. *)
SideStopsAndCloses(s, x) ==
    /\ Running /\ thr[s][x].pc \in {"recv", "send"}
    /\ thr' = [thr EXCEPT ![s][x].pc = "notify", ![s][x].buf = <<>>]
    /\ owner' = [owner EXCEPT ![sess[s].fd[x]] = Free]
    /\ SessFrame /\ UNCHANGED <<pipe, out>>

(* recv returns 0 or an error, the chunk cannot be transformed or sent: the  *)
(* loop ends.  The thread does not close its socket.                         *)
SideStops(s, x) ==
    /\ Running /\ thr[s][x].pc \in {"recv", "send"}
    /\ thr' = [thr EXCEPT ![s][x].pc = "notify", ![s][x].buf = <<>>]
    /\ SessFrame /\ UNCHANGED <<pipe, owner, out>>

(* The thread writes its id to the pipe and exits. *)
SideNotifies(s, x) ==
    /\ Running /\ thr[s][x].pc = "notify"
    /\ pipe' = [pipe EXCEPT ![s] = Append(@, x)]
    /\ thr' = [thr EXCEPT ![s][x].pc = "done"]
    /\ SessFrame /\ UNCHANGED <<owner, out>>

(* A cancelled thread ends at the blocking call it is in, or reaches next. *)
SideCancelled(s, x) ==
    /\ Alive(s, x) /\ thr[s][x].cancel
    /\ thr' = [thr EXCEPT ![s][x].pc = "done", ![s][x].buf = <<>>]
    /\ SessFrame /\ UNCHANGED <<pipe, owner, out>>

-----------------------------------------------------------------------------
SessionStep(s) ==
    \/ \E x \in Side : ConnectSide(s, x)
    \/ AuthSession(s) \/ Spawn(s)
    \/ AwaitFirst(s) \/ AwaitFirstFails(s) \/ Join(s)
    \/ CloseBoth(s) \/ SessionEnded(s)

Next ==
    \/ \E o \in Options : Main(o)
    \/ ControlConnect \/ ControlAuth
    \/ \E k \in Kind : RelaySends(k)
    \/ \E n \in 1 .. RecvMax : ControlRecv(n)
    \/ IdleTimeout \/ ControlLost
    \/ SkipRequest \/ StartSession \/ StartSessionFails
    \/ SingleDone \/ Tick
    \/ \E s \in Session :
          \/ SessionStep(s)
          \/ \E x \in Side : \/ SideRecv(s, x) \/ SideSend(s, x) \/ SideStops(s, x)
                             \/ SideNotifies(s, x) \/ SideCancelled(s, x)

Spec == Init /\ [][Next]_vars

(* Threads that are ready run.  Nothing is assumed of the peers, and a       *)
(* failing read of the pipe is not needed for a tunnel to end.               *)
Fairness ==
    /\ WF_vars(SingleDone)
    /\ \A s \in Session :
          /\ WF_vars(AwaitFirst(s) \/ Join(s) \/ CloseBoth(s) \/ SessionEnded(s))
          /\ \A x \in Side : WF_vars(SideNotifies(s, x) \/ SideCancelled(s, x))

FairSpec == Spec /\ Fairness

-----------------------------------------------------------------------------
(* Properties                                                               *)

Live(s) == sess[s].pc \notin {"none", "ended"}

(* The tunnels keep the promise of module Tunnels: bytes read at one end of  *)
(* a tunnel leave at the other end of that tunnel, in order, and nothing     *)
(* leaves a tunnel that is over, however descriptor numbers are reused and   *)
(* whichever thread ends first.                                              *)
PhaseOf(s) ==
    IF exit # "" \/ sess[s].pc \in {"over", "ended"} THEN "closed"
    ELSE IF sess[s].pc \in {"none", "connA", "connB", "auth", "reply"} THEN "unborn"
    ELSE "open"
T == INSTANCE Tunnels WITH Tunnel <- Session,
                           phase <- [s \in Session |-> PhaseOf(s)],
                           delivered <- out
TunnelsKept == T!Spec

(* active_sessions counts the tunnels that are running, in multi mode, never *)
(* exceeds SRV_MAX_SESSIONS, and srv never gives up for idleness while a     *)
(* tunnel it accepted is running.                                            *)
SessionsAreCounted ==
    LET n == Cardinality({s \in Session : Live(s)})
    IN  /\ cfg.multi /\ mpc = "loop" => active = n
        /\ exit = "timeout" => n = 0

(* A descriptor belongs to a tunnel that is running and knows it: no failure *)
(* path of socket_to_socket loses a socket, and none closes another's.       *)
NoSocketLeaks ==
    \A f \in Fd : owner[f] # Free =>
        LET c == owner[f] IN Live(c[1]) /\ sess[c[1]].pc # "over" /\ sess[c[1]].fd[c[2]] = f

(* Connect requests among those taken, and connect lines that end in pieces. *)
Connects(requests) == Cardinality({i \in DOMAIN requests : requests[i] = "connect"})
ConnectEnds(pieces) ==
    Cardinality({i \in DOMAIN pieces : IsEnd(pieces[i]) /\ pieces[i].kind = "connect"})

(* However TCP cuts the control stream up, and whatever long or malformed    *)
(* lines arrive between them, every connect line that has arrived completely *)
(* is processed or waits to be, once.                                        *)
NoRequestLost ==
    Running => handled + Connects(batch) + ConnectEnds(ctl.wire) = ctl.connects

(* sshnpd is told that srv is ready only when it is: the relay has accepted  *)
(* the control connection, or both sides of the only tunnel are being served. *)
ReadyMeansConnected ==
    reported /\ Running =>
       \/ mpc = "loop"
       \/ mpc = "single" /\ sess[1].pc \in {"wait", "joinOther", "joinBoth", "close", "over"}

(* When one side of a running tunnel has ended, the tunnel ends: its threads *)
(* do not wait for each other, or for the peer that is still there, forever. *)
TunnelEnds ==
    \A s \in Session :
       (sess[s].pc = "wait" /\ \E x \in Side : thr[s][x].pc \in {"notify", "done"})
          ~> (sess[s].pc = "ended" \/ exit # "")
=============================================================================
